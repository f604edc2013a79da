----------------------------- MODULE OutboxProofs -----------------------------
(***************************************************************************)
(* Proofs about Outbox, for every set of messages, every batch and queue   *)
(* size and every bound on faults: first for any number of relays, then,   *)
(* under SingleRelay, what only one relay can promise.                     *)
(***************************************************************************)
EXTENDS Outbox, TLAPS, FiniteSetTheorems

-------------------------------------------------------------------------------
(* Sequences: what Append and Tail leave in place.                          *)

\* Append adds one element at the end.
LEMMA AppendElements ==
  ASSUME NEW S, NEW s \in Seq(S), NEW e \in S
  PROVE  /\ Append(s, e) \in Seq(S)
         /\ Range(Append(s, e)) = Range(s) \cup {e}
         /\ IsInjective(s) /\ e \notin Range(s) => IsInjective(Append(s, e))
<1>1. /\ Append(s, e) \in Seq(S)
      /\ DOMAIN Append(s, e) = 1..(Len(s) + 1)
      /\ DOMAIN s = 1..Len(s)
      /\ Len(s) \in Nat
      /\ \A i \in 1..Len(s) : Append(s, e)[i] = s[i]
      /\ Append(s, e)[Len(s) + 1] = e
  OBVIOUS
<1>2. Range(Append(s, e)) = Range(s) \cup {e}
  BY <1>1 DEF Range
<1>3. ASSUME IsInjective(s), e \notin Range(s)
      PROVE  IsInjective(Append(s, e))
  BY <1>1, <1>3 DEF Range, IsInjective
<1>4. QED BY <1>1, <1>2, <1>3

\* Tail removes the first element, which does not come back if it is unique.
LEMMA TailElements ==
  ASSUME NEW S, NEW s \in Seq(S), s # <<>>
  PROVE  /\ Tail(s) \in Seq(S) /\ Head(s) \in S
         /\ Range(s) = {Head(s)} \cup Range(Tail(s))
         /\ IsInjective(s) => /\ IsInjective(Tail(s))
                              /\ Head(s) \notin Range(Tail(s))
<1>1. /\ Tail(s) \in Seq(S) /\ Head(s) \in S
      /\ Len(s) \in Nat /\ Len(s) >= 1
      /\ DOMAIN s = 1..Len(s) /\ DOMAIN Tail(s) = 1..(Len(s) - 1)
      /\ Head(s) = s[1]
      /\ \A i \in 1..(Len(s) - 1) : Tail(s)[i] = s[i + 1]
  OBVIOUS
<1>2. Range(s) = {Head(s)} \cup Range(Tail(s))
  <2>1. ASSUME NEW i \in 1..Len(s)
        PROVE  s[i] \in {Head(s)} \cup Range(Tail(s))
    <3>1. CASE i = 1 BY <1>1, <3>1
    <3>2. CASE i # 1
      <4>1. i - 1 \in 1..(Len(s) - 1) /\ (i - 1) + 1 = i BY <1>1, <3>2
      <4>2. Tail(s)[i - 1] = s[i] BY <1>1, <4>1
      <4>3. QED BY <1>1, <4>1, <4>2 DEF Range
    <3>3. QED BY <3>1, <3>2
  <2>2. ASSUME NEW i \in 1..(Len(s) - 1)
        PROVE  Tail(s)[i] \in Range(s)
    BY <1>1, <2>2 DEF Range
  <2>3. Head(s) \in Range(s) BY <1>1 DEF Range
  <2>4. QED BY <1>1, <2>1, <2>2, <2>3 DEF Range
<1>3. ASSUME IsInjective(s)
      PROVE  IsInjective(Tail(s)) /\ Head(s) \notin Range(Tail(s))
  BY <1>1, <1>3 DEF Range, IsInjective
<1>4. QED BY <1>1, <1>2, <1>3

\* The messages of a sequence of reports follow its Append and Tail.
LEMMA FirstsElements ==
  ASSUME NEW s \in Seq(Msgs \X Results)
  PROVE  /\ Firsts(s) \in Seq(Msgs)
         /\ \A e \in Msgs, r \in Results : Firsts(Append(s, <<e, r>>)) = Append(Firsts(s), e)
         /\ s # <<>> => /\ Firsts(Tail(s)) = Tail(Firsts(s))
                        /\ Head(s)[1] = Head(Firsts(s))
                        /\ Firsts(s) # <<>>
<1>1. /\ Len(s) \in Nat /\ DOMAIN s = 1..Len(s)
      /\ \A i \in 1..Len(s) : s[i] \in Msgs \X Results
  OBVIOUS
<1>2. /\ Firsts(s) \in Seq(Msgs) /\ Len(Firsts(s)) = Len(s)
      /\ \A i \in 1..Len(s) : Firsts(s)[i] = s[i][1]
  BY <1>1 DEF Firsts
<1>3. ASSUME NEW e \in Msgs, NEW r \in Results
      PROVE  Firsts(Append(s, <<e, r>>)) = Append(Firsts(s), e)
  BY <1>1, <1>2 DEF Firsts
<1>4. ASSUME s # <<>>
      PROVE  /\ Firsts(Tail(s)) = Tail(Firsts(s))
             /\ Head(s)[1] = Head(Firsts(s))
             /\ Firsts(s) # <<>>
  BY <1>1, <1>2, <1>4 DEF Firsts
<1>5. QED BY <1>2, <1>3, <1>4

-------------------------------------------------------------------------------
\* The two outcomes of the conditional UPDATE that claims a row.
LEMMA ClaimCases ==
  ASSUME NEW p \in Procs, NEW m \in Msgs, ClaimRow(p, m)
  PROVE  \/ /\ row[m] = "pending"
            /\ row' = [row EXCEPT ![m] = "sending"]
            /\ claimed' = [claimed EXCEPT ![p] = claimed[p] \cup {m}]
         \/ row[m] # "pending" /\ row' = row /\ claimed' = claimed
  BY DEF ClaimRow

\* A claim that fails leaves the row pending, or 'sending' and on record as leaked.
LEMMA ClaimFailsCases ==
  ASSUME NEW p \in Procs, ClaimFails(p)
  PROVE  \E m \in Msgs :
           /\ batch' = [batch EXCEPT ![p] = batch[p] \ {m}]
           /\ \/ row' = row /\ leaked' = leaked
              \/ /\ row[m] = "pending"
                 /\ row' = [row EXCEPT ![m] = "sending"]
                 /\ leaked' = leaked \cup {m}
  BY DEF ClaimFails

-------------------------------------------------------------------------------
(* Type correctness.                                                        *)

\* No row, no report and no fault yet: the initial state is well typed.
LEMMA InitTypeOK == Init => TypeOK
  BY BoundsAssumption DEF BoundsAssumption, Init, TypeOK, Statuses, Results

\* Every action keeps the variables in their types; ids stay numbers and the
\* queues of a process stay sequences of messages.
LEMMA NextTypeOK == TypeOK /\ [Next]_vars => TypeOK'
<1> SUFFICES ASSUME TypeOK, [Next]_vars
             PROVE  TypeOK'
  OBVIOUS
<1> USE BoundsAssumption DEF BoundsAssumption, TypeOK, Statuses, Results
<1>1. CASE UNCHANGED vars
  BY <1>1 DEF vars, dbVars, relayVars, faultVars, ghostVars
<1>2. ASSUME NEW m \in Msgs, Business(m) \/ Age(m)
      PROVE  TypeOK'
  <2>1. CASE InsertRows(m)
    BY <2>1 DEF InsertRows, relayVars, faultVars, ghostVars
  <2>2. CASE Commit(m)
    BY <2>2 DEF Commit, relayVars, faultVars, ghostVars
  <2>3. CASE CommitFails(m)
    <3>1. faults' \in 0..MaxFaults BY <2>3 DEF CommitFails, Fault
    <3>2. row' \in [Msgs -> Statuses] /\ saved' \subseteq Msgs
      BY <2>3 DEF CommitFails
    <3>3. caller' \in [Msgs -> {"idle", "open", "persisted", "fallback", "lost"}]
      BY <2>3 DEF CommitFails
    <3>4. QED BY <2>3, <3>1, <3>2, <3>3 DEF CommitFails, relayVars, ghostVars
  <2>4. CASE TxFails(m)
    BY <2>4 DEF TxFails, Fault, dbVars, relayVars, ghostVars
  <2>5. CASE Age(m)
    BY <2>5 DEF Age, relayVars, faultVars, ghostVars
  <2>6. QED BY <1>2, <2>1, <2>2, <2>3, <2>4, <2>5 DEF Business
<1>3. ASSUME NEW p \in Procs, Relay(p)
      PROVE  TypeOK'
  <2>1. CASE Select(p)
    <3>1. batch' \in [Procs -> SUBSET Msgs] BY <2>1 DEF Select, RowsWith
    <3>2. QED BY <2>1, <3>1 DEF Select, dbVars, faultVars, ghostVars
  <2>2. CASE Claim(p)
    <3>1. PICK m \in Msgs : ClaimRow(p, m)
      BY <2>2 DEF Claim
    <3>2. batch' \in [Procs -> SUBSET Msgs] BY <3>1 DEF ClaimRow
    <3>3. CASE /\ row' = [row EXCEPT ![m] = "sending"]
               /\ claimed' = [claimed EXCEPT ![p] = claimed[p] \cup {m}]
      BY <2>2, <3>2, <3>3 DEF Claim, faultVars, ghostVars
    <3>4. CASE row' = row /\ claimed' = claimed
      BY <2>2, <3>2, <3>4 DEF Claim, faultVars, ghostVars
    <3>5. QED BY <3>1, <3>3, <3>4, ClaimCases
  <2>3. CASE ClaimFails(p)
    <3>1. PICK m \in Msgs :
            /\ batch' = [batch EXCEPT ![p] = batch[p] \ {m}]
            /\ \/ row' = row /\ leaked' = leaked
               \/ row' = [row EXCEPT ![m] = "sending"] /\ leaked' = leaked \cup {m}
      BY <2>3, ClaimFailsCases
    <3>2. faults' \in 0..MaxFaults BY <2>3 DEF ClaimFails, Fault
    <3>3. /\ batch' \in [Procs -> SUBSET Msgs] /\ row' \in [Msgs -> Statuses]
          /\ leaked' \subseteq Msgs
      BY <3>1 DEF Statuses
    <3>4. QED BY <2>3, <3>2, <3>3 DEF ClaimFails
  <2>4. CASE Produce(p)
    <3>1. \A m \in Msgs : Append(inflight[p], m) \in Seq(Msgs)
      BY AppendElements
    <3>2. PICK m \in Msgs : ProduceRow(p, m)
      BY <2>4 DEF Produce
    <3>3a. claimed' \in [Procs -> SUBSET Msgs] BY <3>2 DEF ProduceRow
    <3>3. inflight' \in [Procs -> Seq(Msgs)]
      BY <3>1, <3>2 DEF ProduceRow
    <3>4. row' \in [Msgs -> Statuses] /\ retried' \subseteq Msgs
      BY <3>2 DEF ProduceRow, MarkDelivered
    <3>5. faults' \in 0..MaxFaults /\ leaked' \subseteq Msgs
      BY <3>2, SMTT(60) DEF ProduceRow, Fault
    <3>6. QED BY <2>4, <3>3a, <3>3, <3>4, <3>5 DEF Produce
  <2>5. QED BY <1>3, <2>1, <2>2, <2>3, <2>4 DEF Relay
<1>4. ASSUME NEW p \in Procs, Kafka(p)
      PROVE  TypeOK'
  <2>1. ASSUME inflight[p] # <<>>
        PROVE  /\ Head(inflight[p]) \in Msgs
               /\ Tail(inflight[p]) \in Seq(Msgs)
               /\ Append(log, Head(inflight[p])) \in Seq(Msgs)
               /\ \A r \in Results : Append(reports[p], <<Head(inflight[p]), r>>)
                                      \in Seq(Msgs \X Results)
    BY <2>1
  <2>2. ASSUME reports[p] # <<>>
        PROVE  /\ Head(reports[p]) \in Msgs \X Results
               /\ Tail(reports[p]) \in Seq(Msgs \X Results)
    BY <2>2
  <2>3. CASE KafkaAck(p)
    BY <2>1, <2>3 DEF KafkaAck, dbVars, faultVars, ghostVars
  <2>4. CASE KafkaFails(p)
    <3>1. faults' \in 0..MaxFaults BY <2>4 DEF KafkaFails, Fault
    <3>2. log' \in Seq(Msgs) BY <2>1, <2>4 DEF KafkaFails
    <3>3. QED BY <2>1, <2>4, <3>1, <3>2 DEF KafkaFails, dbVars, ghostVars
  <2>5. CASE OnDelivery(p)
    <3>1. row' \in [Msgs -> Statuses] /\ retried' \subseteq Msgs
      BY <2>2, <2>5 DEF OnDelivery, MarkDelivered
    <3>2. QED BY <2>2, <2>5, <3>1 DEF OnDelivery, faultVars
  <2>6. CASE OnDeliveryFails(p)
    <3>1. faults' \in 0..MaxFaults BY <2>6 DEF OnDeliveryFails, Fault
    <3>2. QED BY <2>2, <2>6, <3>1 DEF OnDeliveryFails, dbVars
  <2>7. QED BY <1>4, <2>3, <2>4, <2>5, <2>6 DEF Kafka
<1>5. ASSUME NEW p \in Procs, Process(p)
      PROVE  TypeOK'
  <2>1. CASE Start(p)
    <3>1. faults' \in 0..MaxFaults BY <2>1 DEF Start, Fault
    <3>2. row' \in [Msgs -> Statuses] /\ leaked' \subseteq Msgs
      BY <2>1 DEF Start, RowsWith
    <3>3. QED BY <2>1, <3>1, <3>2 DEF Start, relayVars
  <2>2. CASE Stop(p)
    BY <2>2 DEF Stop, dbVars, relayVars, ghostVars
  <2>3. CASE Stopped(p)
    BY <2>3 DEF Stopped, dbVars, relayVars, faultVars, ghostVars
  <2>4. CASE Crash(p)
    BY <2>4 DEF Crash, Fault, ghostVars
  <2>5. QED BY <1>5, <2>1, <2>2, <2>3, <2>4 DEF Process
<1>6. QED BY <1>1, <1>2, <1>3, <1>4, <1>5 DEF Next

\* Every variable keeps its type, whatever the interleaving of transactions,
\* relay, callbacks and crashes.
THEOREM TypeCorrect == Spec => []TypeOK
  BY InitTypeOK, NextTypeOK, PTL DEF Spec

-------------------------------------------------------------------------------
(* Only what was committed is relayed, and only what Kafka has is 'sent'.    *)

\* The three columns agree: a row exists in the outbox exactly when the business
\* row exists, and is uncommitted exactly while its slow path is in between.
RowsAgree ==
  \A m \in Msgs :
    /\ caller[m] \in {"idle", "lost"} => row[m] = "none"
    /\ row[m] = "open" <=> caller[m] = "open"
    /\ m \in saved <=> row[m] \in {"pending", "sending", "sent"}

\* The relay and Kafka have only seen committed messages.
OnlySavedRelayed ==
  /\ \A p \in Procs : batch[p] \cup Held(p) \subseteq saved
  /\ Range(log) \subseteq saved

\* A positive callback, and a 'sent' row, stand for a message that Kafka has.
SentIsInLog ==
  /\ \A m \in Msgs : row[m] = "sent" => InLog(m)
  /\ \A p \in Procs : \A r \in Range(reports[p]) : r[2] = "ok" => InLog(r[1])

Inv == TypeOK /\ RowsAgree /\ OnlySavedRelayed /\ SentIsInLog

\* A message is held when it is claimed, queued in the producer or reported.
LEMMA HeldParts ==
  ASSUME TypeOK, NEW p \in Procs
  PROVE  /\ inflight[p] \in Seq(Msgs) /\ reports[p] \in Seq(Msgs \X Results)
         /\ Reported(p) \in Seq(Msgs)
         /\ claimed[p] \subseteq Held(p)
         /\ Range(inflight[p]) \subseteq Held(p)
         /\ Range(Reported(p)) \subseteq Held(p)
         /\ \A e \in Msgs, r \in Results :
              Firsts(Append(reports[p], <<e, r>>)) = Append(Reported(p), e)
         /\ reports[p] # <<>> => /\ Firsts(Tail(reports[p])) = Tail(Reported(p))
                                 /\ Head(reports[p])[1] = Head(Reported(p))
                                 /\ Reported(p) # <<>>
<1>1. inflight[p] \in Seq(Msgs) /\ reports[p] \in Seq(Msgs \X Results)
  BY DEF TypeOK
<1>2. /\ Firsts(reports[p]) \in Seq(Msgs)
      /\ \A e \in Msgs, r \in Results :
           Firsts(Append(reports[p], <<e, r>>)) = Append(Firsts(reports[p]), e)
      /\ reports[p] # <<>> => /\ Firsts(Tail(reports[p])) = Tail(Firsts(reports[p]))
                              /\ Head(reports[p])[1] = Head(Firsts(reports[p]))
                              /\ Firsts(reports[p]) # <<>>
  BY <1>1, FirstsElements
<1>3. QED BY <1>1, <1>2 DEF Held, Reported

\* The messages the head of the producer's queue and the head of the callbacks
\* stand for are held.
LEMMA HeadsHeld ==
  ASSUME TypeOK, NEW p \in Procs
  PROVE  /\ inflight[p] # <<>> => Head(inflight[p]) \in Held(p) \cap Msgs
         /\ reports[p] # <<>> => /\ Head(reports[p])[1] \in Held(p) \cap Msgs
                                 /\ Head(reports[p]) \in Range(reports[p])
                                 /\ Head(reports[p])[1] = Head(Reported(p))
<1>1. ASSUME inflight[p] # <<>>
      PROVE  Head(inflight[p]) \in Held(p) \cap Msgs
  BY <1>1, HeldParts, TailElements
<1>2. ASSUME reports[p] # <<>>
      PROVE  /\ Head(reports[p])[1] \in Held(p) \cap Msgs
             /\ Head(reports[p]) \in Range(reports[p])
             /\ Head(reports[p])[1] = Head(Reported(p))
  <2>1. Reported(p) # <<>> /\ Head(reports[p])[1] = Head(Reported(p))
    BY <1>2, HeldParts
  <2>2. Head(Reported(p)) \in Held(p) \cap Msgs
    BY <2>1, HeldParts, TailElements
  <2>3. QED BY <1>2, <2>1, <2>2, HeldParts, TailElements
<1>3. QED BY <1>1, <1>2

\* A transaction writes the message and its outbox row together, or neither.
LEMMA NextRowsAgree == Inv /\ [Next]_vars => RowsAgree'
<1> SUFFICES ASSUME Inv, [Next]_vars
             PROVE  RowsAgree'
  OBVIOUS
<1> USE DEF Inv, TypeOK, Statuses, RowsAgree
<1>1. CASE UNCHANGED vars
  BY <1>1 DEF vars, dbVars
<1>2. ASSUME NEW m \in Msgs, Business(m) \/ Age(m)
      PROVE  RowsAgree'
  <2>1. CASE InsertRows(m)
    BY <2>1 DEF InsertRows
  <2>2. CASE Commit(m)
    BY <2>2 DEF Commit
  <2>3. CASE CommitFails(m)
    <3>1. caller[m] = "open" /\ caller' = [caller EXCEPT ![m] = "fallback"]
      BY <2>3 DEF CommitFails
    <3>2. CASE row' = [row EXCEPT ![m] = "none"] /\ saved' = saved
      BY <3>1, <3>2
    <3>3. CASE row' = [row EXCEPT ![m] = "pending"] /\ saved' = saved \cup {m}
      BY <3>1, <3>3
    <3>4. QED BY <2>3, <3>2, <3>3 DEF CommitFails
  <2>4. CASE TxFails(m)
    BY <2>4 DEF TxFails, dbVars
  <2>5. CASE Age(m)
    BY <2>5 DEF Age
  <2>6. QED BY <1>2, <2>1, <2>2, <2>3, <2>4, <2>5 DEF Business
<1>3. ASSUME NEW m \in saved, UNCHANGED <<caller, saved>>,
             NEW s \in {"pending", "sending", "sent"}, row' = [row EXCEPT ![m] = s]
      PROVE  RowsAgree'
  BY <1>3
<1>4. ASSUME NEW p \in Procs, Relay(p)
      PROVE  RowsAgree'
  <2>1. CASE Select(p) \/ ClaimFails(p)
    BY <2>1 DEF Select, ClaimFails, dbVars
  <2>2. CASE Claim(p)
    <3>1. PICK m \in Msgs : ClaimRow(p, m)
      BY <2>2 DEF Claim
    <3>2. UNCHANGED <<caller, saved>> BY <2>2 DEF Claim
    <3>3. CASE row' = row BY <3>2, <3>3
    <3>4. CASE row[m] = "pending" /\ row' = [row EXCEPT ![m] = "sending"]
      BY <1>3, <3>2, <3>4
    <3>5. QED BY <3>1, <3>3, <3>4, ClaimCases
  <2>3. CASE Produce(p)
    <3>1. PICK m \in Msgs : ProduceRow(p, m)
      BY <2>3 DEF Produce
    <3>2. UNCHANGED <<caller, saved>> BY <2>3 DEF Produce
    <3>3. m \in saved
      BY <3>1, HeldParts DEF ProduceRow, IsFirst, OnlySavedRelayed
    <3>4. CASE row' = row BY <3>2, <3>4
    <3>5. CASE row' = [row EXCEPT ![m] = "pending"] BY <1>3, <3>2, <3>3, <3>5
    <3>6. QED BY <3>1, <3>4, <3>5 DEF ProduceRow, MarkDelivered
  <2>4. QED BY <1>4, <2>1, <2>2, <2>3 DEF Relay
<1>5. ASSUME NEW p \in Procs, Kafka(p)
      PROVE  RowsAgree'
  <2>1. CASE KafkaAck(p) \/ KafkaFails(p) \/ OnDeliveryFails(p)
    BY <2>1 DEF KafkaAck, KafkaFails, OnDeliveryFails, dbVars
  <2>2. CASE OnDelivery(p)
    <3>1. UNCHANGED <<caller, saved>> BY <2>2 DEF OnDelivery
    <3>2. Head(reports[p])[1] \in saved
      BY <2>2, HeadsHeld DEF OnDelivery, OnlySavedRelayed
    <3>3. \E s \in {"pending", "sent"} :
            row' = [row EXCEPT ![Head(reports[p])[1]] = s]
      BY <2>2 DEF OnDelivery, MarkDelivered
    <3>4. QED BY <1>3, <3>1, <3>2, <3>3
  <2>3. QED BY <1>5, <2>1, <2>2 DEF Kafka
<1>6. ASSUME NEW p \in Procs, Process(p)
      PROVE  RowsAgree'
  <2>1. CASE Start(p)
    BY <2>1 DEF Start, RowsWith, Reclaimable
  <2>2. CASE Stop(p) \/ Stopped(p)
    BY <2>2 DEF Stop, Stopped, dbVars
  <2>3. CASE Crash(p)
    BY <2>3 DEF Crash
  <2>4. QED BY <1>6, <2>1, <2>2, <2>3 DEF Process
<1>7. QED BY <1>1, <1>2, <1>4, <1>5, <1>6 DEF Next

\* Steps on one process leave the others alone, and what it holds.
LEMMA NextOnlySavedRelayed == Inv /\ [Next]_vars => OnlySavedRelayed'
<1> SUFFICES ASSUME Inv, [Next]_vars
             PROVE  OnlySavedRelayed'
  OBVIOUS
<1> USE DEF Inv, OnlySavedRelayed
<1>a. TypeOK' BY NextTypeOK
<1>b. saved \subseteq saved'
  <2>1. CASE UNCHANGED vars BY <2>1 DEF vars, dbVars
  <2>2. ASSUME NEW m \in Msgs, Business(m) \/ Age(m) PROVE saved \subseteq saved'
    BY <2>2 DEF Business, InsertRows, Commit, CommitFails, TxFails, Age, dbVars
  <2>3. ASSUME NEW p \in Procs, Relay(p) \/ Kafka(p) \/ Process(p)
        PROVE  saved \subseteq saved'
    BY <2>3 DEF Relay, Select, Claim, ClaimFails, Produce, Kafka, KafkaAck, KafkaFails,
                OnDelivery, OnDeliveryFails, Process, Start, Stop, Stopped, Crash, dbVars
  <2>4. QED BY <2>1, <2>2, <2>3 DEF Next
\* It is enough that the step adds nothing to what is held and to the log.
<1>c. ASSUME \A p \in Procs : batch'[p] \cup Held(p)' \subseteq saved,
             Range(log') \subseteq saved
      PROVE  OnlySavedRelayed'
  BY <1>b, <1>c
<1>1. CASE UNCHANGED <<batch, claimed, inflight, reports, log>>
  BY <1>1, <1>c DEF Held, Reported
<1>2. ASSUME NEW p \in Procs, Relay(p)
      PROVE  OnlySavedRelayed'
  <2>1. CASE Select(p)
    <3>1. RowsWith("pending") \subseteq saved BY DEF RowsWith, RowsAgree
    <3>2. UNCHANGED <<claimed, inflight, reports, log>> BY <2>1 DEF Select
    <3>3. \A q \in Procs : batch'[q] \subseteq saved
      BY <2>1, <3>1 DEF Select, TypeOK
    <3>4. QED BY <1>c, <3>2, <3>3 DEF Held, Reported
  <2>2. CASE Claim(p)
    <3>1. PICK m \in Msgs : ClaimRow(p, m)
      BY <2>2 DEF Claim
    <3>2. m \in saved BY <3>1 DEF ClaimRow, IsFirst
    <3>3. UNCHANGED <<inflight, reports, log>> BY <2>2 DEF Claim
    <3>4. \A q \in Procs : batch'[q] \subseteq batch[q]
      BY <3>1 DEF ClaimRow, TypeOK
    <3>5. \A q \in Procs : claimed'[q] \subseteq claimed[q] \cup {m}
      <4>1. CASE claimed' = [claimed EXCEPT ![p] = claimed[p] \cup {m}]
        BY <4>1 DEF TypeOK
      <4>2. CASE claimed' = claimed BY <4>2
      <4>3. QED BY <3>1, <4>1, <4>2, ClaimCases
    <3>6. QED BY <1>c, <3>2, <3>3, <3>4, <3>5 DEF Held, Reported
  <2>3. CASE ClaimFails(p)
    <3>1. \A q \in Procs : batch'[q] \subseteq batch[q]
      BY <2>3 DEF ClaimFails, TypeOK
    <3>2. UNCHANGED <<claimed, inflight, reports, log>> BY <2>3 DEF ClaimFails
    <3>3. QED BY <1>c, <3>1, <3>2 DEF Held, Reported
  <2>4. CASE Produce(p)
    <3>1. PICK m \in Msgs : ProduceRow(p, m)
      BY <2>4 DEF Produce
    <3>2. m \in saved BY <3>1, HeldParts DEF ProduceRow, IsFirst
    <3>3. UNCHANGED <<batch, reports, log>> BY <2>4 DEF Produce
    <3>4. \A q \in Procs : claimed'[q] \subseteq claimed[q]
      BY <3>1 DEF ProduceRow, TypeOK
    <3>5. \A q \in Procs : Range(inflight'[q]) \subseteq Range(inflight[q]) \cup {m}
      <4>1. CASE inflight' = inflight BY <4>1
      <4>2. CASE inflight' = [inflight EXCEPT ![p] = Append(inflight[p], m)]
        <5>1. Range(Append(inflight[p], m)) = Range(inflight[p]) \cup {m}
          BY AppendElements, HeldParts
        <5>2. QED BY <4>2, <5>1 DEF TypeOK
      <4>3. QED BY <3>1, <4>1, <4>2 DEF ProduceRow
    <3>6. QED BY <1>c, <3>2, <3>3, <3>4, <3>5 DEF Held, Reported
  <2>5. QED BY <1>2, <2>1, <2>2, <2>3, <2>4 DEF Relay
<1>3. ASSUME NEW p \in Procs, Kafka(p)
      PROVE  OnlySavedRelayed'
  <2>1. ASSUME KafkaAck(p) \/ KafkaFails(p)
        PROVE  OnlySavedRelayed'
    <3> DEFINE m == Head(inflight[p])
    <3>1. inflight[p] # <<>> BY <2>1 DEF KafkaAck, KafkaFails
    <3>2. m \in saved /\ m \in Msgs BY <3>1, HeadsHeld
    <3>3. UNCHANGED <<batch, claimed>> BY <2>1 DEF KafkaAck, KafkaFails
    <3>4. \A q \in Procs : Range(inflight'[q]) \subseteq Range(inflight[q])
      <4>1. Range(Tail(inflight[p])) \subseteq Range(inflight[p])
        BY <3>1, TailElements, HeldParts
      <4>2. inflight' = [inflight EXCEPT ![p] = Tail(inflight[p])]
        BY <2>1 DEF KafkaAck, KafkaFails
      <4>3. QED BY <4>1, <4>2 DEF TypeOK
    <3>5. PICK r \in Results : reports' = [reports EXCEPT ![p] = Append(reports[p], <<m, r>>)]
      BY <2>1 DEF KafkaAck, KafkaFails, Results
    <3>6. \A q \in Procs : Range(Reported(q)') \subseteq Range(Reported(q)) \cup {m}
      <4>1. Firsts(Append(reports[p], <<m, r>>)) = Append(Reported(p), m)
        BY <3>2, HeldParts
      <4>2. Range(Append(Reported(p), m)) = Range(Reported(p)) \cup {m}
        BY <3>2, AppendElements, HeldParts
      <4>3. QED BY <3>5, <4>1, <4>2 DEF TypeOK, Reported
    <3>7. Range(log') \subseteq saved
      <4>1. Range(Append(log, m)) = Range(log) \cup {m}
        BY <3>2, AppendElements DEF TypeOK
      <4>2. log' = log \/ log' = Append(log, m) BY <2>1 DEF KafkaAck, KafkaFails
      <4>3. QED BY <3>2, <4>1, <4>2
    <3>8. QED BY <1>c, <3>2, <3>3, <3>4, <3>6, <3>7 DEF Held
  <2>2. ASSUME OnDelivery(p) \/ OnDeliveryFails(p)
        PROVE  OnlySavedRelayed'
    <3>1. reports[p] # <<>> /\ reports' = [reports EXCEPT ![p] = Tail(reports[p])]
      BY <2>2 DEF OnDelivery, OnDeliveryFails
    <3>2. UNCHANGED <<batch, claimed, inflight, log>>
      BY <2>2 DEF OnDelivery, OnDeliveryFails
    <3>3. \A q \in Procs : Range(Reported(q)') \subseteq Range(Reported(q))
      <4>1. Firsts(Tail(reports[p])) = Tail(Reported(p)) /\ Reported(p) # <<>>
        BY <3>1, HeldParts
      <4>2. Range(Tail(Reported(p))) \subseteq Range(Reported(p))
        BY <4>1, TailElements, HeldParts
      <4>3. QED BY <3>1, <4>1, <4>2 DEF TypeOK, Reported
    <3>4. QED BY <1>c, <3>2, <3>3 DEF Held
  <2>3. QED BY <1>3, <2>1, <2>2 DEF Kafka
<1>4. ASSUME NEW p \in Procs, Process(p)
      PROVE  OnlySavedRelayed'
  <2>1. CASE Crash(p)
    <3>1. Range(<<>>) = {} /\ Firsts(<<>>) = <<>> BY DEF Range, Firsts
    <3>2. \A q \in Procs : /\ batch'[q] \subseteq batch[q]
                           /\ claimed'[q] \subseteq claimed[q]
                           /\ Range(inflight'[q]) \subseteq Range(inflight[q])
                           /\ Range(Reported(q)') \subseteq Range(Reported(q))
      BY <2>1, <3>1 DEF Crash, TypeOK, Reported
    <3>3. log' = log BY <2>1 DEF Crash
    <3>4. QED BY <1>c, <3>2, <3>3 DEF Held
  <2>2. CASE Start(p) \/ Stop(p) \/ Stopped(p)
    BY <1>1, <2>2 DEF Start, Stop, Stopped, relayVars
  <2>3. QED BY <1>4, <2>1, <2>2 DEF Process
<1>5. ASSUME NEW m \in Msgs, Business(m) \/ Age(m)
      PROVE  OnlySavedRelayed'
  BY <1>1, <1>5 DEF Business, InsertRows, Commit, CommitFails, TxFails, Age, relayVars
<1>6. CASE UNCHANGED vars BY <1>1, <1>6 DEF vars, relayVars
<1>7. QED BY <1>2, <1>3, <1>4, <1>5, <1>6 DEF Next

\* A row becomes 'sent' only by a positive report, and such a report is made
\* only of a message that the broker has.
LEMMA NextSentIsInLog == Inv /\ [Next]_vars => SentIsInLog'
<1> SUFFICES ASSUME Inv, [Next]_vars
             PROVE  SentIsInLog'
  OBVIOUS
<1> USE DEF Inv, SentIsInLog
\* It is enough that the log keeps its messages, and that the step marks no row
\* 'sent' and adds no positive callback unless Kafka has the message.
<1>a. ASSUME Range(log) \subseteq Range(log'),
             \A m \in Msgs : row'[m] = "sent" => row[m] = "sent" \/ m \in Range(log'),
             \A p \in Procs : \A r \in Range(reports'[p]) :
               r[2] = "ok" => r \in Range(reports[p]) \/ r[1] \in Range(log')
      PROVE  SentIsInLog'
  BY <1>a DEF InLog
<1>1. CASE UNCHANGED <<reports, log>>
           /\ \A m \in Msgs : row'[m] = "sent" => row[m] = "sent"
  BY <1>1, <1>a
<1>2. ASSUME NEW m \in Msgs, Business(m) \/ Age(m)
      PROVE  SentIsInLog'
  <2>1. UNCHANGED <<reports, log>>
    BY <1>2 DEF Business, InsertRows, Commit, CommitFails, TxFails, Age, relayVars
  <2>2. \A n \in Msgs : row'[n] = "sent" => row[n] = "sent"
    BY <1>2 DEF Business, InsertRows, Commit, CommitFails, TxFails, Age, dbVars, TypeOK
  <2>3. QED BY <1>1, <2>1, <2>2
<1>3. ASSUME NEW p \in Procs, Relay(p)
      PROVE  SentIsInLog'
  <2>1. UNCHANGED <<reports, log>>
    BY <1>3 DEF Relay, Select, Claim, ClaimFails, Produce
  <2>2. \A n \in Msgs : row'[n] = "sent" => row[n] = "sent"
    <3>1. CASE Select(p)
      BY <3>1 DEF Select, dbVars
    <3>f. CASE ClaimFails(p)
      BY <3>f, ClaimFailsCases DEF TypeOK
    <3>2. CASE Claim(p)
      <4>1. PICK m \in Msgs : ClaimRow(p, m) BY <3>2 DEF Claim
      <4>2. CASE row' = [row EXCEPT ![m] = "sending"] BY <4>2 DEF TypeOK
      <4>3. CASE row' = row BY <4>3
      <4>4. QED BY <4>1, <4>2, <4>3, ClaimCases
    <3>3. CASE Produce(p)
      <4>1. PICK m \in Msgs : ProduceRow(p, m) BY <3>3 DEF Produce
      <4>2. CASE row' = [row EXCEPT ![m] = "pending"] BY <4>2 DEF TypeOK
      <4>3. CASE row' = row BY <4>3
      <4>4. QED BY <4>1, <4>2, <4>3 DEF ProduceRow, MarkDelivered
    <3>4. QED BY <1>3, <3>1, <3>2, <3>3, <3>f DEF Relay
  <2>3. QED BY <1>1, <2>1, <2>2
<1>4. ASSUME NEW p \in Procs, Kafka(p)
      PROVE  SentIsInLog'
  <2>1. ASSUME KafkaAck(p) \/ KafkaFails(p)
        PROVE  SentIsInLog'
    <3> DEFINE m == Head(inflight[p])
    <3>1. inflight[p] # <<>> /\ row' = row
      BY <2>1 DEF KafkaAck, KafkaFails, dbVars
    <3>2. m \in Msgs BY <3>1, HeadsHeld
    <3>3. Range(Append(log, m)) = Range(log) \cup {m}
      BY <3>2, AppendElements DEF TypeOK
    <3>4. \A r \in Results :
            Range(Append(reports[p], <<m, r>>)) = Range(reports[p]) \cup {<<m, r>>}
      <4> TAKE r \in Results
      <4>1. <<m, r>> \in Msgs \X Results BY <3>2
      <4>2. reports[p] \in Seq(Msgs \X Results) BY HeldParts
      <4>3. QED BY <4>1, <4>2, AppendElements
    <3>5. CASE KafkaAck(p)
      <4>1. /\ log' = Append(log, m)
            /\ reports' = [reports EXCEPT ![p] = Append(reports[p], <<m, "ok">>)]
        BY <3>5 DEF KafkaAck
      <4>2. \A q \in Procs :
              Range(reports'[q]) \subseteq Range(reports[q]) \cup {<<m, "ok">>}
        BY <3>4, <4>1 DEF TypeOK, Results
      <4>3. /\ Range(log) \subseteq Range(log') /\ m \in Range(log')
            /\ \A n \in Msgs : row'[n] = "sent" => row[n] = "sent"
        BY <3>1, <3>3, <4>1
      <4>4. \A q \in Procs : \A r \in Range(reports'[q]) :
              r[2] = "ok" => r \in Range(reports[q]) \/ r[1] \in Range(log')
        BY <4>2, <4>3
      <4>5. QED BY <1>a, <4>3, <4>4
    <3>6. CASE KafkaFails(p)
      <4>1. /\ log' = Append(log, m) \/ log' = log
            /\ reports' = [reports EXCEPT ![p] = Append(reports[p], <<m, "failed">>)]
        BY <3>6 DEF KafkaFails
      <4>2. \A q \in Procs :
              Range(reports'[q]) \subseteq Range(reports[q]) \cup {<<m, "failed">>}
        BY <3>4, <4>1 DEF TypeOK, Results
      <4>3. /\ Range(log) \subseteq Range(log')
            /\ \A n \in Msgs : row'[n] = "sent" => row[n] = "sent"
        BY <3>1, <3>3, <4>1
      <4>4. \A q \in Procs : \A r \in Range(reports'[q]) :
              r[2] = "ok" => r \in Range(reports[q])
        BY <4>2
      <4>5. QED BY <1>a, <4>3, <4>4
    <3>7. QED BY <2>1, <3>5, <3>6
  <2>2. ASSUME OnDelivery(p) \/ OnDeliveryFails(p)
        PROVE  SentIsInLog'
    <3> DEFINE h == Head(reports[p])
    <3>1. /\ reports[p] # <<>> /\ log' = log
          /\ reports' = [reports EXCEPT ![p] = Tail(reports[p])]
      BY <2>2 DEF OnDelivery, OnDeliveryFails
    <3>2. h \in Range(reports[p]) /\ h[1] \in Msgs BY <3>1, HeadsHeld
    <3>3. \A q \in Procs : Range(reports'[q]) \subseteq Range(reports[q])
      <4>1. Range(Tail(reports[p])) \subseteq Range(reports[p])
        BY <3>1, TailElements, HeldParts
      <4>2. QED BY <3>1, <4>1 DEF TypeOK
    <3>4. \A n \in Msgs : row'[n] = "sent" => row[n] = "sent" \/ n \in Range(log')
      <4>1. CASE OnDeliveryFails(p) BY <4>1 DEF OnDeliveryFails, dbVars
      <4>2. CASE OnDelivery(p) /\ h[2] = "ok"
        <5>1. h[1] \in Range(log') BY <3>1, <3>2, <4>2 DEF InLog
        <5>2. row' = [row EXCEPT ![h[1]] = "sent"]
          BY <4>2 DEF OnDelivery, MarkDelivered
        <5>3. QED BY <5>1, <5>2 DEF TypeOK
      <4>3. CASE OnDelivery(p) /\ h[2] # "ok"
        <5>1. row' = [row EXCEPT ![h[1]] = "pending"]
          BY <4>3 DEF OnDelivery, MarkDelivered
        <5>2. QED BY <5>1 DEF TypeOK
      <4>4. QED BY <2>2, <4>1, <4>2, <4>3
    <3>5. QED BY <1>a, <3>1, <3>3, <3>4
  <2>3. QED BY <1>4, <2>1, <2>2 DEF Kafka
<1>5. ASSUME NEW p \in Procs, Process(p)
      PROVE  SentIsInLog'
  <2>1. \A n \in Msgs : row'[n] = "sent" => row[n] = "sent"
    <3>1. CASE Start(p) BY <3>1 DEF Start, TypeOK
    <3>2. CASE Stop(p) \/ Stopped(p) BY <3>2 DEF Stop, Stopped, dbVars
    <3>3. CASE Crash(p) BY <3>3 DEF Crash, TypeOK
    <3>4. QED BY <1>5, <3>1, <3>2, <3>3 DEF Process
  <2>2. CASE Crash(p)
    <3>1. \A q \in Procs : Range(reports'[q]) \subseteq Range(reports[q])
      <4>1. Range(<<>>) = {} BY DEF Range
      <4>2. QED BY <2>2, <4>1 DEF Crash, TypeOK
    <3>2. log' = log BY <2>2 DEF Crash
    <3>3. QED BY <1>a, <2>1, <3>1, <3>2
  <2>3. CASE Start(p) \/ Stop(p) \/ Stopped(p)
    BY <1>1, <2>1, <2>3 DEF Start, Stop, Stopped, relayVars
  <2>4. QED BY <1>5, <2>2, <2>3 DEF Process
<1>6. CASE UNCHANGED vars BY <1>1, <1>6 DEF vars, dbVars, relayVars
<1>7. QED BY <1>2, <1>3, <1>4, <1>5, <1>6 DEF Next

\* The inductive invariant holds at the start: nothing is saved, held or sent.
LEMMA InitInv == Init => Inv
<1> SUFFICES ASSUME Init PROVE Inv
  OBVIOUS
<1>1. Range(<<>>) = {} /\ Firsts(<<>>) = <<>> BY DEF Range, Firsts
<1>2. RowsAgree BY DEF Init, RowsAgree
<1>3. OnlySavedRelayed BY <1>1 DEF Init, OnlySavedRelayed, Held, Reported
<1>4. SentIsInLog BY <1>1 DEF Init, SentIsInLog
<1>5. QED BY <1>2, <1>3, <1>4, InitTypeOK DEF Inv

\* Whatever fails and whoever else relays: an outbox row exists exactly when the
\* message was saved, only saved messages are relayed, and a row marked 'sent'
\* is in Kafka (header comment, lines 5-8).
THEOREM RelaySafety == Spec => []Inv
<1>1. Inv /\ [Next]_vars => Inv'
  BY NextTypeOK, NextRowsAgree, NextOnlySavedRelayed, NextSentIsInLog DEF Inv
<1>2. QED BY <1>1, InitInv, PTL DEF Spec

-------------------------------------------------------------------------------
(* One relay on the database: a row is never in its hands twice, and no row  *)
(* is stranded in silence.                                                   *)

\* A process that is down has lost, or finished, all it held.
DownHoldsNothing ==
  \A p \in Procs : state[p] = "down" => batch[p] = {} /\ Held(p) = {}

SingleInv == Inv /\ HeldOnce /\ DownHoldsNothing

\* A process goes down with nothing in hand: a stop waits for the relay and the
\* flush, a crash forgets what was held.
LEMMA NextDownHoldsNothing ==
  ASSUME Inv, DownHoldsNothing, [Next]_vars
  PROVE  DownHoldsNothing'
<1> USE DEF DownHoldsNothing
<1>0. TypeOK BY DEF Inv
\* It is enough that a process that acts is up, or ends up holding nothing.
<1>a. ASSUME NEW p \in Procs, state'[p] # "down" \/ (batch'[p] = {} /\ Held(p)' = {}),
             \A q \in Procs \ {p} : /\ state'[q] = state[q] /\ batch'[q] = batch[q]
                                     /\ claimed'[q] = claimed[q]
                                     /\ inflight'[q] = inflight[q]
                                     /\ reports'[q] = reports[q]
      PROVE  DownHoldsNothing'
  BY <1>a DEF Held, Reported
<1>1. CASE UNCHANGED <<state, batch, claimed, inflight, reports>>
  BY <1>1 DEF Held, Reported
<1>2. ASSUME NEW m \in Msgs, Business(m) \/ Age(m)
      PROVE  DownHoldsNothing'
  BY <1>1, <1>2 DEF Business, InsertRows, Commit, CommitFails, TxFails, Age, relayVars
<1>3. ASSUME NEW p \in Procs, Relay(p)
      PROVE  DownHoldsNothing'
  <2>1. state[p] # "down"
    <3>1. CASE Select(p) BY <3>1 DEF Select
    <3>2. CASE Claim(p) \/ ClaimFails(p)
      BY <3>2 DEF Claim, ClaimRow, ClaimFails, IsFirst
    <3>3. CASE Produce(p)
      BY <1>0, <3>3, HeldParts DEF Produce, ProduceRow, IsFirst
    <3>4. QED BY <1>3, <3>1, <3>2, <3>3 DEF Relay
  <2>2. state' = state
    BY <1>3 DEF Relay, Select, Claim, ClaimFails, Produce
  <2>3. \A q \in Procs \ {p} :
          /\ batch'[q] = batch[q] /\ claimed'[q] = claimed[q]
          /\ inflight'[q] = inflight[q] /\ reports'[q] = reports[q]
    <3>1. CASE Select(p) BY <1>0, <3>1 DEF Select, TypeOK
    <3>2. CASE Claim(p)
      <4>1. PICK m \in Msgs : ClaimRow(p, m) BY <3>2 DEF Claim
      <4>2. \A q \in Procs \ {p} : claimed'[q] = claimed[q]
        BY <1>0, <4>1, ClaimCases DEF TypeOK
      <4>3. \A q \in Procs \ {p} : batch'[q] = batch[q]
        BY <1>0, <4>1 DEF TypeOK, ClaimRow
      <4>4. QED BY <3>2, <4>2, <4>3 DEF Claim
    <3>3. CASE ClaimFails(p) BY <1>0, <3>3 DEF ClaimFails, TypeOK
    <3>4. CASE Produce(p)
      BY <1>0, <3>4 DEF Produce, ProduceRow, TypeOK
    <3>5. QED BY <1>3, <3>1, <3>2, <3>3, <3>4 DEF Relay
  <2>4. QED BY <1>a, <2>1, <2>2, <2>3
<1>4. ASSUME NEW p \in Procs, Kafka(p)
      PROVE  DownHoldsNothing'
  <2>1. state[p] # "down" /\ state' = state
    <3>1. inflight[p] # <<>> \/ reports[p] # <<>>
      BY <1>4 DEF Kafka, KafkaAck, KafkaFails, OnDelivery, OnDeliveryFails
    <3>2. Held(p) # {} BY <1>0, <3>1, HeadsHeld
    <3>3. QED BY <1>4, <3>2 DEF Kafka, KafkaAck, KafkaFails, OnDelivery, OnDeliveryFails
  <2>2. \A q \in Procs \ {p} :
          /\ batch'[q] = batch[q] /\ claimed'[q] = claimed[q]
          /\ inflight'[q] = inflight[q] /\ reports'[q] = reports[q]
    BY <1>0, <1>4 DEF Kafka, KafkaAck, KafkaFails, OnDelivery, OnDeliveryFails, TypeOK
  <2>3. QED BY <1>a, <2>1, <2>2
<1>5. ASSUME NEW p \in Procs, Process(p)
      PROVE  DownHoldsNothing'
  <2>0. Range(<<>>) = {} /\ Firsts(<<>>) = <<>> BY DEF Range, Firsts
  <2>1. CASE Start(p) \/ Stop(p)
    BY <1>0, <1>a, <2>1 DEF Start, Stop, relayVars, TypeOK
  <2>2. CASE Stopped(p)
    <3>1. batch'[p] = {} /\ Held(p)' = {}
      BY <2>0, <2>2 DEF Stopped, DrainIdle, relayVars, Held, Reported
    <3>2. QED BY <1>0, <1>a, <2>2, <3>1 DEF Stopped, relayVars, TypeOK
  <2>3. CASE Crash(p)
    <3>1. batch'[p] = {} /\ Held(p)' = {}
      BY <1>0, <2>0, <2>3 DEF Crash, Held, Reported, TypeOK
    <3>2. QED BY <1>0, <1>a, <2>3, <3>1 DEF Crash, TypeOK
  <2>4. QED BY <1>5, <2>1, <2>2, <2>3 DEF Process
<1>6. CASE UNCHANGED vars BY <1>1, <1>6 DEF vars, relayVars
<1>7. QED BY <1>2, <1>3, <1>4, <1>5, <1>6 DEF Next

\* With one relay, a row moves from the table to claimed, to the producer and to
\* the reports, and is in one of them at a time.
LEMMA NextHeldOnce ==
  ASSUME SingleRelay, SingleInv, [Next]_vars
  PROVE  HeldOnce'
<1>0. TypeOK /\ HeldOnce BY DEF SingleInv, Inv
<1>1. SUFFICES ASSUME NEW p \in Procs
               PROVE  HeldOnceBy(p)'
  BY DEF HeldOnce, SingleRelay
<1>2. HeldOnceBy(p) BY <1>0 DEF HeldOnce
<1>3. \A q \in Procs : q = p BY DEF SingleRelay
<1>4. Held(p) \subseteq Msgs
  BY <1>0, HeldParts DEF SingleInv, Inv, OnlySavedRelayed, TypeOK
<1>5. ASSUME UNCHANGED <<claimed, inflight, reports>>,
             \A m \in Msgs : row[m] = "sending" /\ m \in Held(p) => row'[m] = "sending"
      PROVE  HeldOnceBy(p)'
  BY <1>2, <1>4, <1>5 DEF HeldOnceBy, Held, Reported
<1>6. ASSUME NEW m \in Msgs, Business(m) \/ Age(m)
      PROVE  HeldOnceBy(p)'
  <2>1. UNCHANGED <<claimed, inflight, reports>>
    BY <1>6 DEF Business, InsertRows, Commit, CommitFails, TxFails, Age, relayVars
  <2>2. \A n \in Msgs : row[n] = "sending" => row'[n] = "sending"
    BY <1>0, <1>6 DEF Business, InsertRows, Commit, CommitFails, TxFails, Age, dbVars,
                      SingleInv, Inv, RowsAgree, TypeOK
  <2>3. QED BY <1>5, <2>1, <2>2
<1>7. ASSUME Relay(p)
      PROVE  HeldOnceBy(p)'
  <2>1. CASE Select(p)
    BY <1>5, <2>1 DEF Select, dbVars
  <2>f. CASE ClaimFails(p)
    <3>1. UNCHANGED <<claimed, inflight, reports>> BY <2>f DEF ClaimFails
    <3>2. \A m \in Msgs : row[m] = "sending" => row'[m] = "sending"
      BY <1>0, <2>f, ClaimFailsCases DEF TypeOK
    <3>3. QED BY <1>5, <3>1, <3>2
  <2>2. CASE Claim(p)
    <3>1. PICK m \in Msgs : ClaimRow(p, m) BY <2>2 DEF Claim
    <3>2. UNCHANGED <<inflight, reports>> BY <2>2 DEF Claim
    <3>3. CASE row' = row /\ claimed' = claimed BY <1>5, <3>2, <3>3
    <3>4. CASE /\ row[m] = "pending"
               /\ row' = [row EXCEPT ![m] = "sending"]
               /\ claimed' = [claimed EXCEPT ![p] = claimed[p] \cup {m}]
      <4>1. m \notin Held(p) BY <1>2, <3>4 DEF HeldOnceBy
      <4>2. claimed'[p] = claimed[p] \cup {m} BY <1>0, <3>4 DEF TypeOK
      <4>3. \A n \in Held(p) \cup {m} : row'[n] = "sending"
        BY <1>0, <1>2, <1>4, <3>4 DEF HeldOnceBy, TypeOK
      <4>4. QED BY <1>2, <3>2, <4>1, <4>2, <4>3 DEF HeldOnceBy, Held, Reported
    <3>5. QED BY <3>1, <3>3, <3>4, ClaimCases
  <2>3. CASE Produce(p)
    <3>1. PICK m \in Msgs : ProduceRow(p, m) BY <2>3 DEF Produce
    <3>2. reports' = reports BY <2>3 DEF Produce
    <3>3. m \in claimed[p] /\ claimed'[p] = claimed[p] \ {m}
      BY <1>0, <3>1 DEF ProduceRow, IsFirst, TypeOK
    <3>4. m \notin Range(inflight[p]) /\ m \notin Range(Reported(p))
      BY <1>2, <3>3 DEF HeldOnceBy
    <3>5. CASE /\ inflight' = [inflight EXCEPT ![p] = Append(inflight[p], m)]
               /\ row' = row
      <4>1. /\ Range(Append(inflight[p], m)) = Range(inflight[p]) \cup {m}
            /\ IsInjective(Append(inflight[p], m))
        BY <1>0, <1>2, <3>4, HeldParts, AppendElements DEF HeldOnceBy
      <4>2. inflight'[p] = Append(inflight[p], m) BY <1>0, <3>5 DEF TypeOK
      <4>3. Held(p)' = Held(p) BY <3>2, <3>3, <4>1, <4>2 DEF Held, Reported
      <4>4. QED BY <1>2, <3>2, <3>3, <3>4, <3>5, <4>1, <4>2, <4>3 DEF HeldOnceBy, Reported
    <3>6. CASE inflight' = inflight /\ (row' = row \/ row' = [row EXCEPT ![m] = "pending"])
      <4>1. m \notin Held(p)' /\ Held(p)' \subseteq Held(p)
        BY <3>2, <3>3, <3>4, <3>6 DEF Held, Reported
      <4>2. \A n \in Held(p)' : row'[n] = "sending"
        BY <1>0, <1>2, <1>4, <3>6, <4>1 DEF HeldOnceBy, TypeOK
      <4>3. QED BY <1>2, <3>2, <3>3, <3>6, <4>2 DEF HeldOnceBy, Reported
    <3>7. QED BY <3>1, <3>5, <3>6 DEF ProduceRow, MarkDelivered
  <2>4. QED BY <1>7, <2>1, <2>2, <2>3, <2>f DEF Relay
<1>8. ASSUME Kafka(p)
      PROVE  HeldOnceBy(p)'
  <2>1. ASSUME KafkaAck(p) \/ KafkaFails(p)
        PROVE  HeldOnceBy(p)'
    <3> DEFINE m == Head(inflight[p])
    <3>1. inflight[p] # <<>> /\ row' = row /\ claimed' = claimed
      BY <2>1 DEF KafkaAck, KafkaFails, dbVars
    <3>2. m \in Msgs BY <1>0, <3>1, HeadsHeld
    <3>3. inflight'[p] = Tail(inflight[p])
      BY <1>0, <2>1 DEF KafkaAck, KafkaFails, TypeOK
    <3>4. PICK r \in Results : reports' = [reports EXCEPT ![p] = Append(reports[p], <<m, r>>)]
      BY <2>1 DEF KafkaAck, KafkaFails, Results
    <3>5. Reported(p)' = Append(Reported(p), m)
      BY <1>0, <3>2, <3>4, HeldParts DEF Reported, TypeOK
    <3>6. /\ Range(inflight[p]) = {m} \cup Range(Tail(inflight[p]))
          /\ IsInjective(Tail(inflight[p])) /\ m \notin Range(Tail(inflight[p]))
      BY <1>0, <1>2, <3>1, HeldParts, TailElements DEF HeldOnceBy
    <3>7. m \notin Range(Reported(p)) /\ m \notin claimed[p]
      BY <1>2, <3>6 DEF HeldOnceBy
    <3>8. /\ Range(Append(Reported(p), m)) = Range(Reported(p)) \cup {m}
          /\ IsInjective(Append(Reported(p), m))
      BY <1>0, <1>2, <3>2, <3>7, HeldParts, AppendElements DEF HeldOnceBy
    <3>9. Held(p)' = Held(p)
      BY <3>1, <3>3, <3>5, <3>6, <3>8 DEF Held
    <3>10. QED BY <1>2, <3>1, <3>3, <3>5, <3>6, <3>7, <3>8, <3>9 DEF HeldOnceBy
  <2>2. ASSUME OnDelivery(p) \/ OnDeliveryFails(p)
        PROVE  HeldOnceBy(p)'
    <3> DEFINE m == Head(reports[p])[1]
    <3>1. /\ reports[p] # <<>> /\ claimed' = claimed /\ inflight' = inflight
          /\ reports' = [reports EXCEPT ![p] = Tail(reports[p])]
          /\ \/ row' = row
             \/ \E s \in Statuses : row' = [row EXCEPT ![m] = s]
      BY <2>2 DEF OnDelivery, OnDeliveryFails, MarkDelivered, dbVars, Statuses
    <3>2. Reported(p)' = Tail(Reported(p)) /\ m = Head(Reported(p)) /\ Reported(p) # <<>>
      BY <1>0, <3>1, HeldParts DEF Reported, TypeOK
    <3>3. /\ Range(Reported(p)) = {m} \cup Range(Tail(Reported(p)))
          /\ IsInjective(Tail(Reported(p))) /\ m \notin Range(Tail(Reported(p)))
      BY <1>0, <1>2, <3>2, HeldParts, TailElements DEF HeldOnceBy
    <3>4. m \notin Range(inflight[p]) /\ m \notin claimed[p]
      BY <1>2, <3>3 DEF HeldOnceBy
    <3>5. m \notin Held(p)' /\ Held(p)' \subseteq Held(p)
      BY <3>1, <3>2, <3>3, <3>4 DEF Held
    <3>6. \A n \in Held(p)' : row'[n] = "sending"
      BY <1>0, <1>2, <1>4, <3>1, <3>5 DEF HeldOnceBy, TypeOK
    <3>7. QED BY <1>2, <3>1, <3>2, <3>3, <3>4, <3>6 DEF HeldOnceBy
  <2>3. QED BY <1>8, <2>1, <2>2 DEF Kafka
<1>9. ASSUME Process(p)
      PROVE  HeldOnceBy(p)'
  <2>1. CASE Start(p)
    <3>1. Held(p) = {} BY <2>1 DEF Start, SingleInv, DownHoldsNothing
    <3>2. QED BY <1>5, <2>1, <3>1 DEF Start, relayVars
  <2>2. CASE Stop(p) \/ Stopped(p)
    BY <1>5, <2>2 DEF Stop, Stopped, relayVars, dbVars
  <2>3. CASE Crash(p)
    <3>1. Range(<<>>) = {} /\ Firsts(<<>>) = <<>> /\ IsInjective(<<>>)
      BY DEF Range, Firsts, IsInjective
    <3>2. claimed'[p] = {} /\ inflight'[p] = <<>> /\ Reported(p)' = <<>>
      BY <1>0, <2>3, <3>1 DEF Crash, TypeOK, Reported
    <3>3. QED BY <3>1, <3>2 DEF HeldOnceBy, Held
  <2>4. QED BY <1>9, <2>1, <2>2, <2>3 DEF Process
<1>10. CASE UNCHANGED vars BY <1>5, <1>10 DEF vars, dbVars, relayVars
<1>11. QED BY <1>3, <1>6, <1>7, <1>8, <1>9, <1>10 DEF Next

\* The invariant of a single relay holds at the start.
LEMMA InitSingleInv == Init => SingleInv
<1> SUFFICES ASSUME Init PROVE SingleInv
  OBVIOUS
<1>1. Range(<<>>) = {} /\ Firsts(<<>>) = <<>> /\ IsInjective(<<>>)
  BY DEF Range, Firsts, IsInjective
<1>2. \A p \in Procs : /\ batch[p] = {} /\ Held(p) = {} /\ claimed[p] = {}
                       /\ inflight[p] = <<>> /\ Reported(p) = <<>>
  BY <1>1 DEF Init, Held, Reported
<1>3. HeldOnce BY <1>1, <1>2 DEF HeldOnce, HeldOnceBy
<1>4. QED BY <1>2, <1>3, InitInv DEF SingleInv, DownHoldsNothing

\* Every step of a single relay keeps its invariant.
LEMMA NextSingleInv == ASSUME SingleRelay PROVE SingleInv /\ [Next]_vars => SingleInv'
<1>1. Inv /\ [Next]_vars => Inv'
  BY NextTypeOK, NextRowsAgree, NextOnlySavedRelayed, NextSentIsInLog DEF Inv
<1>2. QED BY <1>1, NextHeldOnce, NextDownHoldsNothing DEF SingleInv

\* With one relay, a row is in its hands at most once and 'sending' all that
\* time, so that no row is produced again while its callback is outstanding
\* (the comment before drainOnce).
THEOREM RowHeldOnce == ASSUME SingleRelay PROVE Spec => []HeldOnce
<1>1. SingleInv => HeldOnce BY DEF SingleInv
<1>2. QED BY <1>1, InitSingleInv, NextSingleInv, PTL DEF Spec

-------------------------------------------------------------------------------
(* One relay implements the abstract outbox.                                 *)

\* A row leaves 'sent' never, and enters it only through a positive callback.
LEMMA SentChanges ==
  ASSUME SingleRelay, SingleInv, [Next]_vars, NEW m \in Msgs,
         row[m] = "sent" \/ row'[m] = "sent"
  PROVE  \/ row[m] = "sent" /\ row'[m] = "sent"
         \/ \E p \in Procs : /\ OnDelivery(p)
                              /\ row' = [row EXCEPT ![m] = "sent"]
<1>0. TypeOK /\ HeldOnce /\ RowsAgree BY DEF SingleInv, Inv
<1>1. CASE row' = row BY <1>1
<1>2. ASSUME NEW n \in Msgs, row[n] # "sent", NEW s \in Statuses \ {"sent"},
             row' = [row EXCEPT ![n] = s]
      PROVE  row[m] = "sent" /\ row'[m] = "sent"
  BY <1>0, <1>2 DEF TypeOK
<1>3. ASSUME NEW n \in Msgs, Business(n) \/ Age(n)
      PROVE  row[m] = "sent" /\ row'[m] = "sent"
  BY <1>0, <1>3 DEF Business, InsertRows, Commit, CommitFails, TxFails, Age, dbVars,
                    RowsAgree, TypeOK
<1>4. ASSUME NEW p \in Procs, Relay(p)
      PROVE  row[m] = "sent" /\ row'[m] = "sent"
  <2>1. CASE Select(p) BY <1>1, <2>1 DEF Select, dbVars
  <2>f. CASE ClaimFails(p)
    <3>1. \/ row' = row
          \/ \E n \in Msgs : row[n] = "pending" /\ row' = [row EXCEPT ![n] = "sending"]
      BY <2>f, ClaimFailsCases
    <3>2. QED BY <1>1, <1>2, <3>1 DEF Statuses
  <2>2. CASE Claim(p)
    <3>1. PICK n \in Msgs : ClaimRow(p, n) BY <2>2 DEF Claim
    <3>2. row' = row \/ (row[n] = "pending" /\ row' = [row EXCEPT ![n] = "sending"])
      BY <3>1, ClaimCases
    <3>3. QED BY <1>1, <1>2, <3>2 DEF Statuses
  <2>3. CASE Produce(p)
    <3>1. PICK n \in Msgs : ProduceRow(p, n) BY <2>3 DEF Produce
    <3>2. row' = row \/ row' = [row EXCEPT ![n] = "pending"]
      BY <3>1 DEF ProduceRow, MarkDelivered
    <3>3. row[n] = "sending"
      BY <1>0, <3>1, HeldParts DEF ProduceRow, IsFirst, HeldOnce, HeldOnceBy
    <3>4. QED BY <1>1, <1>2, <3>2, <3>3 DEF Statuses
  <2>4. QED BY <1>4, <2>1, <2>2, <2>3, <2>f DEF Relay
<1>5. ASSUME NEW p \in Procs, Kafka(p)
      PROVE  \/ row[m] = "sent" /\ row'[m] = "sent"
             \/ OnDelivery(p) /\ row' = [row EXCEPT ![m] = "sent"]
  <2>1. CASE KafkaAck(p) \/ KafkaFails(p) \/ OnDeliveryFails(p)
    BY <1>1, <2>1 DEF KafkaAck, KafkaFails, OnDeliveryFails, dbVars
  <2>2. CASE OnDelivery(p)
    <3> DEFINE h == Head(reports[p])
    <3>1. h[1] \in Msgs /\ row[h[1]] = "sending"
      BY <1>0, <2>2, HeadsHeld DEF OnDelivery, HeldOnce, HeldOnceBy
    <3>2. CASE row' = [row EXCEPT ![h[1]] = "pending"]
      BY <1>2, <3>1, <3>2 DEF Statuses
    <3>3. CASE row' = [row EXCEPT ![h[1]] = "sent"]
      BY <1>0, <2>2, <3>1, <3>3 DEF TypeOK
    <3>4. QED BY <2>2, <3>2, <3>3 DEF OnDelivery, MarkDelivered
  <2>3. QED BY <1>5, <2>1, <2>2 DEF Kafka
<1>6. ASSUME NEW p \in Procs, Process(p)
      PROVE  row[m] = "sent" /\ row'[m] = "sent"
  <2>1. CASE Start(p) BY <1>0, <2>1 DEF Start, Reclaimable, RowsWith, TypeOK
  <2>2. CASE Stop(p) \/ Stopped(p) BY <1>1, <2>2 DEF Stop, Stopped, dbVars
  <2>3. CASE Crash(p) BY <1>0, <2>3 DEF Crash, RowsAgree, TypeOK
  <2>4. QED BY <1>6, <2>1, <2>2, <2>3 DEF Process
<1>7. CASE UNCHANGED vars BY <1>1, <1>7 DEF vars, dbVars
<1>8. QED BY <1>3, <1>4, <1>5, <1>6, <1>7 DEF Next

\* A step of a single relay is a step of the abstract outbox or a stutter.
LEMMA StepImplementsAbs ==
  ASSUME SingleRelay, SingleInv, [Next]_vars
  PROVE  [Abs!Next]_(Abs!vars)
<1> DEFINE published == {m \in Msgs : InLog(m)}
<1>0. TypeOK BY DEF SingleInv, Inv
<1>1. ASSUME NEW p \in Procs, OnDelivery(p), NEW m \in Msgs,
             row' = [row EXCEPT ![m] = "sent"]
      PROVE  Abs!Settle(m) \/ UNCHANGED Abs!vars
  <2>1. saved' = saved /\ log' = log BY <1>1 DEF OnDelivery
  <2>2. row'[m] = "sent" BY <1>0, <1>1 DEF TypeOK
  <2>3. InLog(m)'
    BY <2>2, NextSentIsInLog DEF SentIsInLog, SingleInv
  <2>4. InLog(m) BY <2>1, <2>3 DEF InLog
  <2>5. RowsWith("sent")' = RowsWith("sent") \cup {m}
    BY <1>0, <1>1 DEF RowsWith, TypeOK
  <2>6. published' = published BY <2>1 DEF InLog
  <2>7. QED BY <2>1, <2>4, <2>5, <2>6 DEF Abs!Settle
<1>2. CASE \E p \in Procs, m \in Msgs : OnDelivery(p) /\ row' = [row EXCEPT ![m] = "sent"]
  BY <1>1, <1>2 DEF Abs!Next
<1>3. CASE ~\E p \in Procs, m \in Msgs : OnDelivery(p) /\ row' = [row EXCEPT ![m] = "sent"]
  <2>1. RowsWith("sent")' = RowsWith("sent")
    BY <1>3, SentChanges DEF RowsWith
  <2>2. CASE saved' = saved /\ log' = log
    <3>1. published' = published BY <2>2 DEF InLog
    <3>2. QED BY <2>1, <2>2, <3>1 DEF Abs!vars
  <2>3. ASSUME NEW m \in Msgs, saved' = saved \cup {m}, log' = log
        PROVE  Abs!Accept(m)
    <3>1. published' = published BY <2>3 DEF InLog
    <3>2. QED BY <2>1, <2>3, <3>1 DEF Abs!Accept
  <2>4. ASSUME NEW m \in saved, m \in Msgs, saved' = saved, log' = Append(log, m)
        PROVE  Abs!Publish(m)
    <3>1. Range(Append(log, m)) = Range(log) \cup {m}
      BY <1>0, <2>4, AppendElements DEF TypeOK
    <3>2. published' = published \cup {m} BY <2>4, <3>1 DEF InLog
    <3>3. QED BY <2>1, <2>4, <3>2 DEF Abs!Publish
  <2>5. ASSUME NEW m \in Msgs, Business(m) \/ Age(m)
        PROVE  [Abs!Next]_(Abs!vars)
    <3>1. log' = log /\ (saved' = saved \/ saved' = saved \cup {m})
      BY <2>5 DEF Business, InsertRows, Commit, CommitFails, TxFails, Age, dbVars
    <3>2. QED BY <2>2, <2>3, <3>1 DEF Abs!Next
  <2>6. ASSUME NEW p \in Procs, KafkaAck(p) \/ KafkaFails(p)
        PROVE  [Abs!Next]_(Abs!vars)
    <3> DEFINE m == Head(inflight[p])
    <3>1. m \in saved /\ m \in Msgs
      BY <1>0, <2>6, HeadsHeld DEF KafkaAck, KafkaFails, SingleInv, Inv, OnlySavedRelayed
    <3>2. saved' = saved /\ (log' = log \/ log' = Append(log, m))
      BY <2>6 DEF KafkaAck, KafkaFails, dbVars
    <3>3. CASE log' = log BY <2>2, <3>2, <3>3
    <3>4. CASE log' = Append(log, m) BY <2>4, <3>1, <3>2, <3>4 DEF Abs!Next
    <3>5. QED BY <3>2, <3>3, <3>4
  <2>7. ASSUME NEW p \in Procs,
               Relay(p) \/ OnDelivery(p) \/ OnDeliveryFails(p) \/ Process(p)
        PROVE  saved' = saved /\ log' = log
    BY <2>7 DEF Relay, Select, Claim, ClaimFails, Produce, OnDelivery, OnDeliveryFails,
                Process, Start, Stop, Stopped, Crash, dbVars
  <2>8. CASE UNCHANGED vars BY <2>2, <2>8 DEF vars, dbVars
  <2>9. QED BY <2>2, <2>5, <2>6, <2>7, <2>8 DEF Next, Kafka
<1>4. QED BY <1>2, <1>3

\* One relay implements the abstract outbox: Kafka only gets what was committed,
\* a row is settled only when Kafka has its message, and neither is undone.
THEOREM ImplementsAbstractOutbox == ASSUME SingleRelay PROVE Spec => ImplementsAbs
<1>1. Init => Abs!Init
  BY DEF Init, Abs!Init, RowsWith, InLog, Range
<1>2. SingleInv /\ [Next]_vars => [Abs!Next]_(Abs!vars)
  BY StepImplementsAbs
<1>3. QED BY <1>1, <1>2, InitSingleInv, NextSingleInv, PTL
          DEF Spec, ImplementsAbs, Abs!Spec

-------------------------------------------------------------------------------
(* One relay strands no row in silence and pays for every copy.              *)

\* Every copy of a message in Kafka was paid for by a fault, but the one that a
\* positive callback or a 'sent' row stands for.
CopiesIn(s, m) == {i \in DOMAIN s : s[i] = m}
Copies(m) == CopiesIn(log, m)
Acked(m) == row[m] = "sent" \/ \E p \in Procs : <<m, "ok">> \in Range(reports[p])
Paid == \A m \in Msgs : /\ IsFiniteSet(Copies(m))
                        /\ Cardinality(Copies(m)) <= faults + (IF Acked(m) THEN 1 ELSE 0)

\* What the producer and the callbacks do to the row they are about: it moves from
\* the queue to the reports, and from the reports back to the table.
LEMMA KafkaMoves ==
  ASSUME SingleInv, NEW p \in Procs, KafkaAck(p) \/ KafkaFails(p)
  PROVE  \E r \in Results :
           /\ Head(inflight[p]) \in Msgs /\ inflight[p] # <<>> /\ inflight[p] \in Seq(Msgs)
           /\ row[Head(inflight[p])] = "sending"
           /\ Head(inflight[p]) \notin Range(Reported(p))
           /\ reports' = [reports EXCEPT ![p] = Append(reports[p], <<Head(inflight[p]), r>>)]
           /\ Range(reports'[p]) = Range(reports[p]) \cup {<<Head(inflight[p]), r>>}
           /\ Held(p)' = Held(p)
           /\ row' = row
           /\ \/ KafkaAck(p) /\ r = "ok"
              \/ KafkaFails(p) /\ r = "failed"
<1>0. TypeOK /\ HeldOnceBy(p) BY DEF SingleInv, Inv, HeldOnce
<1> DEFINE m == Head(inflight[p])
<1>1. inflight[p] # <<>> /\ row' = row /\ claimed' = claimed
  BY DEF KafkaAck, KafkaFails, dbVars
<1>2. m \in Msgs /\ m \in Held(p) BY <1>0, <1>1, HeadsHeld
<1>3. inflight'[p] = Tail(inflight[p]) /\ inflight[p] \in Seq(Msgs)
  BY <1>0 DEF KafkaAck, KafkaFails, TypeOK
<1>4. PICK r \in Results :
        /\ reports' = [reports EXCEPT ![p] = Append(reports[p], <<m, r>>)]
        /\ \/ KafkaAck(p) /\ r = "ok"
           \/ KafkaFails(p) /\ r = "failed"
  BY DEF KafkaAck, KafkaFails, Results
<1>5. Reported(p)' = Append(Reported(p), m)
  BY <1>0, <1>2, <1>4, HeldParts DEF Reported, TypeOK
<1>6. Range(inflight[p]) = {m} \cup Range(Tail(inflight[p]))
  BY <1>1, <1>3, TailElements
<1>7. m \notin Range(Reported(p)) /\ row[m] = "sending"
  BY <1>0, <1>2, <1>6 DEF HeldOnceBy
<1>8. Range(Append(Reported(p), m)) = Range(Reported(p)) \cup {m}
  BY <1>0, <1>2, HeldParts, AppendElements
<1>9. Held(p)' = Held(p)
  BY <1>1, <1>3, <1>5, <1>6, <1>8 DEF Held
<1>10. Range(reports'[p]) = Range(reports[p]) \cup {<<m, r>>}
  <2>1. reports[p] \in Seq(Msgs \X Results) /\ <<m, r>> \in Msgs \X Results
    BY <1>0, <1>2 DEF TypeOK
  <2>2. reports'[p] = Append(reports[p], <<m, r>>) BY <1>0, <1>4 DEF TypeOK
  <2>3. QED BY <2>1, <2>2, AppendElements
<1>11. QED BY <1>1, <1>2, <1>3, <1>4, <1>7, <1>9, <1>10

\* A delivery callback takes the oldest report of its process and nothing else of it.
LEMMA CallbackMoves ==
  ASSUME SingleInv, NEW p \in Procs, OnDelivery(p) \/ OnDeliveryFails(p)
  PROVE  /\ reports[p] # <<>> /\ Head(reports[p]) \in Msgs \X Results
         /\ row[Head(reports[p])[1]] = "sending"
         /\ reports' = [reports EXCEPT ![p] = Tail(reports[p])]
         /\ Range(reports[p]) = {Head(reports[p])} \cup Range(reports'[p])
         /\ Held(p) = Held(p)' \cup {Head(reports[p])[1]}
         /\ UNCHANGED <<claimed, inflight, log>>
<1>0. TypeOK /\ HeldOnceBy(p) BY DEF SingleInv, Inv, HeldOnce
<1>1. /\ reports[p] # <<>> /\ UNCHANGED <<claimed, inflight, log>>
      /\ reports' = [reports EXCEPT ![p] = Tail(reports[p])]
  BY DEF OnDelivery, OnDeliveryFails
<1>2. reports[p] \in Seq(Msgs \X Results) /\ reports'[p] = Tail(reports[p])
  BY <1>0, <1>1 DEF TypeOK
<1>3. /\ Head(reports[p]) \in Msgs \X Results
      /\ Range(reports[p]) = {Head(reports[p])} \cup Range(reports'[p])
  BY <1>1, <1>2, TailElements
<1>4. Reported(p)' = Tail(Reported(p)) /\ Head(reports[p])[1] = Head(Reported(p)) /\ Reported(p) # <<>>
  BY <1>0, <1>1, HeldParts DEF Reported, TypeOK
<1>5. Range(Reported(p)) = {Head(reports[p])[1]} \cup Range(Reported(p)')
  BY <1>0, <1>4, HeldParts, TailElements
<1>6. Held(p) = Held(p)' \cup {Head(reports[p])[1]} BY <1>1, <1>5 DEF Held
<1>7. row[Head(reports[p])[1]] = "sending" BY <1>0, <1>6 DEF HeldOnceBy
<1>8. QED BY <1>1, <1>3, <1>6, <1>7

\* A row that the relay lets go of while it is 'sending' is on record as leaked.
LEMMA NextStranded ==
  ASSUME SingleRelay, SingleInv, StrandedIsLeaked, [Next]_vars
  PROVE  StrandedIsLeaked'
<1>0. TypeOK BY DEF SingleInv, Inv
<1> SUFFICES ASSUME NEW m \in Msgs, row'[m] = "sending",
                    \A p \in Procs : state'[p] # "down" /\ m \notin Held(p)'
             PROVE  m \in leaked'
  BY DEF StrandedIsLeaked
<1>1. ASSUME row[m] = "sending", \A p \in Procs : state[p] # "down" /\ m \notin Held(p),
             leaked \subseteq leaked'
      PROVE  m \in leaked'
  BY <1>1 DEF StrandedIsLeaked
<1>2. ASSUME UNCHANGED <<state, claimed, inflight, reports, leaked>>,
             row[m] = "sending"
      PROVE  m \in leaked'
  BY <1>1, <1>2 DEF Held, Reported
<1>3. ASSUME NEW n \in Msgs, Business(n) \/ Age(n)
      PROVE  m \in leaked'
  <2>1. UNCHANGED <<state, claimed, inflight, reports, leaked>>
    BY <1>3 DEF Business, InsertRows, Commit, CommitFails, TxFails, Age, relayVars, ghostVars
  <2>2. row[m] = "sending"
    BY <1>0, <1>3 DEF Business, InsertRows, Commit, CommitFails, TxFails, Age, dbVars, TypeOK
  <2>3. QED BY <1>2, <2>1, <2>2
<1>4. ASSUME NEW p \in Procs, Relay(p)
      PROVE  m \in leaked'
  <2>1. CASE Select(p)
    BY <1>2, <2>1 DEF Select, dbVars, ghostVars
  <2>f. CASE ClaimFails(p)
    <3>1. PICK n \in Msgs :
            \/ row' = row /\ leaked' = leaked
            \/ row' = [row EXCEPT ![n] = "sending"] /\ leaked' = leaked \cup {n}
      BY <2>f, ClaimFailsCases
    <3>2. UNCHANGED <<state, claimed, inflight, reports>> BY <2>f DEF ClaimFails
    <3>3. \A q \in Procs : state[q] # "down" /\ m \notin Held(q)
      BY <3>2 DEF Held, Reported
    <3>4. row[m] = "sending" \/ m \in leaked' BY <1>0, <3>1 DEF TypeOK
    <3>5. QED BY <1>1, <3>1, <3>3, <3>4
  <2>2. CASE Claim(p)
    <3>1. PICK n \in Msgs : ClaimRow(p, n) BY <2>2 DEF Claim
    <3>2. UNCHANGED <<state, inflight, reports, leaked>> BY <2>2 DEF Claim, ghostVars
    <3>3. CASE row' = row /\ claimed' = claimed BY <1>2, <3>2, <3>3
    <3>4. CASE /\ row' = [row EXCEPT ![n] = "sending"]
               /\ claimed' = [claimed EXCEPT ![p] = claimed[p] \cup {n}]
      <4>1. claimed'[p] = claimed[p] \cup {n} /\ \A q \in Procs \ {p} : claimed'[q] = claimed[q]
        BY <1>0, <3>4 DEF TypeOK
      <4>2. m # n BY <4>1 DEF Held
      <4>3. row[m] = "sending" BY <1>0, <3>4, <4>2 DEF TypeOK
      <4>4. \A q \in Procs : m \notin Held(q) BY <3>2, <4>1 DEF Held, Reported
      <4>5. QED BY <1>1, <3>2, <4>3, <4>4
    <3>5. QED BY <3>1, <3>3, <3>4, ClaimCases
  <2>3. CASE Produce(p)
    <3>1. PICK n \in Msgs : ProduceRow(p, n) BY <2>3 DEF Produce
    <3>2. UNCHANGED <<state, reports>> BY <2>3 DEF Produce
    <3>3. claimed'[p] = claimed[p] \ {n} /\ \A q \in Procs : q = p
      BY <1>0, <3>1 DEF ProduceRow, TypeOK, SingleRelay
    <3>4. CASE inflight' = [inflight EXCEPT ![p] = Append(inflight[p], n)] /\ UNCHANGED <<row, leaked>>
      <4>1. inflight'[p] = Append(inflight[p], n) BY <1>0, <3>4 DEF TypeOK
      <4>2. Range(inflight'[p]) = Range(inflight[p]) \cup {n}
        BY <1>0, <4>1, HeldParts, AppendElements
      <4>3. m \notin Held(p) BY <3>2, <3>3, <4>2 DEF Held, Reported
      <4>4. QED BY <1>1, <3>2, <3>3, <3>4, <4>3
    <3>5. CASE row' = [row EXCEPT ![n] = "pending"] /\ UNCHANGED <<inflight, leaked>>
      <4>1. m # n /\ row[m] = "sending" BY <1>0, <3>5 DEF TypeOK
      <4>2. m \notin Held(p) BY <3>2, <3>3, <3>5, <4>1 DEF Held, Reported
      <4>3. QED BY <1>1, <3>2, <3>3, <3>5, <4>1, <4>2
    <3>6. CASE leaked' = leaked \cup {n} /\ UNCHANGED <<inflight, row>>
      <4>1. CASE m = n BY <3>6, <4>1
      <4>2. CASE m # n
        <5>1. m \notin Held(p) BY <3>2, <3>3, <3>6, <4>2 DEF Held, Reported
        <5>2. QED BY <1>1, <3>2, <3>3, <3>6, <5>1
      <4>3. QED BY <4>1, <4>2
    <3>7. QED BY <3>1, <3>4, <3>5, <3>6 DEF ProduceRow, MarkDelivered
  <2>4. QED BY <1>4, <2>1, <2>2, <2>3, <2>f DEF Relay
<1>5. ASSUME NEW p \in Procs, Kafka(p)
      PROVE  m \in leaked'
  <2>0. state' = state /\ \A q \in Procs : q = p
    BY <1>5 DEF Kafka, KafkaAck, KafkaFails, OnDelivery, OnDeliveryFails, SingleRelay
  <2>1. CASE KafkaAck(p) \/ KafkaFails(p)
    <3>1. Held(p)' = Held(p) /\ row' = row BY <2>1, KafkaMoves
    <3>2. leaked' = leaked BY <2>1 DEF KafkaAck, KafkaFails, ghostVars
    <3>3. QED BY <1>1, <2>0, <3>1, <3>2
  <2>2. CASE OnDelivery(p) \/ OnDeliveryFails(p)
    <3> DEFINE n == Head(reports[p])[1]
    <3>1. Held(p) = Held(p)' \cup {n} /\ n \in Msgs BY <2>2, CallbackMoves
    <3>2. CASE OnDelivery(p)
      <4>1. row' = [row EXCEPT ![n] = IF Head(reports[p])[2] = "ok" THEN "sent" ELSE "pending"]
            /\ leaked' = leaked
        BY <3>2 DEF OnDelivery, MarkDelivered
      <4>2. m # n /\ row[m] = "sending" BY <1>0, <3>1, <4>1 DEF TypeOK
      <4>3. QED BY <1>1, <2>0, <3>1, <4>1, <4>2
    <3>3. CASE OnDeliveryFails(p)
      <4>1. row' = row /\ leaked' = leaked \cup {n} BY <3>3 DEF OnDeliveryFails, dbVars
      <4>2. QED BY <1>1, <2>0, <3>1, <4>1
    <3>4. QED BY <2>2, <3>2, <3>3
  <2>3. QED BY <1>5, <2>1, <2>2 DEF Kafka
<1>6. ASSUME NEW p \in Procs, Process(p)
      PROVE  m \in leaked'
  <2>1. CASE Start(p)
    <3>1. CASE /\ row' = [n \in Msgs |-> IF n \in Reclaimable THEN "pending" ELSE row[n]]
               /\ leaked' = leaked \cup (RowsWith("sending") \ aged)
      <4>1. m \notin Reclaimable /\ row[m] = "sending" BY <3>1
      <4>2. QED BY <3>1, <4>1 DEF RowsWith, Reclaimable
    <3>2. CASE leaked' = leaked \cup RowsWith("sending") /\ UNCHANGED row
      BY <3>2 DEF RowsWith
    <3>3. QED BY <2>1, <3>1, <3>2 DEF Start
  <2>2. CASE Stop(p)
    <3>1. UNCHANGED <<claimed, inflight, reports, leaked, row>> /\ state[p] = "up"
      BY <2>2 DEF Stop, relayVars, dbVars, ghostVars
    <3>2. \A q \in Procs : state[q] # "down" BY <3>1 DEF SingleRelay
    <3>3. QED BY <1>1, <3>1, <3>2 DEF Held, Reported
  <2>3. CASE Stopped(p) \/ Crash(p)
    <3>1. state'[p] = "down" BY <1>0, <2>3 DEF Stopped, Crash, TypeOK
    <3>2. QED BY <3>1
  <2>4. QED BY <1>6, <2>1, <2>2, <2>3 DEF Process
<1>7. CASE UNCHANGED vars BY <1>2, <1>7 DEF vars, dbVars, relayVars, ghostVars
<1>8. QED BY <1>3, <1>4, <1>5, <1>6, <1>7 DEF Next

\* With one relay, no path loses track of a row: one that stays 'sending' without
\* being held was left so by a callback or a start() without a connection, or was
\* too young for the reclaim (start(), drainOnce, onDelivery).
THEOREM NoSilentStranding == ASSUME SingleRelay PROVE Spec => []StrandedIsLeaked
<1>1. Init => StrandedIsLeaked BY DEF Init, StrandedIsLeaked
<1>2. SingleInv /\ StrandedIsLeaked /\ [Next]_vars => StrandedIsLeaked' BY NextStranded
<1>3. QED BY <1>1, <1>2, InitSingleInv, NextSingleInv, PTL DEF Spec

\* An append adds a copy of one message only.
LEMMA CopiesAppend ==
  ASSUME NEW s \in Seq(Msgs), NEW e \in Msgs, NEW m \in Msgs, IsFiniteSet(CopiesIn(s, m))
  PROVE  /\ IsFiniteSet(CopiesIn(Append(s, e), m))
         /\ e # m => CopiesIn(Append(s, e), m) = CopiesIn(s, m)
         /\ e = m => Cardinality(CopiesIn(Append(s, e), m)) = Cardinality(CopiesIn(s, m)) + 1
<1>1. /\ DOMAIN Append(s, e) = 1..(Len(s) + 1)
      /\ DOMAIN s = 1..Len(s)
      /\ Len(s) \in Nat
      /\ \A i \in 1..Len(s) : Append(s, e)[i] = s[i]
      /\ Append(s, e)[Len(s) + 1] = e
  OBVIOUS
<1>2. ASSUME e # m PROVE CopiesIn(Append(s, e), m) = CopiesIn(s, m)
  BY <1>1, <1>2 DEF CopiesIn
<1>3. ASSUME e = m PROVE /\ CopiesIn(Append(s, e), m) = CopiesIn(s, m) \cup {Len(s) + 1}
                         /\ Len(s) + 1 \notin CopiesIn(s, m)
  BY <1>1, <1>3 DEF CopiesIn
<1>4. ASSUME e = m
      PROVE  /\ IsFiniteSet(CopiesIn(Append(s, e), m))
             /\ Cardinality(CopiesIn(Append(s, e), m)) = Cardinality(CopiesIn(s, m)) + 1
  BY <1>3, <1>4, FS_AddElement
<1>5. QED BY <1>2, <1>4

\* A copy comes with a positive report, or costs a fault.
LEMMA NextPaid ==
  ASSUME SingleRelay, SingleInv, Paid, [Next]_vars
  PROVE  Paid'
<1>0. TypeOK /\ faults \in Nat BY DEF SingleInv, Inv, TypeOK
<1>c. \A m \in Msgs : IsFiniteSet(Copies(m)) /\ Cardinality(Copies(m)) \in Nat
  BY FS_CardinalityType DEF Paid
<1>s. \A m \in Msgs : row[m] = "sent" => row'[m] = "sent"
  <2> TAKE m \in Msgs
  <2>1. ASSUME row[m] = "sent" PROVE row'[m] = "sent"
    <3>1. ASSUME NEW p \in Procs, row' = [row EXCEPT ![m] = "sent"] PROVE row'[m] = "sent"
      BY <1>0, <3>1 DEF TypeOK
    <3>2. QED BY <2>1, <3>1, SentChanges
  <2>2. QED BY <2>1
<1>1. ASSUME log' = log, faults' \in {faults, faults + 1},
             faults' = faults => \A m \in Msgs : Acked(m) => Acked(m)'
      PROVE  Paid'
  <2> SUFFICES ASSUME NEW m \in Msgs
               PROVE  /\ IsFiniteSet(Copies(m)')
                      /\ Cardinality(Copies(m)') <= faults' + (IF Acked(m)' THEN 1 ELSE 0)
    BY DEF Paid
  <2>1. Copies(m)' = Copies(m) BY <1>1 DEF Copies
  <2>2. Cardinality(Copies(m)) <= faults + (IF Acked(m) THEN 1 ELSE 0) BY DEF Paid
  <2>3. QED BY <1>0, <1>1, <1>c, <2>1, <2>2
<1>2. ASSUME UNCHANGED <<log, reports>>, faults' \in {faults, faults + 1} PROVE Paid'
  BY <1>1, <1>2, <1>s DEF Acked
<1>f. Fault => faults' \in {faults, faults + 1} BY DEF Fault
<1>3. ASSUME NEW m \in Msgs, Business(m) \/ Age(m) PROVE Paid'
  BY <1>2, <1>3, <1>f DEF Business, InsertRows, Commit, CommitFails, TxFails, Age,
                          relayVars, faultVars
<1>4. ASSUME NEW p \in Procs, Relay(p) PROVE Paid'
  <2>1. UNCHANGED <<log, reports>>
    BY <1>4 DEF Relay, Select, Claim, ClaimFails, Produce
  <2>2. CASE Select(p) \/ Claim(p) BY <1>2, <2>1, <2>2 DEF Select, Claim, faultVars
  <2>3. CASE ClaimFails(p) BY <1>2, <1>f, <2>1, <2>3 DEF ClaimFails
  <2>4. CASE Produce(p)
    <3>1. PICK n \in Msgs : ProduceRow(p, n) BY <2>4 DEF Produce
    <3>2. faults' = faults \/ Fault BY <3>1 DEF ProduceRow
    <3>3. QED BY <1>2, <1>f, <2>1, <3>2
  <2>5. QED BY <1>4, <2>2, <2>3, <2>4 DEF Relay
<1>5. ASSUME NEW p \in Procs, KafkaAck(p) \/ KafkaFails(p) PROVE Paid'
  <2> DEFINE h == Head(inflight[p])
  <2>1. PICK r \in Results :
          /\ h \in Msgs /\ inflight[p] # <<>>
          /\ row[h] = "sending" /\ h \notin Range(Reported(p))
          /\ reports' = [reports EXCEPT ![p] = Append(reports[p], <<h, r>>)]
          /\ Range(reports'[p]) = Range(reports[p]) \cup {<<h, r>>}
          /\ row' = row
          /\ \/ KafkaAck(p) /\ r = "ok"
             \/ KafkaFails(p) /\ r = "failed"
    BY <1>5, KafkaMoves
  <2> HIDE DEF h
  <2>2. \A q \in Procs : q = p BY DEF SingleRelay
  <2>3. ~Acked(h)
    <3>1. ASSUME <<h, "ok">> \in Range(reports[p]) PROVE FALSE
      <4>1. PICK i \in DOMAIN reports[p] : reports[p][i] = <<h, "ok">> BY <3>1 DEF Range
      <4>2. i \in DOMAIN Reported(p) /\ Reported(p)[i] = h
        BY <4>1 DEF Reported, Firsts
      <4>3. QED BY <2>1, <4>2 DEF Range
    <3>2. QED BY <2>1, <2>2, <3>1 DEF Acked
  <2>4. \A m \in Msgs : Acked(m) => Acked(m)'
    BY <2>1, <2>2 DEF Acked
  <2> SUFFICES ASSUME NEW m \in Msgs
               PROVE  /\ IsFiniteSet(Copies(m)')
                      /\ Cardinality(Copies(m)') <= faults' + (IF Acked(m)' THEN 1 ELSE 0)
    BY DEF Paid
  <2>5. Cardinality(Copies(m)) <= faults + (IF Acked(m) THEN 1 ELSE 0) /\ IsFiniteSet(Copies(m))
    BY DEF Paid
  <2>6. faults' = faults \/ faults' = faults + 1
    BY <1>f, <2>1 DEF KafkaAck, KafkaFails, faultVars
  <2>7. CASE log' = log
    <3>1. Copies(m)' = Copies(m) BY <2>7 DEF Copies
    <3>2. QED BY <1>0, <1>c, <2>4, <2>5, <2>6, <3>1
  <2>8. CASE log' = Append(log, h)
    <3>1. log \in Seq(Msgs) BY <1>0 DEF TypeOK
    <3>2. /\ IsFiniteSet(Copies(m)')
          /\ h # m => Copies(m)' = Copies(m)
          /\ h = m => Cardinality(Copies(m)') = Cardinality(Copies(m)) + 1
      BY <2>1, <2>5, <2>8, <3>1, CopiesAppend DEF Copies
    <3>3. CASE h # m BY <1>0, <1>c, <2>4, <2>5, <2>6, <3>2, <3>3
    <3>4. CASE h = m
      <4>1. Cardinality(Copies(m)) <= faults BY <1>0, <1>c, <2>3, <2>5, <3>4
      <4>2. Acked(m)' \/ faults' = faults + 1
        <5>1. CASE KafkaAck(p) /\ r = "ok" BY <2>1, <3>4, <5>1 DEF Acked
        <5>2. CASE KafkaFails(p) BY <5>2 DEF KafkaFails, Fault
        <5>3. QED BY <2>1, <5>1, <5>2
      <4>3. QED BY <1>0, <1>c, <2>6, <3>2, <3>4, <4>1, <4>2
    <3>5. QED BY <3>3, <3>4
  <2>9. QED BY <1>5, <2>7, <2>8 DEF KafkaAck, KafkaFails, h
<1>6. ASSUME NEW p \in Procs, OnDelivery(p) \/ OnDeliveryFails(p) PROVE Paid'
  <2> DEFINE h == Head(reports[p])
  <2>1. /\ h \in Msgs \X Results /\ log' = log
        /\ Range(reports[p]) = {h} \cup Range(reports'[p])
    BY <1>6, CallbackMoves
  <2> HIDE DEF h
  <2>2. \A q \in Procs : q = p BY DEF SingleRelay
  <2>3. CASE OnDeliveryFails(p)
    BY <1>0, <1>1, <2>1, <2>3 DEF OnDeliveryFails, Fault
  <2>4. CASE OnDelivery(p)
    <3>1. faults' = faults /\ row' = [row EXCEPT ![h[1]] = IF h[2] = "ok" THEN "sent" ELSE "pending"]
      BY <2>4 DEF OnDelivery, MarkDelivered, faultVars, h
    <3>2. ASSUME NEW m \in Msgs, Acked(m) PROVE Acked(m)'
      <4>1. CASE row[m] = "sent" BY <1>s, <4>1 DEF Acked
      <4>2. CASE <<m, "ok">> \in Range(reports[p])
        <5>1. CASE <<m, "ok">> = h
          <6>1. h[1] = m /\ h[2] = "ok" BY <5>1
          <6>2. row'[m] = "sent" BY <1>0, <3>1, <6>1 DEF TypeOK
          <6>3. QED BY <6>2 DEF Acked
        <5>2. CASE <<m, "ok">> # h BY <2>1, <4>2, <5>2 DEF Acked
        <5>3. QED BY <5>1, <5>2
      <4>3. QED BY <2>2, <3>2, <4>1, <4>2 DEF Acked
    <3>3. QED BY <1>1, <2>1, <3>1, <3>2
  <2>5. QED BY <1>6, <2>3, <2>4
<1>7. ASSUME NEW p \in Procs, Process(p) PROVE Paid'
  <2>1. CASE Start(p) BY <1>2, <1>f, <2>1 DEF Start, relayVars
  <2>2. CASE Stop(p) \/ Stopped(p) BY <1>2, <2>2 DEF Stop, Stopped, relayVars, faultVars
  <2>3. CASE Crash(p)
    <3>1. log' = log /\ faults' = faults + 1 BY <2>3 DEF Crash, Fault
    <3>2. QED BY <1>0, <1>1, <3>1
  <2>4. QED BY <1>7, <2>1, <2>2, <2>3 DEF Process
<1>8. CASE UNCHANGED vars BY <1>2, <1>8 DEF vars, relayVars, faultVars
<1>9. QED BY <1>3, <1>4, <1>5, <1>6, <1>7, <1>8 DEF Next, Kafka

\* With one relay, restarts, shutdowns and retries alone never put a second copy
\* of a message into Kafka: each is paid for by a crash, a failed report or a
\* statement that was not executed (drainOnce, onDelivery, stop).
THEOREM CopiesArePaidFor == ASSUME SingleRelay PROVE Spec => []CopiesBounded
<1>1. Init => Paid
  <2> SUFFICES ASSUME Init, NEW m \in Msgs
               PROVE  IsFiniteSet(Copies(m)) /\ Cardinality(Copies(m)) <= faults + (IF Acked(m) THEN 1 ELSE 0)
    BY DEF Paid
  <2>1. Copies(m) = {} BY DEF Init, Copies, CopiesIn
  <2>2. QED BY <2>1, FS_EmptySet DEF Init
<1>2. SingleInv /\ Paid /\ [Next]_vars => Paid' BY NextPaid
<1>3. SingleInv /\ Paid => CopiesBounded
  <2> SUFFICES ASSUME SingleInv, Paid, NEW m \in Msgs
               PROVE  Cardinality(Copies(m)) <= 1 + faults
    BY DEF CopiesBounded, Copies, CopiesIn
  <2>1. faults \in Nat BY DEF SingleInv, Inv, TypeOK
  <2>2. Cardinality(Copies(m)) \in Nat BY FS_CardinalityType DEF Paid
  <2>3. QED BY <2>1, <2>2 DEF Paid
<1>4. QED BY <1>1, <1>2, <1>3, InitSingleInv, NextSingleInv, PTL DEF Spec

-------------------------------------------------------------------------------
(* One relay keeps the order of a sender.                                    *)

\* Nothing failed so far and no row had to be retried.
Calm == faults = 0 /\ retried = {}

\* Ids grow, and a sender has one transaction at a time.
IdsGrow ==
  /\ \A m \in Msgs : id[m] < nextId
  /\ \A m, n \in Msgs : caller[m] = "open" /\ SenderOf[n] = SenderOf[m] => id[n] <= id[m]

\* The rows of a batch that are not claimed yet stay as they were selected.
BatchPending == \A p \in Procs : \A m \in batch[p] : row[m] = "pending"

\* As long as nothing fails, a 'sending' row is held and every report is positive.
NothingLost ==
  Calm => /\ \A m \in Msgs : row[m] = "sending" => \E p \in Procs : m \in Held(p)
          /\ \A p \in Procs : \A r \in Range(reports[p]) : r[2] = "ok"

Later(m, n) ==
  /\ m \in saved /\ n \in saved
  /\ SenderOf[m] = SenderOf[n] /\ ConvOf[m] = ConvOf[n] /\ id[m] < id[n]

Queued(p) == Range(log) \cup Range(inflight[p]) \cup claimed[p]

\* Wherever n is on its way from the table to Kafka, m is ahead of it.
LogOrder(m, n) == \A j \in DOMAIN log : log[j] = n => \E i \in 1..(j - 1) : log[i] = m
HandOrder(p, m, n) ==
  /\ \A j \in DOMAIN inflight[p] :
       inflight[p][j] = n => InLog(m) \/ \E i \in 1..(j - 1) : inflight[p][i] = m
  /\ n \in claimed[p] => m \in Queued(p)
  /\ n \in batch[p] => m \in Queued(p) \cup batch[p]

InOrder(m, n) == LogOrder(m, n) /\ \A p \in Procs : HandOrder(p, m, n)

Order == Calm => \A m, n \in Msgs : Later(m, n) => InOrder(m, n)

OrderInv == SingleInv /\ IdsGrow /\ BatchPending /\ NothingLost /\ Order

\* Faults and retries are not taken back, and in a calm state none has happened.
LEMMA CalmBefore ==
  ASSUME TypeOK, [Next]_vars, Calm'
  PROVE  Calm /\ ~Fault
<1>1. faults \in Nat BY DEF TypeOK
<1>2. ~Fault BY <1>1 DEF Fault, Calm
<1>3. retried \subseteq retried' /\ (faults' = faults \/ Fault)
  <2>1. ASSUME NEW m \in Msgs, Business(m) \/ Age(m) PROVE retried' = retried /\ (faults' = faults \/ Fault)
    BY <2>1 DEF Business, InsertRows, Commit, CommitFails, TxFails, Age, faultVars, ghostVars
  <2>2. ASSUME NEW p \in Procs, Relay(p) PROVE retried \subseteq retried' /\ (faults' = faults \/ Fault)
    <3>1. CASE Select(p) \/ Claim(p) \/ ClaimFails(p)
      BY <3>1 DEF Select, Claim, ClaimFails, faultVars, ghostVars
    <3>2. ASSUME NEW m \in Msgs, ProduceRow(p, m)
          PROVE  retried \subseteq retried' /\ (faults' = faults \/ Fault)
      BY <3>2 DEF ProduceRow, MarkDelivered
    <3>3. QED BY <2>2, <3>1, <3>2 DEF Relay, Produce
  <2>3. ASSUME NEW p \in Procs, Kafka(p) PROVE retried \subseteq retried' /\ (faults' = faults \/ Fault)
    BY <2>3 DEF Kafka, KafkaAck, KafkaFails, OnDelivery, OnDeliveryFails, MarkDelivered,
                faultVars, ghostVars
  <2>4. ASSUME NEW p \in Procs, Process(p) PROVE retried \subseteq retried' /\ (faults' = faults \/ Fault)
    BY <2>4 DEF Process, Start, Stop, Stopped, Crash, faultVars, ghostVars
  <2>5. QED BY <2>1, <2>2, <2>3, <2>4 DEF Next, vars, faultVars, ghostVars
<1>4. QED BY <1>2, <1>3 DEF Calm

\* A transaction takes the next id, and the worker of the sender runs one at a time.
LEMMA NextIdsGrow ==
  ASSUME SingleRelay, SingleInv, IdsGrow, [Next]_vars
  PROVE  IdsGrow'
<1>0. TypeOK BY DEF SingleInv, Inv
<1>1. ASSUME UNCHANGED <<id, nextId>>, \A m \in Msgs : caller'[m] = "open" => caller[m] = "open"
      PROVE  IdsGrow'
  BY <1>1 DEF IdsGrow
<1>2. ASSUME NEW m \in Msgs, InsertRows(m) PROVE IdsGrow'
  <2>1. /\ \A n \in Msgs : id'[n] = IF n = m THEN nextId ELSE id[n]
        /\ \A n \in Msgs : caller'[n] = IF n = m THEN "open" ELSE caller[n]
        /\ nextId' = nextId + 1 /\ nextId \in Nat /\ \A n \in Msgs : id[n] \in Nat
    BY <1>0, <1>2 DEF InsertRows, TypeOK
  <2>2. \A n \in Msgs : caller[n] = "open" => SenderOf[n] # SenderOf[m]
    BY <1>0, <1>2 DEF InsertRows, SingleRelay, TypeOK
  <2>3. \A n \in Msgs : id'[n] < nextId' BY <2>1 DEF IdsGrow
  <2>4. ASSUME NEW a \in Msgs, NEW b \in Msgs, caller'[a] = "open", SenderOf[b] = SenderOf[a]
        PROVE  id'[b] <= id'[a]
    <3>1. CASE a = m BY <2>1, <3>1 DEF IdsGrow
    <3>2. CASE a # m
      <4>1. caller[a] = "open" /\ b # m BY <2>1, <2>2, <2>4, <3>2
      <4>2. QED BY <2>1, <2>4, <3>2, <4>1 DEF IdsGrow
    <3>3. QED BY <3>1, <3>2
  <2>5. QED BY <2>3, <2>4 DEF IdsGrow
<1>3. ASSUME NEW m \in Msgs, Commit(m) \/ CommitFails(m) \/ TxFails(m) \/ Age(m) PROVE IdsGrow'
  <2>1. UNCHANGED <<id, nextId>> BY <1>3 DEF Commit, CommitFails, TxFails, Age, dbVars
  <2>2. \A n \in Msgs : caller'[n] = "open" => caller[n] = "open"
    BY <1>0, <1>3 DEF Commit, CommitFails, TxFails, Age, TypeOK
  <2>3. QED BY <1>1, <2>1, <2>2
<1>4. ASSUME NEW p \in Procs, Relay(p) \/ Kafka(p) PROVE IdsGrow'
  BY <1>1, <1>4 DEF Relay, Select, Claim, ClaimFails, Produce, dbVars,
                    Kafka, KafkaAck, KafkaFails, OnDelivery, OnDeliveryFails
<1>5. ASSUME NEW p \in Procs, Process(p) PROVE IdsGrow'
  <2>1. CASE Start(p) \/ Stop(p) \/ Stopped(p) BY <1>1, <2>1 DEF Start, Stop, Stopped, dbVars
  <2>2. CASE Crash(p) BY <1>0, <1>1, <2>2 DEF Crash, TypeOK
  <2>3. QED BY <1>5, <2>1, <2>2 DEF Process
<1>6. CASE UNCHANGED vars BY <1>1, <1>6 DEF vars, dbVars
<1>7. QED BY <1>2, <1>3, <1>4, <1>5, <1>6 DEF Next, Business

\* With one relay, nobody else touches a row that was selected and not claimed yet.
LEMMA NextBatchPending ==
  ASSUME SingleRelay, SingleInv, BatchPending, [Next]_vars
  PROVE  BatchPending'
<1>0. TypeOK /\ RowsAgree /\ HeldOnce BY DEF SingleInv, Inv
<1>b. \A p \in Procs : batch[p] \subseteq Msgs /\ batch[p] \subseteq saved
  BY <1>0 DEF TypeOK, SingleInv, Inv, OnlySavedRelayed
<1>1. ASSUME batch' = batch, \A m \in Msgs : row[m] = "pending" /\ m \in saved => row'[m] = "pending"
      PROVE  BatchPending'
  BY <1>1, <1>b DEF BatchPending
<1>2. ASSUME NEW m \in Msgs, Business(m) \/ Age(m) PROVE BatchPending'
  <2>1. batch' = batch
    BY <1>2 DEF Business, InsertRows, Commit, CommitFails, TxFails, Age, relayVars
  <2>2. \A n \in Msgs : row[n] = "pending" /\ n \in saved => row'[n] = "pending"
    BY <1>0, <1>2 DEF Business, InsertRows, Commit, CommitFails, TxFails, Age, dbVars,
                      RowsAgree, TypeOK
  <2>3. QED BY <1>1, <2>1, <2>2
<1>3. ASSUME NEW p \in Procs, Relay(p) PROVE BatchPending'
  <2>0. \A q \in Procs : q = p BY DEF SingleRelay
  <2>1. CASE Select(p)
    <3>1. PICK B \in SUBSET RowsWith("pending") : batch' = [batch EXCEPT ![p] = B]
      BY <2>1 DEF Select
    <3>2. batch'[p] = B BY <1>0, <3>1 DEF TypeOK
    <3>3. row' = row BY <2>1 DEF Select, dbVars
    <3>4. QED BY <2>0, <3>1, <3>2, <3>3 DEF BatchPending, RowsWith
  <2>2. CASE Claim(p)
    <3>1. PICK n \in Msgs : ClaimRow(p, n) BY <2>2 DEF Claim
    <3>2. batch'[p] = batch[p] \ {n} BY <1>0, <3>1 DEF ClaimRow, TypeOK
    <3>3. row' = row \/ row' = [row EXCEPT ![n] = "sending"] BY <3>1, ClaimCases
    <3>4. \A m \in batch'[p] : row'[m] = row[m] BY <1>0, <1>b, <3>2, <3>3 DEF TypeOK
    <3>5. QED BY <2>0, <3>2, <3>4 DEF BatchPending
  <2>3. CASE ClaimFails(p)
    <3>1. PICK n \in Msgs : /\ batch' = [batch EXCEPT ![p] = batch[p] \ {n}]
                            /\ row' = row \/ row' = [row EXCEPT ![n] = "sending"]
      BY <2>3, ClaimFailsCases
    <3>2. batch'[p] = batch[p] \ {n} BY <1>0, <3>1 DEF TypeOK
    <3>3. \A m \in batch'[p] : row'[m] = row[m] BY <1>0, <1>b, <3>1, <3>2 DEF TypeOK
    <3>4. QED BY <2>0, <3>2, <3>3 DEF BatchPending
  <2>4. CASE Produce(p)
    <3>1. batch' = batch /\ batch[p] = {} BY <2>4 DEF Produce
    <3>2. QED BY <2>0, <3>1 DEF BatchPending
  <2>5. QED BY <1>3, <2>1, <2>2, <2>3, <2>4 DEF Relay
<1>4. ASSUME NEW p \in Procs, Kafka(p) PROVE BatchPending'
  <2>1. CASE KafkaAck(p) \/ KafkaFails(p) \/ OnDeliveryFails(p)
    BY <1>1, <2>1 DEF KafkaAck, KafkaFails, OnDeliveryFails, dbVars
  <2>2. CASE OnDelivery(p)
    <3>1. Head(reports[p])[1] \in Msgs /\ row[Head(reports[p])[1]] = "sending"
      BY <2>2, CallbackMoves
    <3>2. \A m \in Msgs : row[m] = "pending" => row'[m] = "pending"
      BY <1>0, <2>2, <3>1 DEF OnDelivery, MarkDelivered, TypeOK
    <3>3. QED BY <1>1, <2>2, <3>2 DEF OnDelivery
  <2>3. QED BY <1>4, <2>1, <2>2 DEF Kafka
<1>5. ASSUME NEW p \in Procs, Process(p) PROVE BatchPending'
  <2>1. CASE Start(p)
    <3>1. \A m \in Msgs : row[m] = "pending" => row'[m] = "pending"
      BY <1>0, <2>1 DEF Start, Reclaimable, RowsWith, TypeOK
    <3>2. QED BY <1>1, <2>1, <3>1 DEF Start, relayVars
  <2>2. CASE Stop(p) \/ Stopped(p) BY <1>1, <2>2 DEF Stop, Stopped, relayVars, dbVars
  <2>3. CASE Crash(p)
    <3>1. batch'[p] = {} BY <1>0, <2>3 DEF Crash, TypeOK
    <3>2. QED BY <3>1 DEF BatchPending, SingleRelay
  <2>4. QED BY <1>5, <2>1, <2>2, <2>3 DEF Process
<1>6. CASE UNCHANGED vars BY <1>1, <1>6 DEF vars, dbVars, relayVars
<1>7. QED BY <1>2, <1>3, <1>4, <1>5, <1>6 DEF Next

\* Without faults and retries, rows go from 'pending' over the relay's hands to 'sent'.
LEMMA NextNothingLost ==
  ASSUME SingleRelay, SingleInv, NothingLost, [Next]_vars
  PROVE  NothingLost'
<1>0. TypeOK /\ HeldOnce /\ DownHoldsNothing BY DEF SingleInv, Inv
<1> SUFFICES ASSUME Calm'
             PROVE  /\ \A m \in Msgs : row'[m] = "sending" => \E p \in Procs : m \in Held(p)'
                    /\ \A p \in Procs : \A r \in Range(reports'[p]) : r[2] = "ok"
  BY DEF NothingLost
<1>c. Calm /\ ~Fault BY <1>0, CalmBefore
<1>h. /\ \A m \in Msgs : row[m] = "sending" => \E p \in Procs : m \in Held(p)
      /\ \A p \in Procs : \A r \in Range(reports[p]) : r[2] = "ok"
  BY <1>c DEF NothingLost
<1> DEFINE G == /\ \A m \in Msgs : row'[m] = "sending" => \E p \in Procs : m \in Held(p)'
                /\ \A p \in Procs : \A r \in Range(reports'[p]) : r[2] = "ok"
<1>1. ASSUME UNCHANGED <<claimed, inflight, reports>>,
             \A m \in Msgs : row'[m] = "sending" => row[m] = "sending"
      PROVE  G
  BY <1>1, <1>h DEF Held, Reported
<1>p. ASSUME NEW p \in Procs, reports' = reports,
             \A m \in Msgs : row'[m] = "sending" => m \in Held(p)' \/ (row[m] = "sending" /\ m \notin Held(p))
      PROVE  G
  <2>1. \A m \in Msgs : row[m] = "sending" => m \in Held(p) BY <1>h DEF SingleRelay
  <2>2. QED BY <1>h, <1>p, <2>1
<1> HIDE DEF G
<1>2. ASSUME NEW m \in Msgs, Business(m) \/ Age(m) PROVE G
  <2>1. UNCHANGED <<claimed, inflight, reports>>
    BY <1>2 DEF Business, InsertRows, Commit, CommitFails, TxFails, Age, relayVars
  <2>2. \A n \in Msgs : row'[n] = "sending" => row[n] = "sending"
    BY <1>0, <1>2 DEF Business, InsertRows, Commit, CommitFails, TxFails, Age, dbVars, TypeOK
  <2>3. QED BY <1>1, <2>1, <2>2
<1>3. ASSUME NEW p \in Procs, Relay(p) PROVE G
  <2>1. CASE Select(p) BY <1>1, <2>1 DEF Select, dbVars
  <2>f. CASE ClaimFails(p) BY <1>c, <2>f DEF ClaimFails
  <2>2. CASE Claim(p)
    <3>1. PICK n \in Msgs : ClaimRow(p, n) BY <2>2 DEF Claim
    <3>2. UNCHANGED <<inflight, reports>> BY <2>2 DEF Claim
    <3>3. CASE row' = row /\ claimed' = claimed BY <1>1, <3>2, <3>3
    <3>4. CASE /\ row' = [row EXCEPT ![n] = "sending"]
               /\ claimed' = [claimed EXCEPT ![p] = claimed[p] \cup {n}]
      <4>1. claimed'[p] = claimed[p] \cup {n} BY <1>0, <3>4 DEF TypeOK
      <4>2. Held(p)' = Held(p) \cup {n} BY <3>2, <4>1 DEF Held, Reported
      <4>3. \A m \in Msgs : row'[m] = "sending" => m = n \/ row[m] = "sending"
        BY <1>0, <3>4 DEF TypeOK
      <4>4. QED BY <1>p, <3>2, <4>2, <4>3
    <3>5. QED BY <3>1, <3>3, <3>4, ClaimCases
  <2>3. CASE Produce(p)
    <3>1. PICK n \in Msgs : ProduceRow(p, n) BY <2>3 DEF Produce
    <3>2. reports' = reports BY <2>3 DEF Produce
    <3>3. claimed'[p] = claimed[p] \ {n} BY <1>0, <3>1 DEF ProduceRow, TypeOK
    <3>4. CASE inflight' = [inflight EXCEPT ![p] = Append(inflight[p], n)] /\ row' = row
      <4>1. inflight'[p] = Append(inflight[p], n) BY <1>0, <3>4 DEF TypeOK
      <4>2. Range(inflight'[p]) = Range(inflight[p]) \cup {n}
        BY <1>0, <4>1, HeldParts, AppendElements
      <4>3. Held(p) \subseteq Held(p)' BY <3>2, <3>3, <4>2 DEF Held, Reported
      <4>4. QED BY <1>p, <3>2, <3>4, <4>3
    <3>5. CASE retried' = retried \cup {n} BY <3>5 DEF Calm
    <3>6. QED BY <1>c, <3>1, <3>4, <3>5 DEF ProduceRow, MarkDelivered
  <2>4. QED BY <1>3, <2>1, <2>2, <2>3, <2>f DEF Relay
<1>4. ASSUME NEW p \in Procs, Kafka(p) PROVE G
  <2>1. CASE KafkaAck(p) \/ KafkaFails(p)
    <3>1. PICK r \in Results :
            /\ Range(reports'[p]) = Range(reports[p]) \cup {<<Head(inflight[p]), r>>}
            /\ Held(p)' = Held(p) /\ row' = row
            /\ (KafkaAck(p) /\ r = "ok") \/ KafkaFails(p)
      BY <2>1, KafkaMoves
    <3>2. r = "ok" BY <1>c, <3>1 DEF KafkaFails
    <3>3. \A q \in Procs : q = p BY DEF SingleRelay
    <3>4. <<Head(inflight[p]), r>>[2] = "ok" BY <3>2
    <3>5. QED BY <1>h, <3>1, <3>3, <3>4 DEF G
  <2>2. CASE OnDelivery(p)
    <3> DEFINE n == Head(reports[p])[1]
    <3>1. /\ Held(p) = Held(p)' \cup {n} /\ n \in Msgs
          /\ Range(reports[p]) = {Head(reports[p])} \cup Range(reports'[p])
      BY <2>2, CallbackMoves
    <3>2. row' = [row EXCEPT ![n] = IF Head(reports[p])[2] = "ok" THEN "sent" ELSE "pending"]
      BY <2>2 DEF OnDelivery, MarkDelivered
    <3>3. \A m \in Msgs : row'[m] = "sending" => row[m] = "sending" /\ m # n
      BY <1>0, <3>1, <3>2 DEF TypeOK
    <3>4. \A q \in Procs : q = p BY DEF SingleRelay
    <3>5. QED BY <1>h, <3>1, <3>3, <3>4 DEF G
  <2>3. CASE OnDeliveryFails(p) BY <1>c, <2>3 DEF OnDeliveryFails
  <2>4. QED BY <1>4, <2>1, <2>2, <2>3 DEF Kafka
<1>5. ASSUME NEW p \in Procs, Process(p) PROVE G
  <2>1. CASE Start(p)
    <3>1. \A m \in Msgs : row'[m] = "sending" => row[m] = "sending"
      BY <1>0, <2>1 DEF Start, Reclaimable, RowsWith, TypeOK
    <3>2. QED BY <1>1, <2>1, <3>1 DEF Start, relayVars
  <2>2. CASE Stop(p) \/ Stopped(p) BY <1>1, <2>2 DEF Stop, Stopped, relayVars, dbVars
  <2>3. CASE Crash(p) BY <1>c, <2>3 DEF Crash
  <2>4. QED BY <1>5, <2>1, <2>2, <2>3 DEF Process
<1>6. ASSUME UNCHANGED vars PROVE G BY <1>1, <1>6 DEF vars, dbVars, relayVars
<1>7. G BY <1>2, <1>3, <1>4, <1>5, <1>6 DEF Next
<1>8. QED BY <1>7 DEF G

\* The relay takes rows by their id and the queues keep their order, so that a row
\* is nowhere ahead of an older one of its sender.
LEMMA NextOrder ==
  ASSUME SingleRelay, OrderInv, [Next]_vars
  PROVE  Order'
<1>0. SingleInv /\ TypeOK /\ RowsAgree /\ OnlySavedRelayed /\ SentIsInLog /\ HeldOnce
  BY DEF OrderInv, SingleInv, Inv
<1> SUFFICES ASSUME Calm', NEW m \in Msgs, NEW n \in Msgs, Later(m, n)'
             PROVE  InOrder(m, n)'
  BY DEF Order
<1>c. Calm /\ ~Fault BY <1>0, CalmBefore
<1>h. Later(m, n) => InOrder(m, n) BY <1>c DEF OrderInv, Order
<1>i. id[m] \in Nat /\ id[n] \in Nat BY <1>0 DEF TypeOK
<1>l. UNCHANGED <<saved, id>> => Later(m, n) /\ InOrder(m, n) BY <1>h DEF Later
<1>1. ASSUME UNCHANGED <<log, batch, claimed, inflight>>, InOrder(m, n) PROVE InOrder(m, n)'
  BY <1>1 DEF InOrder, LogOrder, HandOrder, Queued, InLog
<1>2. ASSUME NEW x \in Msgs, Business(x) \/ Age(x) PROVE InOrder(m, n)'
  <2>0. UNCHANGED <<log, batch, claimed, inflight>>
    BY <1>2 DEF Business, InsertRows, Commit, CommitFails, TxFails, Age, relayVars
  <2>1. CASE InsertRows(x)
    <3>1. x \notin saved /\ saved' = saved
      BY <1>0, <2>1 DEF InsertRows, RowsAgree
    <3>2. \A y \in Msgs : y # x => id'[y] = id[y] BY <1>0, <2>1 DEF InsertRows, TypeOK
    <3>3. Later(m, n) BY <3>1, <3>2 DEF Later
    <3>4. QED BY <1>1, <1>h, <2>0, <3>3
  <2>2. CASE Commit(x)
    <3>1. caller[x] = "open" /\ saved' = saved \cup {x} /\ id' = id /\ x \notin saved
      BY <1>0, <2>2 DEF Commit, RowsAgree
    <3>2. CASE n = x
      <4>1. n \notin Range(log) /\ \A p \in Procs : n \notin batch[p] \cup Held(p)
        BY <1>0, <3>1, <3>2 DEF OnlySavedRelayed
      <4>2. \A p \in Procs : n \notin Range(inflight[p]) /\ n \notin claimed[p]
        BY <4>1 DEF Held
      <4>3. LogOrder(m, n)' BY <2>0, <4>1 DEF LogOrder, Range
      <4>4. \A p \in Procs : HandOrder(p, m, n)'
        BY <2>0, <4>1, <4>2 DEF HandOrder, Range
      <4>5. QED BY <4>3, <4>4 DEF InOrder
    <3>3. CASE m = x
      <4>1. SenderOf[n] = SenderOf[m] /\ id[m] < id[n] BY <3>1 DEF Later
      <4>2. id[n] <= id[m] BY <3>1, <3>3, <4>1 DEF OrderInv, IdsGrow
      <4>3. QED BY <1>i, <4>1, <4>2
    <3>4. CASE n # x /\ m # x
      <4>1. Later(m, n) BY <3>1, <3>4 DEF Later
      <4>2. QED BY <1>1, <1>h, <2>0, <4>1
    <3>5. QED BY <3>2, <3>3, <3>4
  <2>3. CASE CommitFails(x) \/ TxFails(x) BY <1>c, <2>3 DEF CommitFails, TxFails
  <2>4. CASE Age(x) BY <1>1, <1>l, <2>0, <2>4 DEF Age
  <2>5. QED BY <1>2, <2>1, <2>2, <2>3, <2>4 DEF Business
<1>3. ASSUME NEW p \in Procs, Relay(p) PROVE InOrder(m, n)'
  <2>0. \A q \in Procs : q = p BY DEF SingleRelay
  <2>l. Later(m, n) /\ LogOrder(m, n) /\ HandOrder(p, m, n)
    BY <1>3, <1>l DEF Relay, Select, Claim, ClaimFails, Produce, dbVars, InOrder
  <2>g. log' = log BY <1>3 DEF Relay, Select, Claim, ClaimFails, Produce
  <2> SUFFICES HandOrder(p, m, n)'
    BY <2>0, <2>g, <2>l DEF InOrder, LogOrder
  <2>1. CASE Select(p)
    <3>1. PICK B \in SUBSET RowsWith("pending") : IsBatch(B) /\ batch' = [batch EXCEPT ![p] = B]
      BY <2>1 DEF Select
    <3>2. batch'[p] = B /\ UNCHANGED <<claimed, inflight>> /\ claimed[p] = {}
      BY <1>0, <2>1, <3>1 DEF Select, DrainIdle, TypeOK
    <3>3. ASSUME n \in B PROVE m \in Queued(p) \cup B
      <4>1. row[m] \in {"pending", "sending", "sent"} BY <1>0, <2>l DEF RowsAgree, Later
      <4>2. CASE row[m] = "pending"
        <5>1. m \notin B => id[n] < id[m] BY <3>1, <3>3, <4>2 DEF IsBatch, RowsWith
        <5>2. id[m] < id[n] BY <2>l DEF Later
        <5>3. QED BY <1>i, <5>1, <5>2
      <4>3. CASE row[m] = "sent" BY <1>0, <4>3 DEF SentIsInLog, InLog, Queued
      <4>4. CASE row[m] = "sending"
        <5>1. m \in Held(p) BY <1>c, <2>0, <4>4 DEF OrderInv, NothingLost
        <5>2. CASE m \in Range(Reported(p))
          <6>1. PICK i \in DOMAIN reports[p] : reports[p][i][1] = m
            BY <5>2 DEF Reported, Firsts, Range
          <6>2. reports[p][i] \in Range(reports[p]) BY DEF Range
          <6>3. reports[p][i][2] = "ok" BY <1>c, <6>2 DEF OrderInv, NothingLost
          <6>4. InLog(m) BY <1>0, <6>1, <6>2, <6>3 DEF SentIsInLog
          <6>5. QED BY <6>4 DEF InLog, Queued
        <5>3. QED BY <3>2, <5>1, <5>2 DEF Held, Queued
      <4>5. QED BY <4>1, <4>2, <4>3, <4>4
    <3>4. QED BY <2>g, <2>l, <3>2, <3>3 DEF HandOrder, Queued, InLog
  <2>2. CASE Claim(p)
    <3>1. PICK x \in Msgs : ClaimRow(p, x) BY <2>2 DEF Claim
    <3>2. /\ x \in batch[p] /\ batch'[p] = batch[p] \ {x} /\ inflight' = inflight
          /\ \A y \in batch[p] : id[x] <= id[y]
      BY <1>0, <2>2, <3>1 DEF Claim, ClaimRow, IsFirst, TypeOK
    <3>3. row[x] = "pending" BY <3>2 DEF OrderInv, BatchPending
    <3>4. claimed'[p] = claimed[p] \cup {x}
      BY <1>0, <3>1, <3>3, ClaimCases DEF TypeOK
    <3>5. Queued(p)' = Queued(p) \cup {x} BY <2>g, <3>2, <3>4 DEF Queued
    <3>6. n = x => m \in Queued(p)
      <4>1. ASSUME n = x, m \in batch[p] PROVE FALSE
        <5>1. id[n] <= id[m] /\ id[m] < id[n] BY <2>l, <3>2, <4>1 DEF Later
        <5>2. QED BY <1>i, <5>1
      <4>2. QED BY <2>l, <3>2, <4>1 DEF HandOrder
    <3>7. QED BY <2>g, <2>l, <3>2, <3>4, <3>5, <3>6 DEF HandOrder, InLog
  <2>3. CASE ClaimFails(p) BY <1>c, <2>3 DEF ClaimFails
  <2>4. CASE Produce(p)
    <3>1. PICK x \in Msgs : ProduceRow(p, x) BY <2>4 DEF Produce
    <3>2. /\ x \in claimed[p] /\ claimed'[p] = claimed[p] \ {x} /\ batch'[p] = {}
          /\ \A y \in claimed[p] : id[x] <= id[y]
      BY <1>0, <2>4, <3>1 DEF Produce, ProduceRow, IsFirst, TypeOK
    <3>3. CASE retried' = retried \cup {x} BY <3>3 DEF Calm
    <3>4. CASE inflight' = [inflight EXCEPT ![p] = Append(inflight[p], x)]
      <4>1. inflight'[p] = Append(inflight[p], x) /\ inflight[p] \in Seq(Msgs)
        BY <1>0, <3>4 DEF TypeOK
      <4>2. Range(inflight'[p]) = Range(inflight[p]) \cup {x} BY <4>1, AppendElements
      <4>3. Queued(p)' = Queued(p) BY <2>g, <3>2, <4>2 DEF Queued
      <4>4. ASSUME n = x, ~InLog(m) PROVE \E i \in 1..Len(inflight[p]) : inflight[p][i] = m
        <5>1. m \in Queued(p) BY <2>l, <3>2, <4>4 DEF HandOrder
        <5>2. m \notin claimed[p]
          <6>1. SUFFICES ASSUME m \in claimed[p] PROVE FALSE OBVIOUS
          <6>2. id[n] <= id[m] /\ id[m] < id[n] BY <2>l, <3>2, <4>4, <6>1 DEF Later
          <6>3. QED BY <1>i, <6>2
        <5>3. m \in Range(inflight[p]) BY <4>4, <5>1, <5>2 DEF Queued, InLog
        <5>4. QED BY <4>1, <5>3 DEF Range
      <4>5. ASSUME NEW j \in DOMAIN inflight'[p], inflight'[p][j] = n, ~InLog(m)
            PROVE  \E i \in 1..(j - 1) : inflight'[p][i] = m
        <5>0. /\ DOMAIN inflight'[p] = 1..(Len(inflight[p]) + 1)
              /\ DOMAIN inflight[p] = 1..Len(inflight[p]) /\ Len(inflight[p]) \in Nat
              /\ \A i \in 1..Len(inflight[p]) : inflight'[p][i] = inflight[p][i]
              /\ inflight'[p][Len(inflight[p]) + 1] = x
          BY <4>1
        <5>1. CASE j = Len(inflight[p]) + 1
          <6>1. PICK i \in 1..Len(inflight[p]) : inflight[p][i] = m BY <4>4, <4>5, <5>0, <5>1
          <6>2. i \in 1..(j - 1) BY <5>0, <5>1
          <6>3. QED BY <5>0, <6>1, <6>2
        <5>2. CASE j # Len(inflight[p]) + 1
          <6>0. j \in DOMAIN inflight[p] /\ inflight[p][j] = n BY <4>5, <5>0, <5>2
          <6>1. PICK i \in 1..(j - 1) : inflight[p][i] = m BY <2>l, <4>5, <6>0 DEF HandOrder
          <6>2. i \in 1..Len(inflight[p]) BY <5>0, <6>0
          <6>3. QED BY <5>0, <6>1, <6>2
        <5>3. QED BY <5>1, <5>2
      <4>6. n \in claimed'[p] => m \in Queued(p)' BY <2>l, <3>2, <4>3 DEF HandOrder
      <4>7. InLog(m)' <=> InLog(m) BY <2>g DEF InLog
      <4>8. QED BY <3>2, <4>5, <4>6, <4>7 DEF HandOrder
    <3>5. QED BY <1>c, <3>1, <3>3, <3>4 DEF ProduceRow, MarkDelivered
  <2>5. QED BY <1>3, <2>1, <2>2, <2>3, <2>4 DEF Relay
<1>4. ASSUME NEW p \in Procs, KafkaAck(p) PROVE InOrder(m, n)'
  <2>0. \A q \in Procs : q = p BY DEF SingleRelay
  <2>l. LogOrder(m, n) /\ HandOrder(p, m, n) /\ UNCHANGED <<batch, claimed>>
    BY <1>4, <1>l DEF KafkaAck, dbVars, InOrder
  <2> DEFINE x == Head(inflight[p])
  <2>1. /\ inflight[p] # <<>> /\ inflight[p] \in Seq(Msgs) /\ x \in Msgs
        /\ inflight'[p] = Tail(inflight[p]) /\ log' = Append(log, x) /\ log \in Seq(Msgs)
    BY <1>0, <1>4, HeadsHeld DEF KafkaAck, TypeOK
  <2>2. /\ Len(inflight[p]) \in Nat /\ Len(inflight[p]) >= 1
        /\ DOMAIN inflight[p] = 1..Len(inflight[p])
        /\ DOMAIN inflight'[p] = 1..(Len(inflight[p]) - 1)
        /\ x = inflight[p][1]
        /\ \A i \in 1..(Len(inflight[p]) - 1) : inflight'[p][i] = inflight[p][i + 1]
    BY <2>1
  <2>3. /\ DOMAIN log' = 1..(Len(log) + 1) /\ DOMAIN log = 1..Len(log) /\ Len(log) \in Nat
        /\ \A i \in 1..Len(log) : log'[i] = log[i]
        /\ log'[Len(log) + 1] = x
    BY <2>1
  <2>4. Range(log') = Range(log) \cup {x} /\ Range(inflight[p]) = {x} \cup Range(inflight'[p])
    BY <2>1, AppendElements, TailElements
  <2> HIDE DEF x
  <2>5. Queued(p)' = Queued(p) BY <2>l, <2>4 DEF Queued
  <2>6. InLog(m)' <=> InLog(m) \/ m = x BY <2>4 DEF InLog
  <2>7. ASSUME NEW j \in DOMAIN log', log'[j] = n PROVE \E i \in 1..(j - 1) : log'[i] = m
    <3>1. CASE j = Len(log) + 1
      <4>1. inflight[p][1] = n /\ 1 \in DOMAIN inflight[p] BY <2>2, <2>3, <2>7, <3>1
      <4>2. InLog(m) BY <2>l, <4>1 DEF HandOrder
      <4>3. PICK i \in DOMAIN log : log[i] = m BY <4>2 DEF InLog, Range
      <4>4. i \in 1..(j - 1) /\ log'[i] = m BY <2>3, <3>1, <4>3
      <4>5. QED BY <4>4
    <3>2. CASE j # Len(log) + 1
      <4>1. j \in DOMAIN log /\ log[j] = n BY <2>3, <2>7, <3>2
      <4>2. PICK i \in 1..(j - 1) : log[i] = m BY <2>l, <4>1 DEF LogOrder
      <4>3. i \in 1..Len(log) BY <2>3, <4>1
      <4>4. QED BY <2>3, <4>2, <4>3
    <3>3. QED BY <3>1, <3>2
  <2>8. ASSUME NEW j \in DOMAIN inflight'[p], inflight'[p][j] = n, ~InLog(m), m # x
        PROVE  \E i \in 1..(j - 1) : inflight'[p][i] = m
    <3>1. j \in Nat /\ j + 1 \in DOMAIN inflight[p] /\ inflight[p][j + 1] = n BY <2>2, <2>8
    <3>2. PICK i \in 1..((j + 1) - 1) : inflight[p][i] = m BY <2>l, <2>8, <3>1 DEF HandOrder
    <3>3. i # 1 BY <2>2, <2>8, <3>2
    <3>4. /\ i \in Nat /\ i - 1 \in 1..(j - 1)
          /\ i - 1 \in 1..(Len(inflight[p]) - 1) /\ (i - 1) + 1 = i
      BY <2>2, <3>1, <3>2, <3>3
    <3>5. inflight'[p][i - 1] = m BY <2>2, <3>2, <3>4
    <3>6. QED BY <3>4, <3>5
  <2>9. HandOrder(p, m, n)' BY <2>l, <2>5, <2>6, <2>8 DEF HandOrder
  <2>10. QED BY <2>0, <2>7, <2>9 DEF InOrder, LogOrder
<1>5. ASSUME NEW p \in Procs, KafkaFails(p) \/ OnDelivery(p) \/ OnDeliveryFails(p) PROVE InOrder(m, n)'
  <2>1. OnDelivery(p) BY <1>c, <1>5 DEF KafkaFails, OnDeliveryFails
  <2>2. QED BY <1>1, <1>l, <2>1 DEF OnDelivery
<1>6. ASSUME NEW p \in Procs, Process(p) PROVE InOrder(m, n)'
  <2>1. CASE Start(p) BY <1>1, <1>l, <2>1 DEF Start, relayVars
  <2>2. CASE Stop(p) \/ Stopped(p) BY <1>1, <1>l, <2>2 DEF Stop, Stopped, relayVars, dbVars
  <2>3. CASE Crash(p) BY <1>c, <2>3 DEF Crash
  <2>4. QED BY <1>6, <2>1, <2>2, <2>3 DEF Process
<1>7. CASE UNCHANGED vars BY <1>1, <1>l, <1>7 DEF vars, dbVars, relayVars
<1>8. QED BY <1>2, <1>3, <1>4, <1>5, <1>6, <1>7 DEF Next, Kafka

\* As long as nothing fails and no row is retried, one relay brings the messages
\* of a sender into a conversation's partition in the order they were saved (the
\* ORDER BY id of drainOnce), although transactions, claims, the producer and its
\* callbacks interleave.
THEOREM SendersKeepOrder == ASSUME SingleRelay PROVE Spec => []SenderOrder
<1>1. Init => OrderInv
  <2> SUFFICES ASSUME Init PROVE OrderInv
    OBVIOUS
  <2>1. SingleInv BY InitSingleInv
  <2>2. IdsGrow /\ BatchPending BY DEF Init, IdsGrow, BatchPending
  <2>3. NothingLost BY DEF Init, NothingLost, Range
  <2>4. Order BY DEF Init, Order, Later
  <2>5. QED BY <2>1, <2>2, <2>3, <2>4 DEF OrderInv
<1>2. OrderInv /\ [Next]_vars => OrderInv'
  BY NextSingleInv, NextIdsGrow, NextBatchPending, NextNothingLost, NextOrder DEF OrderInv
<1>3. OrderInv => SenderOrder
  <2> SUFFICES ASSUME OrderInv, Calm, NEW m \in saved, NEW n \in saved, Later(m, n)
               PROVE  LogOrder(m, n)
    BY DEF SenderOrder, Calm, Later, LogOrder
  <2>1. m \in Msgs /\ n \in Msgs BY DEF OrderInv, SingleInv, Inv, TypeOK
  <2>2. QED BY <2>1 DEF OrderInv, Order, InOrder
<1>4. QED BY <1>1, <1>2, <1>3, PTL DEF Spec
===============================================================================
