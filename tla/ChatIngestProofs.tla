--------------------------- MODULE ChatIngestProofs ---------------------------
(***************************************************************************)
(* For any messages, flushing threads, workers, sizes and thresholds: a    *)
(* message is lost from msg_queue only to a fault or to the race at the    *)
(* LTRIM; an ack stands for a message that is kept; copies of a message    *)
(* are forwarded no more often than the set of recent keys was emptied,    *)
(* and the order of a sender and of a group is kept.                       *)
(***************************************************************************)
EXTENDS ChatIngest, TLAPS, FiniteSetTheorems

\* What an LTRIM is about to remove was read by its flush, or is exposed: only a
\* push or another flush puts something else at the head of the list.
Window ==
  \A f \in Flushers : pc[f] = "trim" =>
    \A j \in DOMAIN queue : j <= Len(batch[f]) => queue[j] \in exposed \cup ToSet(batch[f])

\* A thread that is not in a flush has no batch.
Resting == \A f \in Flushers : pc[f] = "idle" => batch[f] = <<>>

\* While two flushes are between LRANGE and LTRIM, all that is in the list is exposed.
Overlap == \A f, g \in InWindow : f # g => ToSet(queue) \subseteq exposed

\* What queueMessage has returned for is kept.
Returning == \A m \in Msgs : stage[m] = "done" => Kept(m)

QueueInv == QueueTypeOK /\ Resting /\ Window /\ Overlap /\ Returning

\* Why a key may be in the set of recent keys.
Explained(k) ==
  \E n \in Msgs : /\ KeyOf[n] = k
                  /\ \/ Kept(n) \/ n \in Queued \cup killed
                     \/ reply[n] \in {"busy", "blocked"}

Explains ==
  /\ \A k \in recent : Explained(k)
  /\ \A m \in Msgs : /\ reply[m] = "ack" => stage[m] = "done"
                     /\ reply[m] = "duplicate" => Explained(KeyOf[m])

\* Transmissions of a key that entered a task queue: one for the key that is
\* remembered now, and one for every time the set was emptied.
AcceptedOf(k) == {m \in ToSet(accepted) \ Files : KeyOf[m] = k}
Credit(k) == resets + (IF k \in recent THEN 1 ELSE 0)
AcceptedOnce ==
  \A k \in Keys : IsFiniteSet(AcceptedOf(k)) /\ Cardinality(AcceptedOf(k)) <= Credit(k)

\* x is before y in the sequence s.
Before(s, x, y) == \E a, b \in DOMAIN s : a < b /\ s[a] = x /\ s[b] = y

\* The task queue of a worker holds its own lanes, in the order of acceptance, and
\* what the worker has forwarded was accepted before all of it.
TasksInOrder ==
  \A w \in Workers : \A j \in DOMAIN tasks[w] :
    /\ Worker(tasks[w][j]) = w
    /\ tasks[w][j] \in ToSet(accepted)
    /\ \A i \in 1..(j - 1) : Before(accepted, tasks[w][i], tasks[w][j])
    /\ \A i \in DOMAIN forwarded :
         Worker(forwarded[i]) = w => Before(accepted, forwarded[i], tasks[w][j])

ForwardedWasAccepted == ToSet(forwarded) \subseteq ToSet(accepted)

Inv ==
  /\ IngestTypeOK /\ IsFiniteSet(recent)
  /\ Resting /\ Window /\ Overlap /\ Returning
  /\ Explains /\ AcceptedOnce /\ TasksInOrder /\ ForwardedWasAccepted /\ LaneOrder

-------------------------------------------------------------------------------
(* Sequences and breakers.                                                 *)

\* The elements of a sequence.
LEMMA InSeq ==
  ASSUME NEW S, NEW s \in Seq(S), NEW x
  PROVE  x \in ToSet(s) <=> \E i \in 1..Len(s) : s[i] = x
  BY DEF ToSet

\* A message joins a sequence at its end.
LEMMA AppendSet ==
  ASSUME NEW S, NEW s \in Seq(S), NEW m \in S
  PROVE  ToSet(Append(s, m)) = ToSet(s) \cup {m}
  <1> DEFINE r == Append(s, m)
  <1>1. /\ Len(s) \in Nat /\ Len(r) = Len(s) + 1 /\ r \in Seq(S)
        /\ \A i \in 1..Len(s) : r[i] = s[i]
        /\ r[Len(s) + 1] = m
    OBVIOUS
  <1>2. \A i \in 1..(Len(s) + 1) : i \in 1..Len(s) \/ i = Len(s) + 1
    BY <1>1
  <1>3. \A i \in 1..Len(s) : i \in 1..(Len(s) + 1)
    BY <1>1
  <1>4. Len(s) + 1 \in 1..(Len(s) + 1)
    BY <1>1
  <1> HIDE DEF r
  <1>5. ASSUME NEW x PROVE x \in ToSet(r) <=> x \in ToSet(s) \cup {m}
    <2>1. x \in ToSet(r) <=> \E i \in 1..(Len(s) + 1) : r[i] = x
      BY <1>1, InSeq
    <2>2. x \in ToSet(s) <=> \E i \in 1..Len(s) : s[i] = x
      BY InSeq
    <2>3. ASSUME x \in ToSet(r) PROVE x \in ToSet(s) \cup {m}
      BY <1>1, <1>2, <2>1, <2>2, <2>3
    <2>4. ASSUME x \in ToSet(s) PROVE x \in ToSet(r)
      BY <1>1, <1>3, <2>1, <2>2, <2>4
    <2>5. ASSUME x = m PROVE x \in ToSet(r)
      BY <1>1, <1>4, <2>1, <2>5
    <2> QED
      BY <2>3, <2>4, <2>5
  <1> QED
    BY <1>5 DEF r

\* A message joins a sequence at its head.
LEMMA PushSet ==
  ASSUME NEW S, NEW s \in Seq(S), NEW m \in S
  PROVE  /\ <<m>> \o s \in Seq(S) /\ Len(<<m>> \o s) = Len(s) + 1
         /\ (<<m>> \o s)[1] = m
         /\ \A i \in 2..(Len(s) + 1) : (<<m>> \o s)[i] = s[i - 1]
         /\ ToSet(<<m>> \o s) = ToSet(s) \cup {m}
  <1> DEFINE r == <<m>> \o s
  <1>1. /\ Len(s) \in Nat /\ r \in Seq(S) /\ Len(r) = Len(s) + 1 /\ r[1] = m
        /\ \A i \in 2..(Len(s) + 1) : r[i] = s[i - 1]
    OBVIOUS
  <1>2. \A i \in 1..(Len(s) + 1) : i = 1 \/ (i \in 2..(Len(s) + 1) /\ i - 1 \in 1..Len(s))
    BY <1>1
  <1>3. \A i \in 1..Len(s) : i + 1 \in 2..(Len(s) + 1) /\ (i + 1) - 1 = i
    BY <1>1
  <1>4. 1 \in 1..(Len(s) + 1) /\ \A i \in 2..(Len(s) + 1) : i \in 1..(Len(s) + 1)
    BY <1>1
  <1> HIDE DEF r
  <1>5. ASSUME NEW x PROVE x \in ToSet(r) <=> x \in ToSet(s) \cup {m}
    <2>1. x \in ToSet(r) <=> \E i \in 1..(Len(s) + 1) : r[i] = x
      BY <1>1, InSeq
    <2>2. x \in ToSet(s) <=> \E i \in 1..Len(s) : s[i] = x
      BY InSeq
    <2>3. ASSUME x \in ToSet(r) PROVE x \in ToSet(s) \cup {m}
      BY <1>1, <1>2, <2>1, <2>2, <2>3
    <2>4. ASSUME NEW i \in 1..Len(s), s[i] = x PROVE x \in ToSet(r)
      <3>1. r[i + 1] = x /\ i + 1 \in 1..(Len(s) + 1)
        BY <1>1, <1>3, <1>4, <2>4
      <3> QED
        BY <2>1, <3>1
    <2>5. m \in ToSet(r)
      <3>1. m \in ToSet(r) <=> \E i \in 1..(Len(s) + 1) : r[i] = m
        BY <1>1, InSeq
      <3> QED
        BY <1>1, <1>4, <3>1
    <2> QED
      BY <2>2, <2>3, <2>4, <2>5
  <1>6. ToSet(r) = ToSet(s) \cup {m}
    BY <1>5
  <1> QED
    BY <1>1, <1>6 DEF r

\* A sequence that is not empty is its head and its tail.
LEMMA TailSet ==
  ASSUME NEW S, NEW s \in Seq(S), s # <<>>
  PROVE  /\ Tail(s) \in Seq(S) /\ Head(s) \in S /\ Head(s) \in ToSet(s)
         /\ Len(Tail(s)) = Len(s) - 1 /\ Len(s) \in Nat \ {0}
         /\ \A i \in 1..Len(Tail(s)) : Tail(s)[i] = s[i + 1]
         /\ ToSet(s) = ToSet(Tail(s)) \cup {Head(s)}
  <1>1. /\ Tail(s) \in Seq(S) /\ Head(s) \in S /\ Len(s) \in Nat \ {0}
        /\ Len(Tail(s)) = Len(s) - 1 /\ Head(s) = s[1]
        /\ \A i \in 1..Len(Tail(s)) : Tail(s)[i] = s[i + 1]
    OBVIOUS
  <1>2. \A i \in 1..Len(s) : i = 1 \/ (i - 1 \in 1..Len(Tail(s)) /\ (i - 1) + 1 = i)
    BY <1>1
  <1>3. 1 \in 1..Len(s) /\ \A i \in 1..Len(Tail(s)) : i + 1 \in 1..Len(s)
    BY <1>1
  <1>4. ASSUME NEW x PROVE x \in ToSet(s) <=> x \in ToSet(Tail(s)) \cup {Head(s)}
    <2>1. x \in ToSet(s) <=> \E i \in 1..Len(s) : s[i] = x
      BY InSeq
    <2>2. x \in ToSet(Tail(s)) <=> \E i \in 1..Len(Tail(s)) : Tail(s)[i] = x
      BY <1>1, InSeq, ZenonT(60)
    <2>3. ASSUME NEW i \in 1..Len(s), s[i] = x PROVE x \in ToSet(Tail(s)) \cup {Head(s)}
      <3>1. CASE i = 1
        BY <1>1, <2>3, <3>1
      <3>2. CASE i # 1
        <4>1. i - 1 \in 1..Len(Tail(s)) /\ (i - 1) + 1 = i
          BY <1>2, <3>2
        <4>2. Tail(s)[i - 1] = x
          BY <1>1, <2>3, <4>1
        <4> QED
          BY <2>2, <4>1, <4>2
      <3> QED
        BY <3>1, <3>2
    <2>4. ASSUME NEW i \in 1..Len(Tail(s)), Tail(s)[i] = x PROVE x \in ToSet(s)
      <3>1. s[i + 1] = x /\ i + 1 \in 1..Len(s)
        BY <1>1, <1>3, <2>4
      <3> QED
        BY <2>1, <3>1
    <2> QED
      BY <1>1, <1>3, <2>1, <2>2, <2>3, <2>4
  <1>5. ToSet(s) = ToSet(Tail(s)) \cup {Head(s)}
    BY <1>4
  <1> QED
    BY <1>1, <1>5

\* LRANGE returns the first n messages of the list.
LEMMA PrefixSeq ==
  ASSUME NEW S, NEW s \in Seq(S), NEW n \in 0..Len(s)
  PROVE  /\ SubSeq(s, 1, n) \in Seq(S) /\ Len(SubSeq(s, 1, n)) = n
         /\ \A i \in 1..n : SubSeq(s, 1, n)[i] = s[i]
  OBVIOUS

\* LTRIM keeps what comes after the first n messages of the list.
LEMMA SuffixSeq ==
  ASSUME NEW S, NEW s \in Seq(S), NEW n \in Nat
  PROVE  /\ SubSeq(s, n + 1, Len(s)) \in Seq(S)
         /\ \A x \in ToSet(SubSeq(s, n + 1, Len(s))) : x \in ToSet(s)
         /\ \A i \in 1..Len(s) : i > n => s[i] \in ToSet(SubSeq(s, n + 1, Len(s)))
  <1> DEFINE r == SubSeq(s, n + 1, Len(s))
  <1>0. Len(s) \in Nat
    OBVIOUS
  <1>1. r \in Seq(S) /\ Len(r) = IF n < Len(s) THEN Len(s) - n ELSE 0
    BY <1>0
  <1>2. \A i \in 1..Len(r) : r[i] = s[i + n] /\ i + n \in 1..Len(s)
    BY <1>0, <1>1
  <1>3. \A i \in 1..Len(s) : i > n => i - n \in 1..Len(r) /\ (i - n) + n = i
    BY <1>0, <1>1
  <1> HIDE DEF r
  <1>4. \A x \in ToSet(r) : x \in ToSet(s)
    BY <1>1, <1>2, InSeq
  <1>5. ASSUME NEW i \in 1..Len(s), i > n PROVE s[i] \in ToSet(r)
    <2>1. i - n \in 1..Len(r) /\ (i - n) + n = i
      BY <1>3, <1>5
    <2>2. r[i - n] = s[i]
      BY <1>2, <2>1
    <2> QED
      BY <1>1, <2>1, <2>2, InSeq
  <1> QED
    BY <1>1, <1>4, <1>5 DEF r

\* What a breaker records leaves it in one of its states.
LEMMA BreakerMoves ==
  ASSUME NEW r \in BreakerStates
  PROVE  Success(r) \in BreakerStates /\ Failure(r) \in BreakerStates
  <1> USE QueueAssumption DEF QueueAssumption, BreakerStates, Closed, Open
  <1>1. Success(r) \in BreakerStates
    BY DEF Success
  <1>2. Failure(r) \in BreakerStates
    BY DEF Failure
  <1> QED
    BY <1>1, <1>2

-------------------------------------------------------------------------------
(* MessageQueue.                                                           *)

\* What a flush has read is in somebody's hands.
LEMMA HeldIs ==
  ASSUME NEW m
  PROVE  m \in Held <=> \E f \in Flushers : m \in ToSet(batch[f])
  BY DEF Held

\* Every action of the queue keeps the variables in their types.
LEMMA QueueNextType == QueueTypeOK /\ [Next]_queueVars => QueueTypeOK'
  <1> SUFFICES ASSUME QueueTypeOK, [Next]_queueVars PROVE QueueTypeOK'
    OBVIOUS
  <1> USE QueueAssumption DEF QueueAssumption, QueueTypeOK, Fault
  <1>b. ASSUME NEW b \in Breakers
        PROVE  /\ RecordSuccess(b) => breaker' \in [Breakers -> BreakerStates]
               /\ RecordFailure(b) => breaker' \in [Breakers -> BreakerStates]
    <2>1. breaker[b] \in BreakerStates /\ breaker \in [Breakers -> BreakerStates]
      OBVIOUS
    <2>2. Success(breaker[b]) \in BreakerStates /\ Failure(breaker[b]) \in BreakerStates
      BY <2>1, BreakerMoves
    <2>3. \A v \in BreakerStates : [breaker EXCEPT ![b] = v] \in [Breakers -> BreakerStates]
      BY <2>1
    <2> QED
      BY <2>2, <2>3 DEF RecordSuccess, RecordFailure
  <1>r. "redis" \in Breakers /\ "mysql" \in Breakers
    BY DEF Breakers
  <1>h. Half \in BreakerStates /\ Closed \in BreakerStates
    BY DEF BreakerStates, Half, Closed
  <1>1. ASSUME NEW m \in Msgs, Push(m) PROVE QueueTypeOK'
    <2>1. queue' \in Seq(Msgs)
      BY <1>1, PushSet DEF Push
    <2>2. breaker' \in [Breakers -> BreakerStates]
      BY <1>1, <1>b, <1>r DEF Push
    <2> QED
      BY <1>1, <2>1, <2>2 DEF Push
  <1>2. ASSUME NEW m \in Msgs, PushIgnored(m) PROVE QueueTypeOK'
    BY <1>2, <1>b, <1>r DEF PushIgnored
  <1>3. ASSUME NEW m \in Msgs, Degrade(m) PROVE QueueTypeOK'
    BY <1>3, <1>b, <1>r DEF Degrade
  <1>4. ASSUME NEW m \in Msgs, DirectSave(m) PROVE QueueTypeOK'
    BY <1>4 DEF DirectSave
  <1>5. ASSUME NEW f \in Flushers, Read(f) PROVE QueueTypeOK'
    <2> DEFINE n == IF Len(queue) < ReadMax THEN Len(queue) ELSE ReadMax
    <2>1. n \in 0..Len(queue) /\ n <= ReadMax
      OBVIOUS
    <2>2. SubSeq(queue, 1, n) \in Seq(Msgs) /\ Len(SubSeq(queue, 1, n)) = n
      BY <2>1, PrefixSeq
    <2>3. batch' = [batch EXCEPT ![f] = SubSeq(queue, 1, n)]
      BY <1>5 DEF Read
    <2> HIDE DEF n
    <2>4. batch' \in [Flushers -> Seq(Msgs)] /\ \A g \in Flushers : Len(batch'[g]) <= ReadMax
      BY <2>1, <2>2, <2>3
    <2>5. exposed' \subseteq Msgs
      BY <1>5, InSeq DEF Read
    <2> QED
      BY <1>5, <2>4, <2>5 DEF Read
  <1>6. ASSUME NEW f \in Flushers, Trim(f) PROVE QueueTypeOK'
    <2>1. queue' \in Seq(Msgs)
      BY <1>6, SuffixSeq DEF Trim
    <2> QED
      BY <1>6, <2>1 DEF Trim
  <1>7. ASSUME NEW f \in Flushers, TrimIgnored(f) PROVE QueueTypeOK'
    BY <1>7 DEF TrimIgnored
  <1>8. ASSUME NEW f \in Flushers, Insert(f) PROVE QueueTypeOK'
    <2>1. /\ batch[f] \in Seq(Msgs) /\ batch[f] # <<>>
          /\ Head(batch[f]) \in Msgs /\ Tail(batch[f]) \in Seq(Msgs)
          /\ Len(Tail(batch[f])) <= ReadMax
      BY <1>8, TailSet DEF Insert
    <2>2. batch' \in [Flushers -> Seq(Msgs)] /\ \A g \in Flushers : Len(batch'[g]) <= ReadMax
      BY <1>8, <2>1 DEF Insert
    <2>3. rows' \subseteq Msgs /\ dropped' \subseteq Msgs /\ faults' \in 0..MaxFaults
      BY <1>8, <2>1 DEF Insert
    <2>4. tally' \in [Flushers -> SUBSET {"ok", "fail"}]
      <3>1. \A t \in {"ok", "fail"} :
              [tally EXCEPT ![f] = @ \cup {t}] \in [Flushers -> SUBSET {"ok", "fail"}]
        OBVIOUS
      <3> QED
        BY <1>8, <3>1 DEF Insert
    <2> QED
      BY <1>8, <2>2, <2>3, <2>4 DEF Insert
  <1>9. ASSUME NEW f \in Flushers, Finish(f) PROVE QueueTypeOK'
    BY <1>9, <1>b, <1>r DEF Finish
  <1>10. ASSUME NEW b \in Breakers, Timeout(b) PROVE QueueTypeOK'
    BY <1>10, <1>h DEF Timeout
  <1>11. CASE QueueCrash
    <2>1. Held \subseteq Msgs
      BY HeldIs, InSeq
    <2>2. dropped' \subseteq Msgs /\ faults' \in 0..MaxFaults
      BY <1>11, <2>1 DEF QueueCrash
    <2>3. /\ stage' \in [Msgs -> {"new", "direct", "done", "gone"}]
      BY <1>11 DEF QueueCrash
    <2>4. \A g \in Flushers : batch'[g] = <<>>
      BY <1>11 DEF QueueCrash
    <2>5. <<>> \in Seq(Msgs) /\ Len(<<>>) <= ReadMax
      OBVIOUS
    <2>6. batch' \in [Flushers -> Seq(Msgs)] /\ \A g \in Flushers : Len(batch'[g]) <= ReadMax
      BY <1>11, <2>4, <2>5 DEF QueueCrash
    <2> QED
      BY <1>11, <1>h, <2>2, <2>3, <2>6 DEF QueueCrash
  <1>12. CASE UNCHANGED queueVars
    BY <1>12 DEF queueVars
  <1> QED
    BY <1>1, <1>2, <1>3, <1>4, <1>5, <1>6, <1>7, <1>8, <1>9, <1>10, <1>11, <1>12
       DEF Next, QueueMessage, Flush

\* A message that the list, a flush or MySQL has stays with one of them, or is
\* dropped by a fault or exposed.
LEMMA KeptStays ==
  ASSUME QueueInv, [Next]_queueVars, NEW m \in Msgs, Kept(m)
  PROVE  Kept(m)'
  <1> USE DEF QueueInv, QueueTypeOK
  <1>0. ASSUME rows \subseteq rows', dropped \subseteq dropped', exposed \subseteq exposed',
               UNCHANGED batch, ToSet(queue) \subseteq ToSet(queue')
        PROVE  Kept(m)'
    BY <1>0 DEF Kept, Held
  <1>k. /\ Kept(m) <=> \/ m \in rows \cup ToSet(queue) \cup dropped \cup exposed
                       \/ \E f \in Flushers : m \in ToSet(batch[f])
        /\ Kept(m)' <=> \/ m \in rows' \cup ToSet(queue') \cup dropped' \cup exposed'
                        \/ \E f \in Flushers : m \in ToSet(batch'[f])
    BY DEF Kept, Held
  <1>1. ASSUME NEW n \in Msgs, Push(n) PROVE Kept(m)'
    <2>1. ToSet(queue') = ToSet(queue) \cup {n}
      BY <1>1, PushSet DEF Push
    <2> QED
      BY <1>0, <1>1, <2>1 DEF Push
  <1>2. ASSUME NEW n \in Msgs, PushIgnored(n) \/ Degrade(n) \/ DirectSave(n) PROVE Kept(m)'
    BY <1>0, <1>2 DEF PushIgnored, Degrade, DirectSave
  <1>3. ASSUME NEW f \in Flushers, Read(f) PROVE Kept(m)'
    <2>1. /\ batch[f] = <<>> /\ \A g \in Flushers : g # f => batch'[g] = batch[g]
          /\ UNCHANGED <<queue, rows, dropped>> /\ exposed \subseteq exposed'
      BY <1>3 DEF Read, Resting
    <2>2. m \notin ToSet(<<>>)
      BY DEF ToSet
    <2> QED
      BY <1>k, <2>1, <2>2
  <1>4. ASSUME NEW f \in Flushers, Trim(f) PROVE Kept(m)'
    <2>1. /\ pc[f] = "trim" /\ queue' = SubSeq(queue, Len(batch[f]) + 1, Len(queue))
          /\ UNCHANGED <<rows, batch, dropped, exposed>> /\ Len(batch[f]) \in Nat
      BY <1>4 DEF Trim
    <2>2. ASSUME m \in ToSet(queue), m \notin ToSet(queue')
          PROVE  m \in exposed \cup ToSet(batch[f])
      <3>1. PICK i \in 1..Len(queue) : queue[i] = m
        BY <2>2, InSeq
      <3>2. ~(i > Len(batch[f]))
        BY <2>1, <2>2, <3>1, SuffixSeq
      <3>3. i \in DOMAIN queue /\ i <= Len(batch[f])
        BY <2>1, <3>2
      <3> QED
        BY <2>1, <3>1, <3>3 DEF Window
    <2> QED
      BY <1>k, <2>1, <2>2
  <1>5. ASSUME NEW f \in Flushers, TrimIgnored(f) \/ Finish(f) PROVE Kept(m)'
    BY <1>0, <1>5 DEF TrimIgnored, Finish
  <1>6. ASSUME NEW f \in Flushers, Insert(f) PROVE Kept(m)'
    <2>1. ToSet(batch[f]) = ToSet(Tail(batch[f])) \cup {Head(batch[f])}
      BY <1>6, TailSet DEF Insert
    <2>2. /\ batch'[f] = Tail(batch[f]) /\ \A g \in Flushers : g # f => batch'[g] = batch[g]
          /\ Head(batch[f]) \in rows' \cup dropped'
          /\ rows \subseteq rows' /\ dropped \subseteq dropped' /\ UNCHANGED <<queue, exposed>>
      BY <1>6 DEF Insert
    <2> QED
      BY <1>k, <2>1, <2>2
  <1>7. ASSUME NEW b \in Breakers, Timeout(b) PROVE Kept(m)'
    BY <1>0, <1>7 DEF Timeout
  <1>8. CASE QueueCrash
    <2>1. /\ dropped' = dropped \cup (Held \ (rows \cup ToSet(queue)))
          /\ UNCHANGED <<queue, rows, exposed>>
      BY <1>8 DEF QueueCrash
    <2> QED
      BY <1>k, <2>1, HeldIs
  <1>9. CASE UNCHANGED queueVars
    BY <1>0, <1>9 DEF queueVars
  <1> QED
    BY <1>1, <1>2, <1>3, <1>4, <1>5, <1>6, <1>7, <1>8, <1>9 DEF Next, QueueMessage, Flush

\* The head of the list, as a flush between LRANGE and LTRIM may rely on it.
LEMMA NextWindow == QueueInv /\ [Next]_queueVars => Resting' /\ Window' /\ Overlap'
  <1> SUFFICES ASSUME QueueInv, [Next]_queueVars PROVE Resting' /\ Window' /\ Overlap'
    OBVIOUS
  <1> USE DEF QueueInv, QueueTypeOK
  <1>0. ASSUME UNCHANGED <<pc, queue, batch>>, exposed \subseteq exposed'
        PROVE  Resting' /\ Window' /\ Overlap'
    BY <1>0 DEF Resting, Window, Overlap, InWindow
  <1>1. ASSUME NEW m \in Msgs, Push(m) PROVE Resting' /\ Window' /\ Overlap'
    <2>0. /\ queue' = <<m>> \o queue /\ UNCHANGED <<pc, batch>> /\ exposed \subseteq exposed'
          /\ \A f \in Flushers : pc[f] = "trim" => m \in exposed'
      BY <1>1 DEF Push, InWindow
    <2>1. /\ queue' \in Seq(Msgs) /\ Len(queue') = Len(queue) + 1 /\ queue'[1] = m
          /\ \A i \in 2..(Len(queue) + 1) : queue'[i] = queue[i - 1]
          /\ ToSet(queue') = ToSet(queue) \cup {m}
      BY <2>0, PushSet
    <2>2. ASSUME NEW f \in Flushers, pc[f] = "trim", NEW j \in DOMAIN queue', j <= Len(batch[f])
          PROVE  queue'[j] \in exposed' \cup ToSet(batch[f])
      <3>1. CASE j = 1
        BY <2>0, <2>1, <2>2, <3>1
      <3>2. CASE j # 1
        <4>1. /\ j \in 2..(Len(queue) + 1) /\ j - 1 \in 1..Len(queue) /\ j - 1 <= Len(batch[f])
              /\ DOMAIN queue = 1..Len(queue)
          BY <2>1, <2>2, <3>2
        <4>2. queue[j - 1] \in exposed \cup ToSet(batch[f])
          BY <2>2, <4>1 DEF Window
        <4> QED
          BY <2>0, <2>1, <4>1, <4>2
      <3> QED
        BY <3>1, <3>2
    <2>3. Window'
      BY <2>0, <2>2 DEF Window
    <2>4. Overlap' /\ Resting'
      BY <2>0, <2>1 DEF Overlap, InWindow, Resting
    <2> QED
      BY <2>3, <2>4
  <1>2. ASSUME NEW m \in Msgs, PushIgnored(m) \/ Degrade(m) \/ DirectSave(m)
        PROVE  Resting' /\ Window' /\ Overlap'
    BY <1>0, <1>2 DEF PushIgnored, Degrade, DirectSave
  <1>3. ASSUME NEW f \in Flushers, Read(f) PROVE Resting' /\ Window' /\ Overlap'
    <2> DEFINE n == IF Len(queue) < ReadMax THEN Len(queue) ELSE ReadMax
    <2>0. /\ UNCHANGED queue /\ pc[f] = "idle" /\ pc' = [pc EXCEPT ![f] = "trim"]
          /\ batch' = [batch EXCEPT ![f] = SubSeq(queue, 1, n)]
          /\ exposed' = IF InWindow = {} THEN exposed ELSE exposed \cup ToSet(queue)
      BY <1>3 DEF Read
    <2>1. n \in 0..Len(queue)
      BY QueueAssumption DEF QueueAssumption
    <2>2. /\ batch'[f] \in Seq(Msgs) /\ Len(batch'[f]) = n
          /\ \A i \in 1..n : batch'[f][i] = queue[i]
      BY <2>0, <2>1, PrefixSeq
    <2> HIDE DEF n
    <2>3. /\ pc'[f] = "trim"
          /\ \A g \in Flushers : g # f => pc'[g] = pc[g] /\ batch'[g] = batch[g]
      BY <2>0
    <2>4. ASSUME NEW g \in Flushers, g # f, pc[g] = "trim" PROVE ToSet(queue) \subseteq exposed'
      BY <2>0, <2>4 DEF InWindow
    <2>5. ASSUME NEW g \in Flushers, pc'[g] = "trim", NEW j \in DOMAIN queue',
                 j <= Len(batch'[g])
          PROVE  queue'[j] \in exposed' \cup ToSet(batch'[g])
      <3>1. CASE g = f
        <4>1. j \in 1..n /\ queue'[j] = batch'[f][j]
          BY <2>0, <2>1, <2>2, <2>5, <3>1
        <4> QED
          BY <2>2, <3>1, <4>1, InSeq
      <3>2. CASE g # f
        <4>1. queue'[j] \in ToSet(queue)
          BY <2>0, <2>5, InSeq
        <4> QED
          BY <2>3, <2>4, <2>5, <3>2, <4>1
      <3> QED
        BY <3>1, <3>2
    <2>6. Window'
      BY <2>5 DEF Window
    <2>7. Overlap'
      <3> SUFFICES ASSUME NEW g \in Flushers, NEW h \in Flushers, pc'[g] = "trim",
                          pc'[h] = "trim", g # h
                   PROVE  ToSet(queue') \subseteq exposed'
        BY DEF Overlap, InWindow
      <3>1. PICK x \in Flushers : x # f /\ pc[x] = "trim"
        BY <2>3
      <3> QED
        BY <2>0, <2>4, <3>1
    <2>8. Resting'
      BY <2>3 DEF Resting
    <2> QED
      BY <2>6, <2>7, <2>8
  <1>4. ASSUME NEW f \in Flushers, Trim(f) PROVE Resting' /\ Window' /\ Overlap'
    <2>0. /\ pc[f] = "trim" /\ queue' = SubSeq(queue, Len(batch[f]) + 1, Len(queue))
          /\ UNCHANGED <<batch, exposed>> /\ Len(batch[f]) \in Nat
          /\ pc'[f] = "insert" /\ \A g \in Flushers : g # f => pc'[g] = pc[g]
      BY <1>4 DEF Trim
    <2>1. queue' \in Seq(Msgs) /\ ToSet(queue') \subseteq ToSet(queue)
      BY <2>0, SuffixSeq
    <2>2. ASSUME NEW g \in Flushers, pc'[g] = "trim" PROVE ToSet(queue') \subseteq exposed
      BY <2>0, <2>1, <2>2 DEF Overlap, InWindow
    <2>3. \A j \in DOMAIN queue' : queue'[j] \in ToSet(queue')
      BY <2>1 DEF ToSet
    <2>4. Window'
      BY <2>0, <2>2, <2>3 DEF Window
    <2>5. Overlap'
      BY <2>0, <2>2 DEF Overlap, InWindow
    <2>6. Resting'
      BY <2>0 DEF Resting
    <2> QED
      BY <2>4, <2>5, <2>6
  <1>5. ASSUME NEW f \in Flushers, TrimIgnored(f) \/ Insert(f) PROVE Resting' /\ Window' /\ Overlap'
    <2>1. /\ UNCHANGED <<queue, exposed>> /\ pc'[f] = "insert"
          /\ \A g \in Flushers : g # f => pc'[g] = pc[g] /\ batch'[g] = batch[g]
      BY <1>5 DEF TrimIgnored, Insert
    <2>2. Window'
      BY <2>1 DEF Window
    <2>3. Overlap'
      BY <2>1 DEF Overlap, InWindow
    <2>4. Resting'
      BY <2>1 DEF Resting
    <2> QED
      BY <2>2, <2>3, <2>4
  <1>6. ASSUME NEW f \in Flushers, Finish(f) PROVE Resting' /\ Window' /\ Overlap'
    <2>1. /\ UNCHANGED <<queue, exposed, batch>> /\ pc'[f] = "idle" /\ batch[f] = <<>>
          /\ \A g \in Flushers : g # f => pc'[g] = pc[g]
      BY <1>6 DEF Finish
    <2>2. Window'
      BY <2>1 DEF Window
    <2>3. Overlap'
      BY <2>1 DEF Overlap, InWindow
    <2>4. Resting'
      BY <2>1 DEF Resting
    <2> QED
      BY <2>2, <2>3, <2>4
  <1>7. ASSUME NEW b \in Breakers, Timeout(b) PROVE Resting' /\ Window' /\ Overlap'
    BY <1>0, <1>7 DEF Timeout
  <1>8. CASE QueueCrash
    <2>1. \A f \in Flushers : pc'[f] = "idle" /\ batch'[f] = <<>>
      BY <1>8 DEF QueueCrash
    <2> QED
      BY <2>1 DEF Resting, Window, Overlap, InWindow
  <1>9. CASE UNCHANGED queueVars
    BY <1>0, <1>9 DEF queueVars
  <1> QED
    BY <1>1, <1>2, <1>3, <1>4, <1>5, <1>6, <1>7, <1>8, <1>9 DEF Next, QueueMessage, Flush

\* queueMessage returns for a message that it has put into the list, or into MySQL,
\* or lost to a fault.
LEMMA NextReturning == QueueInv /\ [Next]_queueVars => Returning'
  <1> SUFFICES ASSUME QueueInv, [Next]_queueVars, NEW m \in Msgs, stage'[m] = "done"
               PROVE  Kept(m)'
    BY DEF Returning
  <1> USE DEF QueueInv, QueueTypeOK
  <1>1. CASE stage[m] = "done"
    BY <1>1, KeptStays DEF Returning
  <1>2. CASE stage[m] # "done"
    <2>1. CASE Push(m)
      <3>1. m \in ToSet(queue')
        BY <2>1, PushSet DEF Push
      <3> QED
        BY <3>1 DEF Kept
    <2>2. CASE PushIgnored(m) \/ DirectSave(m)
      BY <2>2 DEF PushIgnored, DirectSave, Kept
    <2>3. Push(m) \/ PushIgnored(m) \/ DirectSave(m)
      <3>1. ASSUME NEW n \in Msgs, QueueMessage(n) PROVE Push(m) \/ PushIgnored(m) \/ DirectSave(m)
        <4>1. n = m
          BY <1>2, <3>1 DEF QueueMessage, Push, PushIgnored, Degrade, DirectSave
        <4>2. ~Degrade(n)
          BY <4>1 DEF Degrade
        <4> QED
          BY <3>1, <4>1, <4>2 DEF QueueMessage
      <3>2. ASSUME NEW f \in Flushers, Flush(f) PROVE UNCHANGED stage
        BY <3>2 DEF Flush, Read, Trim, TrimIgnored, Insert, Finish
      <3>3. ASSUME NEW b \in Breakers, Timeout(b) PROVE UNCHANGED stage
        BY <3>3 DEF Timeout
      <3>4. ASSUME QueueCrash PROVE stage'[m] = "done" => stage[m] = "done"
        BY <3>4 DEF QueueCrash
      <3>5. CASE UNCHANGED queueVars
        BY <1>2, <3>5 DEF queueVars
      <3> QED
        BY <1>2, <3>1, <3>2, <3>3, <3>4, <3>5 DEF Next
    <2> QED
      BY <2>1, <2>2, <2>3
  <1> QED
    BY <1>1, <1>2

\* The queue keeps its invariant in every step of its own.
LEMMA QueueStep == QueueInv /\ [Next]_queueVars => QueueInv'
  BY QueueNextType, NextWindow, NextReturning DEF QueueInv

\* Nothing is in the list, in a flush or returned for at first.
LEMMA QueueInitInv == QueueInit => QueueInv
  <1> SUFFICES ASSUME QueueInit PROVE QueueInv
    OBVIOUS
  <1> USE DEF QueueInit
  <1>1. Closed \in BreakerStates
    BY QueueAssumption DEF QueueAssumption, BreakerStates, Closed
  <1>2. <<>> \in Seq(Msgs) /\ Len(<<>>) <= ReadMax
    BY QueueAssumption DEF QueueAssumption
  <1>3. QueueTypeOK
    BY <1>1, <1>2, QueueAssumption DEF QueueAssumption, QueueTypeOK
  <1>4. Resting /\ Window /\ Overlap /\ Returning
    BY DEF Resting, Window, Overlap, Returning, InWindow
  <1> QED
    BY <1>3, <1>4 DEF QueueInv

\* queueMessage and flushMessageQueue lose a message only to a fault or to the race
\* at the LTRIM, for any number of flushing threads and any size of their batches.
THEOREM QueueLosesOnlyInRaces == Spec => []LossNeedsOverlap
  <1>1. QueueInv => LossNeedsOverlap
    BY DEF QueueInv, Returning, LossNeedsOverlap, Lost, Returned, Kept
  <1> QED
    BY <1>1, QueueInitInv, QueueStep, PTL DEF Spec

-------------------------------------------------------------------------------
(* ChatIngest: what its steps do to the queue.                             *)

\* A step that saves a file message, or starts the process again, does to the queue
\* nothing that could lose a message.
LEMMA Beside ==
  ASSUME QueueInv, UNCHANGED <<queue, pc, batch, tally, exposed>>,
         rows \subseteq rows', dropped \subseteq dropped',
         rows' \subseteq Msgs, dropped' \subseteq Msgs, faults' \in 0..MaxFaults,
         stage' \in [Msgs -> {"new", "direct", "done", "gone"}],
         breaker' \in [Breakers -> BreakerStates],
         \A m \in Msgs : /\ stage[m] = "done" => stage'[m] = "done"
                         /\ stage'[m] = "done" => stage[m] = "done" \/ m \in rows' \cup dropped'
  PROVE  /\ QueueInv'
         /\ \A m \in Msgs : /\ Kept(m) => Kept(m)'
                            /\ stage[m] = "done" => stage'[m] = "done"
  <1>1. QueueTypeOK'
    BY DEF QueueInv, QueueTypeOK
  <1>2. Resting' /\ Window' /\ Overlap'
    BY DEF QueueInv, Resting, Window, Overlap, InWindow
  <1>3. \A m \in Msgs : Kept(m) => Kept(m)'
    BY DEF Kept, Held
  <1>4. Returning'
    BY <1>3 DEF QueueInv, Returning, Kept
  <1> QED
    BY <1>1, <1>2, <1>3, <1>4 DEF QueueInv

\* Every step of the ingest keeps what the queue promises.
LEMMA IngestQueue ==
  ASSUME QueueInv, [IngestNext]_vars
  PROVE  /\ QueueInv'
         /\ \A m \in Msgs : /\ Kept(m) => Kept(m)'
                            /\ stage[m] = "done" => stage'[m] = "done"
  <1> DEFINE G == /\ QueueInv'
                  /\ \A m \in Msgs : /\ Kept(m) => Kept(m)'
                                     /\ stage[m] = "done" => stage'[m] = "done"
  <1>0. ASSUME [Next]_queueVars PROVE G
    <2>1. QueueInv'
      BY <1>0, QueueStep
    <2>2. \A m \in Msgs : Kept(m) => Kept(m)'
      BY <1>0, KeptStays
    <2>3. ASSUME NEW m \in Msgs, stage[m] = "done" PROVE stage'[m] = "done"
      <3> USE <2>3 DEF QueueInv, QueueTypeOK
      <3>1. ASSUME NEW n \in Msgs, QueueMessage(n) PROVE stage'[m] = "done"
        BY <3>1 DEF QueueMessage, Push, PushIgnored, Degrade, DirectSave
      <3>2. ASSUME NEW f \in Flushers, Flush(f) PROVE stage'[m] = "done"
        BY <3>2 DEF Flush, Read, Trim, TrimIgnored, Insert, Finish
      <3>3. ASSUME NEW b \in Breakers, Timeout(b) PROVE stage'[m] = "done"
        BY <3>3 DEF Timeout
      <3>4. CASE QueueCrash
        BY <3>4 DEF QueueCrash
      <3>5. CASE UNCHANGED queueVars
        BY <3>5 DEF queueVars
      <3> QED
        BY <1>0, <3>1, <3>2, <3>3, <3>4, <3>5 DEF Next
    <2> QED
      BY <2>1, <2>2, <2>3
  <1> HIDE DEF G
  <1>1. ASSUME NEW m \in Msgs, FastPath(m) PROVE G
    <2>1. UNCHANGED queueVars
      BY <1>1 DEF FastPath, ReceiveDuplicate, ReceiveBlocked, Receive
    <2> QED
      BY <1>0, <2>1
  <1>2. ASSUME NEW w \in Workers, Persist(w) PROVE G
    <2>1. PICK m \in Running(w) \ Files : QueueMessage(m)
      BY <1>2 DEF Persist
    <2>2. m \in Msgs
      BY DEF Running
    <2>3. Next
      BY <2>1, <2>2 DEF Next
    <2> QED
      BY <1>0, <2>3
  <1>3. ASSUME NEW w \in Workers, PersistFile(w) PROVE G
    <2>1. PICK m \in Running(w) \cap Files :
            /\ stage[m] = "new"
            /\ stage' = [stage EXCEPT ![m] = "done"]
            /\ \/ rows' = rows \cup {m} /\ UNCHANGED <<faults, dropped>>
               \/ Fault /\ dropped' = dropped \cup {m} /\ UNCHANGED rows
      BY <1>3 DEF PersistFile
    <2>2. m \in Msgs /\ UNCHANGED <<queue, pc, batch, tally, breaker, exposed>>
      BY <1>3, <2>1 DEF PersistFile, Running
    <2>3. /\ rows \subseteq rows' /\ dropped \subseteq dropped'
          /\ rows' \subseteq Msgs /\ dropped' \subseteq Msgs /\ faults' \in 0..MaxFaults
          /\ m \in rows' \cup dropped'
      BY <2>1, <2>2, QueueAssumption DEF QueueInv, QueueTypeOK, Fault, QueueAssumption
    <2>4. /\ stage' \in [Msgs -> {"new", "direct", "done", "gone"}]
          /\ \A n \in Msgs : stage'[n] = IF n = m THEN "done" ELSE stage[n]
      BY <2>1, <2>2 DEF QueueInv, QueueTypeOK
    <2>5. breaker' \in [Breakers -> BreakerStates]
      BY <2>2 DEF QueueInv, QueueTypeOK
    <2> QED
      BY <2>2, <2>3, <2>4, <2>5, Beside DEF G
  <1>4. ASSUME NEW w \in Workers, Forward(w) PROVE G
    BY <1>0, <1>4 DEF Forward
  <1>5. ASSUME Background PROVE G
    <2>1. Next
      BY <1>5 DEF Background, Next
    <2> QED
      BY <1>0, <2>1
  <1>6. ASSUME Crash PROVE G
    <2>1. Next
      BY <1>6 DEF Crash, Next
    <2> QED
      BY <1>0, <2>1
  <1>7. ASSUME Restart PROVE G
    <2>1. Closed \in BreakerStates
      BY QueueAssumption DEF QueueAssumption, BreakerStates, Closed
    <2>2. /\ UNCHANGED <<stage, queue, rows, pc, batch, tally, faults, dropped, exposed>>
          /\ breaker' \in [Breakers -> BreakerStates]
      BY <1>7, <2>1 DEF Restart
    <2>3. /\ rows \subseteq Msgs /\ dropped \subseteq Msgs /\ faults \in 0..MaxFaults
          /\ stage \in [Msgs -> {"new", "direct", "done", "gone"}]
      BY DEF QueueInv, QueueTypeOK
    <2> QED
      BY <2>2, <2>3, Beside DEF G
  <1>8. ASSUME UNCHANGED vars PROVE G
    BY <1>0, <1>8 DEF vars
  <1>9. G
    BY <1>1, <1>2, <1>3, <1>4, <1>5, <1>6, <1>7, <1>8 DEF IngestNext, SlowPath
  <1> QED
    BY <1>9 DEF G

-------------------------------------------------------------------------------
(* ChatIngest: types.                                                      *)

\* isDuplicate leaves a finite set of keys within its limit, and what it takes from
\* the set it counts as a reset.
LEMMA RememberMoves ==
  ASSUME NEW k \in Keys, Remember(k), k \notin recent, recent \subseteq Keys,
         IsFiniteSet(recent), resets \in Nat
  PROVE  /\ recent' \subseteq Keys /\ IsFiniteSet(recent') /\ Cardinality(recent') <= DedupMax
         /\ recent' \subseteq recent \cup {k} /\ resets' \in Nat
         /\ Credit(k)' >= Credit(k) + 1
         /\ \A j \in Keys : Credit(j)' >= Credit(j)
  <1> USE IngestAssumption DEF IngestAssumption
  <1>0. /\ IsFiniteSet(recent \cup {k}) /\ Cardinality(recent \cup {k}) \in Nat
        /\ IsFiniteSet({}) /\ Cardinality({}) = 0
    BY FS_AddElement, FS_CardinalityType, FS_EmptySet
  <1>1. CASE Cardinality(recent \cup {k}) > DedupMax
    <2>1. recent' = {} /\ resets' = resets + 1
      BY <1>1 DEF Remember
    <2> QED
      BY <1>0, <2>1 DEF Credit
  <1>2. CASE ~(Cardinality(recent \cup {k}) > DedupMax)
    <2>1. recent' = recent \cup {k} /\ resets' = resets
      BY <1>2 DEF Remember
    <2> QED
      BY <1>0, <1>2, <2>1 DEF Credit
  <1> QED
    BY <1>1, <1>2

\* A task queue that takes a task is within its limit.
LEMMA SubmitMoves ==
  ASSUME IngestTypeOK, NEW m \in Msgs, Submit(m)
  PROVE  /\ tasks' \in [Workers -> Seq(Msgs)]
         /\ \A w \in Workers : Len(tasks'[w]) <= TasksMax
         /\ accepted' \in Seq(Msgs)
         /\ reply' \in [Msgs -> {"none", "ack", "duplicate", "busy", "blocked"}]
  <1> USE IngestAssumption DEF IngestAssumption, IngestTypeOK
  <1>0. Worker(m) \in Workers
    BY DEF Worker
  <1>1. CASE Len(tasks[Worker(m)]) < TasksMax
    <2>1. /\ tasks' = [tasks EXCEPT ![Worker(m)] = Append(tasks[Worker(m)], m)]
          /\ accepted' = Append(accepted, m) /\ UNCHANGED reply
      BY <1>1 DEF Submit
    <2>2. /\ Append(tasks[Worker(m)], m) \in Seq(Msgs)
          /\ Len(Append(tasks[Worker(m)], m)) <= TasksMax
      BY <1>0, <1>1
    <2> QED
      BY <1>0, <2>1, <2>2
  <1>2. CASE ~(Len(tasks[Worker(m)]) < TasksMax)
    BY <1>2 DEF Submit
  <1> QED
    BY <1>1, <1>2

\* The task a worker is busy with.
LEMMA RunningIs ==
  ASSUME IngestTypeOK, NEW w \in Workers, NEW m \in Running(w)
  PROVE  m \in Msgs /\ tasks[w] \in Seq(Msgs) /\ tasks[w] # <<>> /\ Head(tasks[w]) = m
  BY DEF Running, IngestTypeOK

\* The types of the variables that the ingest adds.
IngestTypes ==
  /\ recent \subseteq Keys /\ Cardinality(recent) <= DedupMax /\ IsFiniteSet(recent)
  /\ tasks \in [Workers -> Seq(Msgs)]
  /\ \A w \in Workers : Len(tasks[w]) <= TasksMax
  /\ reply \in [Msgs -> {"none", "ack", "duplicate", "busy", "blocked"}]
  /\ accepted \in Seq(Msgs)
  /\ forwarded \in Seq(Msgs)
  /\ reach \in [Msgs -> {"none", "sessions", "unread", "nobody"}]
  /\ restarts \in 0..MaxRestarts
  /\ resets \in Nat
  /\ killed \subseteq Msgs

\* Every step of the ingest keeps them.
LEMMA IngestNextType ==
  ASSUME IngestTypeOK, IsFiniteSet(recent), [IngestNext]_vars
  PROVE  IngestTypes'
  <1>0. IngestTypes
    BY DEF IngestTypeOK, IngestTypes
  <1> USE DEF IngestTypes
  <1>e. IsFiniteSet({}) /\ Cardinality({}) <= DedupMax
    BY FS_EmptySet, IngestAssumption DEF IngestAssumption
  <1>k. \A m \in Msgs : KeyOf[m] \in Keys
    BY DEF Keys
  <1>1. ASSUME NEW m \in Msgs, ReceiveDuplicate(m) PROVE IngestTypes'
    BY <1>0, <1>1 DEF ReceiveDuplicate
  <1>2. ASSUME NEW m \in Msgs, ReceiveBlocked(m) PROVE IngestTypes'
    <2>1. KeyOf[m] \notin recent
      BY <1>2, IngestAssumption DEF ReceiveBlocked, Duplicate, IngestAssumption
    <2>2. /\ recent' \subseteq Keys /\ IsFiniteSet(recent') /\ Cardinality(recent') <= DedupMax
          /\ resets' \in Nat
      BY <1>0, <1>2, <1>k, <2>1, RememberMoves DEF ReceiveBlocked
    <2> QED
      BY <1>0, <1>2, <2>2 DEF ReceiveBlocked
  <1>3. ASSUME NEW m \in Msgs, Receive(m) PROVE IngestTypes'
    <2>1. /\ tasks' \in [Workers -> Seq(Msgs)]
          /\ \A w \in Workers : Len(tasks'[w]) <= TasksMax
          /\ accepted' \in Seq(Msgs)
          /\ reply' \in [Msgs -> {"none", "ack", "duplicate", "busy", "blocked"}]
      BY <1>3, SubmitMoves DEF Receive
    <2>2. /\ recent' \subseteq Keys /\ IsFiniteSet(recent') /\ Cardinality(recent') <= DedupMax
          /\ resets' \in Nat
      <3>1. CASE m \in Files
        BY <1>0, <1>3, <3>1 DEF Receive
      <3>2. CASE m \notin Files
        <4>1. KeyOf[m] \notin recent /\ Remember(KeyOf[m])
          BY <1>3, <3>2 DEF Receive, Duplicate
        <4> QED
          BY <1>0, <1>k, <4>1, RememberMoves
      <3> QED
        BY <3>1, <3>2
    <2> QED
      BY <1>0, <1>3, <2>1, <2>2 DEF Receive
  <1>4. ASSUME NEW w \in Workers, Persist(w) \/ PersistFile(w) PROVE IngestTypes'
    BY <1>0, <1>4 DEF Persist, PersistFile, ingestVars
  <1>5. ASSUME NEW w \in Workers, Forward(w) PROVE IngestTypes'
    <2>1. PICK m \in Running(w) :
            /\ reply' = [reply EXCEPT ![m] = "ack"]
            /\ forwarded' = Append(forwarded, m)
            /\ \E how \in {"sessions", IF m \in Files \cup Groups THEN "nobody" ELSE "unread"} :
                 reach' = [reach EXCEPT ![m] = how]
            /\ tasks' = [tasks EXCEPT ![w] = Tail(tasks[w])]
      BY <1>5 DEF Forward
    <2>2. m \in Msgs /\ tasks[w] \in Seq(Msgs) /\ tasks[w] # <<>>
      BY RunningIs
    <2>3. Tail(tasks[w]) \in Seq(Msgs) /\ Len(Tail(tasks[w])) <= TasksMax
      BY <1>0, <2>2, IngestAssumption DEF IngestAssumption
    <2>4. /\ tasks' \in [Workers -> Seq(Msgs)]
          /\ \A v \in Workers : Len(tasks'[v]) <= TasksMax
      BY <1>0, <2>1, <2>3
    <2>5. forwarded' \in Seq(Msgs)
      BY <1>0, <2>1, <2>2
    <2>6. /\ reply' \in [Msgs -> {"none", "ack", "duplicate", "busy", "blocked"}]
          /\ reach' \in [Msgs -> {"none", "sessions", "unread", "nobody"}]
      BY <1>0, <2>1, <2>2
    <2> QED
      BY <1>0, <1>5, <2>4, <2>5, <2>6 DEF Forward
  <1>6. CASE Background \/ UNCHANGED vars
    BY <1>0, <1>6 DEF Background, ingestVars, vars
  <1>7. CASE Crash
    <2>1. \A w \in Workers : tasks'[w] = <<>>
      BY <1>7 DEF Crash
    <2>2. <<>> \in Seq(Msgs) /\ Len(<<>>) <= TasksMax
      BY IngestAssumption DEF IngestAssumption
    <2>3. /\ tasks' \in [Workers -> Seq(Msgs)]
          /\ \A w \in Workers : Len(tasks'[w]) <= TasksMax
      BY <1>7, <2>1, <2>2 DEF Crash
    <2>4. \A w \in Workers : ToSet(tasks[w]) \subseteq Msgs
      BY <1>0, InSeq
    <2>5. killed' \subseteq Msgs
      BY <1>0, <1>7, <2>4 DEF Crash
    <2> QED
      BY <1>0, <1>7, <1>e, <2>3, <2>5 DEF Crash
  <1>8. CASE Restart
    BY <1>0, <1>8, <1>e, IngestAssumption DEF Restart, IngestAssumption
  <1> QED
    BY <1>1, <1>2, <1>3, <1>4, <1>5, <1>6, <1>7, <1>8 DEF IngestNext, FastPath, SlowPath

-------------------------------------------------------------------------------
(* ChatIngest: what an ack stands for.                                     *)

\* What the queue's invariant says in the words of the ingest's.
LEMMA QueueInvIs == Inv => QueueInv
  BY DEF Inv, IngestTypeOK, QueueInv

\* A task that entered a worker's queue is forwarded after the message was
\* persisted, or the crash that takes it is known.
LEMMA TaskEnds ==
  ASSUME Inv, [IngestNext]_vars, NEW n \in Msgs, n \in Queued
  PROVE  Kept(n)' \/ n \in (Queued \cup killed)'
  <1>0. PICK v \in Workers : n \in ToSet(tasks[v])
    BY DEF Queued
  <1>t. tasks \in [Workers -> Seq(Msgs)] /\ IngestTypeOK
    BY DEF Inv, IngestTypeOK
  <1>1. ASSUME UNCHANGED tasks PROVE n \in Queued'
    BY <1>0, <1>1 DEF Queued
  <1>2. ASSUME NEW m \in Msgs, Receive(m) PROVE n \in Queued'
    <2>1. CASE Len(tasks[Worker(m)]) < TasksMax
      <3>1. tasks' = [tasks EXCEPT ![Worker(m)] = Append(tasks[Worker(m)], m)]
        BY <1>2, <2>1 DEF Receive, Submit
      <3>2. Worker(m) \in Workers
        BY IngestAssumption DEF IngestAssumption, Worker
      <3>3. ToSet(Append(tasks[Worker(m)], m)) = ToSet(tasks[Worker(m)]) \cup {m}
        BY <1>t, <3>2, AppendSet
      <3>4. tasks'[v] = IF v = Worker(m) THEN Append(tasks[Worker(m)], m) ELSE tasks[v]
        BY <1>t, <3>1, <3>2
      <3>5. n \in ToSet(tasks'[v])
        BY <1>0, <3>3, <3>4
      <3> QED
        BY <3>5 DEF Queued
    <2>2. CASE ~(Len(tasks[Worker(m)]) < TasksMax)
      BY <1>1, <1>2, <2>2 DEF Receive, Submit
    <2> QED
      BY <2>1, <2>2
  <1>3. ASSUME NEW w \in Workers, Forward(w) PROVE Kept(n)' \/ n \in Queued'
    <2>1. PICK m \in Running(w) :
            stage[m] = "done" /\ tasks' = [tasks EXCEPT ![w] = Tail(tasks[w])]
      BY <1>3 DEF Forward
    <2>2. m \in Msgs /\ tasks[w] \in Seq(Msgs) /\ tasks[w] # <<>> /\ Head(tasks[w]) = m
      BY <1>t, RunningIs
    <2>3. ToSet(tasks[w]) = ToSet(Tail(tasks[w])) \cup {m}
      BY <2>2, TailSet
    <2>4. tasks'[v] = IF v = w THEN Tail(tasks[w]) ELSE tasks[v]
      BY <1>t, <2>1
    <2>5. CASE n = m
      <3>1. Kept(m)
        BY <2>1, <2>2 DEF Inv, Returning
      <3> QED
        BY <2>5, <3>1, QueueInvIs, IngestQueue
    <2>6. CASE n # m
      <3>1. n \in ToSet(tasks'[v])
        BY <1>0, <2>3, <2>4, <2>6
      <3> QED
        BY <3>1 DEF Queued
    <2> QED
      BY <2>5, <2>6
  <1>4. ASSUME Crash PROVE n \in killed'
    BY <1>0, <1>4 DEF Crash
  <1>5. ASSUME NEW m \in Msgs, ReceiveDuplicate(m) \/ ReceiveBlocked(m) PROVE UNCHANGED tasks
    BY <1>5 DEF ReceiveDuplicate, ReceiveBlocked
  <1>6. ASSUME NEW w \in Workers, Persist(w) \/ PersistFile(w) PROVE UNCHANGED tasks
    BY <1>6 DEF Persist, PersistFile, ingestVars
  <1>7. ASSUME Background \/ Restart \/ UNCHANGED vars PROVE UNCHANGED tasks
    BY <1>7 DEF Background, Restart, vars, ingestVars
  <1> QED
    BY <1>1, <1>2, <1>3, <1>4, <1>5, <1>6, <1>7 DEF IngestNext, FastPath, SlowPath

\* An answer is final, but for the ack of a message that is kept.
LEMMA AnswerStays ==
  ASSUME Inv, [IngestNext]_vars, NEW n \in Msgs, reply[n] # "none"
  PROVE  reply'[n] = reply[n] \/ (reply'[n] = "ack" /\ stage[n] = "done")
  <1>t. reply \in [Msgs -> {"none", "ack", "duplicate", "busy", "blocked"}] /\ IngestTypeOK
    BY DEF Inv, IngestTypeOK
  <1>1. ASSUME NEW m \in Msgs, FastPath(m) PROVE reply'[n] = reply[n]
    <2>1. reply[m] = "none"
      BY <1>1 DEF FastPath, ReceiveDuplicate, ReceiveBlocked, Receive, Fresh
    <2>2. \/ reply' = reply
          \/ \E a \in {"duplicate", "blocked", "busy"} : reply' = [reply EXCEPT ![m] = a]
      BY <1>1 DEF FastPath, ReceiveDuplicate, ReceiveBlocked, Receive, Submit
    <2> QED
      BY <1>t, <2>1, <2>2
  <1>2. ASSUME NEW w \in Workers, Forward(w)
        PROVE  reply'[n] = reply[n] \/ (reply'[n] = "ack" /\ stage[n] = "done")
    <2>1. PICK m \in Running(w) : stage[m] = "done" /\ reply' = [reply EXCEPT ![m] = "ack"]
      BY <1>2 DEF Forward
    <2> QED
      BY <1>t, <2>1
  <1>3. ASSUME NEW w \in Workers, Persist(w) \/ PersistFile(w) PROVE reply' = reply
    BY <1>3 DEF Persist, PersistFile, ingestVars
  <1>4. ASSUME Background \/ Crash \/ Restart \/ UNCHANGED vars PROVE reply' = reply
    BY <1>4 DEF Background, Crash, Restart, vars, ingestVars
  <1> QED
    BY <1>1, <1>2, <1>3, <1>4 DEF IngestNext, SlowPath

\* A key that is explained stays explained.
LEMMA ExplainedStays ==
  ASSUME Inv, [IngestNext]_vars, NEW k, Explained(k)
  PROVE  Explained(k)'
  <1>0. PICK n \in Msgs : /\ KeyOf[n] = k
                          /\ \/ Kept(n) \/ n \in Queued \cup killed
                             \/ reply[n] \in {"busy", "blocked"}
    BY DEF Explained
  <1> SUFFICES Kept(n)' \/ n \in (Queued \cup killed)' \/ reply'[n] \in {"busy", "blocked"}
    BY <1>0 DEF Explained
  <1>s. Kept(n) => Kept(n)'
    BY QueueInvIs, IngestQueue
  <1>1. CASE Kept(n)
    BY <1>1, <1>s
  <1>2. CASE n \in Queued
    BY <1>2, TaskEnds
  <1>3. CASE n \in killed
    <2>1. killed \subseteq killed'
      <3>1. ASSUME NEW m \in Msgs, FastPath(m) PROVE killed' = killed
        BY <3>1 DEF FastPath, ReceiveDuplicate, ReceiveBlocked, Receive
      <3>2. ASSUME NEW w \in Workers, SlowPath(w) PROVE killed' = killed
        BY <3>2 DEF SlowPath, Persist, PersistFile, Forward, ingestVars
      <3>3. CASE Crash
        BY <3>3 DEF Crash
      <3>4. ASSUME Background \/ Restart \/ UNCHANGED vars PROVE killed' = killed
        BY <3>4 DEF Background, Restart, vars, ingestVars
      <3> QED
        BY <3>1, <3>2, <3>3, <3>4 DEF IngestNext
    <2> QED
      BY <1>3, <2>1
  <1>4. CASE reply[n] \in {"busy", "blocked"}
    <2>1. reply'[n] = reply[n] \/ stage[n] = "done"
      BY <1>4, AnswerStays
    <2>2. stage[n] = "done" => Kept(n)
      BY DEF Inv, Returning
    <2> QED
      BY <1>4, <1>s, <2>1, <2>2
  <1> QED
    BY <1>0, <1>1, <1>2, <1>3, <1>4

\* Keys enter the set with a message that is queued, refused or blocked.
LEMMA NewKeys ==
  ASSUME Inv, [IngestNext]_vars, NEW k \in recent'
  PROVE  k \in recent \/ Explained(k)'
  <1>t. /\ reply \in [Msgs -> {"none", "ack", "duplicate", "busy", "blocked"}]
        /\ tasks \in [Workers -> Seq(Msgs)] /\ IngestTypeOK
    BY DEF Inv, IngestTypeOK
  <1>r. ASSUME NEW j, Remember(j) PROVE recent' \subseteq recent \cup {j}
    BY <1>r DEF Remember
  <1>1. ASSUME NEW m \in Msgs, ReceiveBlocked(m) PROVE k \in recent \/ Explained(k)'
    <2>1. recent' \subseteq recent \cup {KeyOf[m]}
      BY <1>1, <1>r DEF ReceiveBlocked
    <2>2. reply'[m] = "blocked"
      BY <1>t, <1>1 DEF ReceiveBlocked
    <2>3. Explained(KeyOf[m])'
      BY <2>2 DEF Explained
    <2> QED
      BY <2>1, <2>3
  <1>2. ASSUME NEW m \in Msgs, Receive(m) PROVE k \in recent \/ Explained(k)'
    <2>1. recent' \subseteq recent \cup {KeyOf[m]}
      <3>1. CASE m \in Files
        BY <1>2, <3>1 DEF Receive
      <3>2. CASE m \notin Files
        BY <1>2, <1>r, <3>2 DEF Receive
      <3> QED
        BY <3>1, <3>2
    <2>2. CASE Len(tasks[Worker(m)]) < TasksMax
      <3>1. tasks' = [tasks EXCEPT ![Worker(m)] = Append(tasks[Worker(m)], m)]
        BY <1>2, <2>2 DEF Receive, Submit
      <3>2. Worker(m) \in Workers
        BY IngestAssumption DEF IngestAssumption, Worker
      <3>3. m \in ToSet(Append(tasks[Worker(m)], m))
        BY <1>t, <3>2, AppendSet
      <3>4. tasks'[Worker(m)] = Append(tasks[Worker(m)], m)
        BY <1>t, <3>1, <3>2
      <3>5. m \in Queued'
        BY <3>2, <3>3, <3>4 DEF Queued
      <3>6. Explained(KeyOf[m])'
        BY <3>5 DEF Explained
      <3> QED
        BY <2>1, <3>6
    <2>3. CASE ~(Len(tasks[Worker(m)]) < TasksMax)
      <3>1. reply'[m] = "busy"
        BY <1>t, <1>2, <2>3 DEF Receive, Submit
      <3>2. Explained(KeyOf[m])'
        BY <3>1 DEF Explained
      <3> QED
        BY <2>1, <3>2
    <2> QED
      BY <2>2, <2>3
  <1>3. ASSUME NEW m \in Msgs, ReceiveDuplicate(m) PROVE k \in recent
    BY <1>3 DEF ReceiveDuplicate
  <1>4. ASSUME NEW w \in Workers, SlowPath(w) PROVE k \in recent
    BY <1>4 DEF SlowPath, Persist, PersistFile, Forward, ingestVars
  <1>5. ASSUME Background \/ Crash \/ Restart \/ UNCHANGED vars PROVE k \in recent
    BY <1>5 DEF Background, Crash, Restart, vars, ingestVars
  <1> QED
    BY <1>1, <1>2, <1>3, <1>4, <1>5 DEF IngestNext, FastPath

\* Answers and keys stay explained.
LEMMA NextExplains == Inv /\ [IngestNext]_vars => Explains'
  <1> SUFFICES ASSUME Inv, [IngestNext]_vars PROVE Explains'
    OBVIOUS
  <1>t. /\ reply \in [Msgs -> {"none", "ack", "duplicate", "busy", "blocked"}] /\ IngestTypeOK
        /\ Explains
    BY DEF Inv, IngestTypeOK
  <1>1. ASSUME NEW k \in recent' PROVE Explained(k)'
    BY <1>t, NewKeys, ExplainedStays DEF Explains
  <1>2. ASSUME NEW m \in Msgs, reply'[m] = "ack" PROVE stage'[m] = "done"
    <2>1. stage[m] = "done" => stage'[m] = "done"
      BY QueueInvIs, IngestQueue
    <2>2. CASE reply[m] # "none"
      <3>1. reply[m] = "ack" \/ stage[m] = "done"
        BY <1>2, <2>2, AnswerStays
      <3> QED
        BY <1>t, <2>1, <3>1 DEF Explains
    <2>3. CASE reply[m] = "none"
      <3>1. ASSUME NEW n \in Msgs, FastPath(n) PROVE FALSE
        <4>1. \/ reply' = reply
              \/ \E a \in {"duplicate", "blocked", "busy"} : reply' = [reply EXCEPT ![n] = a]
          BY <3>1 DEF FastPath, ReceiveDuplicate, ReceiveBlocked, Receive, Submit
        <4> QED
          BY <1>t, <1>2, <2>3, <4>1
      <3>2. ASSUME NEW w \in Workers, Forward(w) PROVE stage[m] = "done"
        <4>1. PICK n \in Running(w) : stage[n] = "done" /\ reply' = [reply EXCEPT ![n] = "ack"]
          BY <3>2 DEF Forward
        <4> QED
          BY <1>t, <1>2, <2>3, <4>1
      <3>3. ASSUME NEW w \in Workers, Persist(w) \/ PersistFile(w) PROVE FALSE
        BY <1>2, <2>3, <3>3 DEF Persist, PersistFile, ingestVars
      <3>4. ASSUME Background \/ Crash \/ Restart \/ UNCHANGED vars PROVE FALSE
        BY <1>2, <2>3, <3>4 DEF Background, Crash, Restart, vars, ingestVars
      <3> QED
        BY <2>1, <3>1, <3>2, <3>3, <3>4 DEF IngestNext, SlowPath
    <2> QED
      BY <2>2, <2>3
  <1>3. ASSUME NEW m \in Msgs, reply'[m] = "duplicate" PROVE Explained(KeyOf[m])'
    <2>1. CASE reply[m] = "duplicate"
      BY <1>t, <2>1, ExplainedStays DEF Explains
    <2>2. CASE reply[m] # "none" /\ reply[m] # "duplicate"
      BY <1>3, <2>2, AnswerStays
    <2>3. CASE reply[m] = "none"
      <3>1. ASSUME NEW n \in Msgs, ReceiveDuplicate(n) PROVE KeyOf[m] \in recent
        <4>1. reply' = [reply EXCEPT ![n] = "duplicate"] /\ KeyOf[n] \in recent
          BY <3>1 DEF ReceiveDuplicate, Duplicate
        <4> QED
          BY <1>t, <1>3, <2>3, <4>1
      <3>2. ASSUME NEW n \in Msgs, ReceiveBlocked(n) \/ Receive(n) PROVE FALSE
        <4>1. \/ reply' = reply
              \/ \E a \in {"blocked", "busy"} : reply' = [reply EXCEPT ![n] = a]
          BY <3>2 DEF ReceiveBlocked, Receive, Submit
        <4> QED
          BY <1>t, <1>3, <2>3, <4>1
      <3>3. ASSUME NEW w \in Workers, Forward(w) PROVE FALSE
        <4>1. PICK n \in Running(w) : reply' = [reply EXCEPT ![n] = "ack"]
          BY <3>3 DEF Forward
        <4> QED
          BY <1>t, <1>3, <2>3, <4>1
      <3>4. ASSUME NEW w \in Workers, Persist(w) \/ PersistFile(w) PROVE FALSE
        BY <1>3, <2>3, <3>4 DEF Persist, PersistFile, ingestVars
      <3>5. ASSUME Background \/ Crash \/ Restart \/ UNCHANGED vars PROVE FALSE
        BY <1>3, <2>3, <3>5 DEF Background, Crash, Restart, vars, ingestVars
      <3>6. KeyOf[m] \in recent
        BY <3>1, <3>2, <3>3, <3>4, <3>5 DEF IngestNext, FastPath, SlowPath
      <3>7. Explained(KeyOf[m])
        BY <1>t, <3>6 DEF Explains
      <3> QED
        BY <3>7, ExplainedStays
    <2> QED
      BY <2>1, <2>2, <2>3
  <1> QED
    BY <1>1, <1>2, <1>3 DEF Explains

-------------------------------------------------------------------------------
(* ChatIngest: how often a message is accepted.                            *)

\* What a step does to the transmissions that were accepted.
LEMMA AcceptedMoves ==
  ASSUME [IngestNext]_vars
  PROVE  \/ accepted' = accepted
         \/ \E m \in Msgs : /\ Receive(m) /\ accepted' = Append(accepted, m)
                            /\ tasks' = [tasks EXCEPT ![Worker(m)] = Append(tasks[Worker(m)], m)]
  <1>1. ASSUME NEW m \in Msgs, Receive(m)
        PROVE  \/ accepted' = accepted
               \/ /\ accepted' = Append(accepted, m)
                  /\ tasks' = [tasks EXCEPT ![Worker(m)] = Append(tasks[Worker(m)], m)]
    BY <1>1 DEF Receive, Submit
  <1>2. ASSUME NEW m \in Msgs, ReceiveDuplicate(m) \/ ReceiveBlocked(m) PROVE accepted' = accepted
    BY <1>2 DEF ReceiveDuplicate, ReceiveBlocked
  <1>3. ASSUME NEW w \in Workers, SlowPath(w) PROVE accepted' = accepted
    BY <1>3 DEF SlowPath, Persist, PersistFile, Forward, ingestVars
  <1>4. ASSUME Background \/ Crash \/ Restart \/ UNCHANGED vars PROVE accepted' = accepted
    BY <1>4 DEF Background, Crash, Restart, vars, ingestVars
  <1> QED
    BY <1>1, <1>2, <1>3, <1>4 DEF IngestNext, FastPath

\* A key's credit never shrinks, and a transmission that passes the duplicate
\* check adds one to that of its key.
LEMMA CreditGrows ==
  ASSUME Inv, [IngestNext]_vars
  PROVE  /\ \A k \in Keys : Credit(k) \in Nat /\ Credit(k)' \in Nat /\ Credit(k)' >= Credit(k)
         /\ \A m \in Msgs \ Files : Receive(m) => Credit(KeyOf[m])' >= Credit(KeyOf[m]) + 1
  <1>t. recent \subseteq Keys /\ IsFiniteSet(recent) /\ resets \in Nat /\ IngestTypeOK
    BY DEF Inv, IngestTypeOK
  <1>k. \A m \in Msgs : KeyOf[m] \in Keys
    BY DEF Keys
  <1>n. resets' \in Nat
    BY <1>t, IngestNextType DEF IngestTypes
  <1>g. ASSUME NEW m \in Msgs, Remember(KeyOf[m]), KeyOf[m] \notin recent
        PROVE  /\ Credit(KeyOf[m])' >= Credit(KeyOf[m]) + 1
               /\ \A k \in Keys : Credit(k)' >= Credit(k)
    BY <1>t, <1>k, <1>g, RememberMoves
  <1>s. ASSUME UNCHANGED <<recent, resets>> PROVE \A k \in Keys : Credit(k)' >= Credit(k)
    BY <1>t, <1>s DEF Credit
  <1>0. ASSUME recent' = {}, resets' = resets + 1 PROVE \A k \in Keys : Credit(k)' >= Credit(k)
    BY <1>t, <1>0 DEF Credit
  <1>1. ASSUME NEW m \in Msgs \ Files, Receive(m)
        PROVE  /\ Credit(KeyOf[m])' >= Credit(KeyOf[m]) + 1
               /\ \A k \in Keys : Credit(k)' >= Credit(k)
    <2>1. Remember(KeyOf[m]) /\ KeyOf[m] \notin recent
      BY <1>1 DEF Receive, Duplicate
    <2> QED
      BY <1>g, <2>1
  <1>2. ASSUME NEW m \in Msgs \cap Files, Receive(m) PROVE \A k \in Keys : Credit(k)' >= Credit(k)
    <2>1. UNCHANGED <<recent, resets>>
      BY <1>2 DEF Receive
    <2> QED
      BY <1>s, <2>1
  <1>3. ASSUME NEW m \in Msgs, ReceiveBlocked(m) PROVE \A k \in Keys : Credit(k)' >= Credit(k)
    <2>1. Remember(KeyOf[m]) /\ KeyOf[m] \notin recent
      BY <1>3, IngestAssumption DEF ReceiveBlocked, Duplicate, IngestAssumption
    <2> QED
      BY <1>g, <2>1
  <1>4. ASSUME NEW m \in Msgs, ReceiveDuplicate(m) PROVE UNCHANGED <<recent, resets>>
    BY <1>4 DEF ReceiveDuplicate
  <1>5. ASSUME NEW w \in Workers, SlowPath(w) PROVE UNCHANGED <<recent, resets>>
    BY <1>5 DEF SlowPath, Persist, PersistFile, Forward, ingestVars
  <1>6. ASSUME Background \/ UNCHANGED vars PROVE UNCHANGED <<recent, resets>>
    BY <1>6 DEF Background, vars, ingestVars
  <1>7. ASSUME Crash \/ Restart PROVE recent' = {} /\ resets' = resets + 1
    BY <1>7 DEF Crash, Restart
  <1>8. ASSUME NEW m \in Msgs, Receive(m) PROVE \A k \in Keys : Credit(k)' >= Credit(k)
    BY <1>1, <1>2, <1>8
  <1>9. \A k \in Keys : Credit(k)' >= Credit(k)
    <2> DEFINE G == \A k \in Keys : Credit(k)' >= Credit(k)
    <2>1. UNCHANGED <<recent, resets>> => G
      BY <1>s
    <2>2. recent' = {} /\ resets' = resets + 1 => G
      BY <1>0
    <2>3. \A m \in Msgs : ReceiveBlocked(m) \/ Receive(m) => G
      BY <1>3, <1>8
    <2> HIDE DEF G
    <2>4. G
      BY <1>4, <1>5, <1>6, <1>7, <2>1, <2>2, <2>3 DEF IngestNext, FastPath
    <2> QED
      BY <2>4 DEF G
  <1>10. ASSUME NEW k \in Keys PROVE Credit(k) \in Nat /\ Credit(k)' \in Nat
    <2>0. \A r \in Nat : r + 1 \in Nat /\ r + 0 \in Nat
      OBVIOUS
    <2>1. resets + 1 \in Nat /\ resets + 0 \in Nat /\ resets' + 1 \in Nat /\ resets' + 0 \in Nat
      BY <1>t, <1>n, <2>0, Zenon
    <2>2. Credit(k) = resets + 1 \/ Credit(k) = resets + 0
      BY DEF Credit
    <2>3. Credit(k)' = resets' + 1 \/ Credit(k)' = resets' + 0
      BY DEF Credit
    <2> QED
      BY <2>1, <2>2, <2>3
  <1> QED
    BY <1>1, <1>9, <1>10

\* The transmissions of a key stay within its credit.
LEMMA NextAccepted == Inv /\ [IngestNext]_vars => AcceptedOnce'
  <1> SUFFICES ASSUME Inv, [IngestNext]_vars, NEW k \in Keys
               PROVE  IsFiniteSet(AcceptedOf(k)') /\ Cardinality(AcceptedOf(k)') <= Credit(k)'
    BY DEF AcceptedOnce
  <1>0. /\ IsFiniteSet(AcceptedOf(k)) /\ Cardinality(AcceptedOf(k)) <= Credit(k)
        /\ accepted \in Seq(Msgs) /\ IngestTypeOK
    BY DEF Inv, AcceptedOnce, IngestTypeOK
  <1>c. Cardinality(AcceptedOf(k)) \in Nat
    BY <1>0, FS_CardinalityType
  <1>g. /\ Credit(k) \in Nat /\ Credit(k)' \in Nat /\ Credit(k)' >= Credit(k)
        /\ \A m \in Msgs \ Files : Receive(m) => Credit(KeyOf[m])' >= Credit(KeyOf[m]) + 1
    BY CreditGrows
  <1>1. ASSUME AcceptedOf(k)' = AcceptedOf(k)
        PROVE  IsFiniteSet(AcceptedOf(k)') /\ Cardinality(AcceptedOf(k)') <= Credit(k)'
    BY <1>0, <1>c, <1>g, <1>1
  <1>2. CASE accepted' = accepted
    <2>1. AcceptedOf(k)' = AcceptedOf(k)
      BY <1>2 DEF AcceptedOf
    <2> QED
      BY <1>1, <2>1
  <1>3. ASSUME NEW m \in Msgs, Receive(m), accepted' = Append(accepted, m)
        PROVE  IsFiniteSet(AcceptedOf(k)') /\ Cardinality(AcceptedOf(k)') <= Credit(k)'
    <2>1. ToSet(accepted') = ToSet(accepted) \cup {m}
      BY <1>0, <1>3, AppendSet
    <2>2. CASE m \in Files \/ KeyOf[m] # k
      <3>1. AcceptedOf(k)' = AcceptedOf(k)
        BY <2>1, <2>2 DEF AcceptedOf
      <3> QED
        BY <1>1, <3>1
    <2>3. CASE m \notin Files /\ KeyOf[m] = k
      <3>1. AcceptedOf(k)' = AcceptedOf(k) \cup {m}
        BY <2>1, <2>3 DEF AcceptedOf
      <3>2. /\ IsFiniteSet(AcceptedOf(k) \cup {m})
            /\ \/ Cardinality(AcceptedOf(k) \cup {m}) = Cardinality(AcceptedOf(k))
               \/ Cardinality(AcceptedOf(k) \cup {m}) = Cardinality(AcceptedOf(k)) + 1
        BY <1>0, FS_AddElement
      <3>3. Credit(k)' >= Credit(k) + 1
        BY <1>g, <1>3, <2>3
      <3> QED
        BY <1>0, <1>c, <1>g, <3>1, <3>2, <3>3
    <2> QED
      BY <2>2, <2>3
  <1> QED
    BY <1>2, <1>3, AcceptedMoves

-------------------------------------------------------------------------------
(* ChatIngest: the order of a lane.                                        *)

\* Acceptance only extends the order.
LEMMA BeforeGrows ==
  ASSUME accepted \in Seq(Msgs), NEW m \in Msgs, accepted' = Append(accepted, m)
  PROVE  /\ \A x, y : Before(accepted, x, y) => Before(accepted', x, y)
         /\ \A x \in ToSet(accepted) : Before(accepted', x, m)
         /\ ToSet(accepted') = ToSet(accepted) \cup {m}
  <1> DEFINE r == Append(accepted, m)
  <1>1. /\ Len(accepted) \in Nat /\ DOMAIN accepted = 1..Len(accepted)
        /\ DOMAIN r = 1..(Len(accepted) + 1)
        /\ \A i \in 1..Len(accepted) : r[i] = accepted[i]
        /\ r[Len(accepted) + 1] = m
    OBVIOUS
  <1>2. accepted' = r
    OBVIOUS
  <1> HIDE DEF r
  <1>3. ASSUME NEW x, NEW y, Before(accepted, x, y) PROVE Before(accepted', x, y)
    <2>1. PICK a \in DOMAIN accepted, b \in DOMAIN accepted :
            a < b /\ accepted[a] = x /\ accepted[b] = y
      BY <1>3 DEF Before
    <2>2. a \in DOMAIN r /\ b \in DOMAIN r /\ r[a] = x /\ r[b] = y
      BY <1>1, <2>1
    <2> QED
      BY <1>2, <2>1, <2>2 DEF Before
  <1>4. ASSUME NEW x \in ToSet(accepted) PROVE Before(accepted', x, m)
    <2>1. PICK a \in 1..Len(accepted) : accepted[a] = x
      BY InSeq
    <2>2. a \in DOMAIN r /\ Len(accepted) + 1 \in DOMAIN r /\ a < Len(accepted) + 1
      BY <1>1
    <2>3. r[a] = x /\ r[Len(accepted) + 1] = m
      BY <1>1, <2>1
    <2> QED
      BY <1>2, <2>2, <2>3 DEF Before
  <1>5. ToSet(accepted') = ToSet(accepted) \cup {m}
    BY AppendSet
  <1> QED
    BY <1>3, <1>4, <1>5

\* Task queues, what was forwarded and the order of lanes agree after every step
\* that forwards nothing.
LEMMA OrderUnforwarded ==
  ASSUME Inv, [IngestNext]_vars, UNCHANGED forwarded
  PROVE  TasksInOrder' /\ ForwardedWasAccepted' /\ LaneOrder'
  <1>t. /\ tasks \in [Workers -> Seq(Msgs)] /\ accepted \in Seq(Msgs) /\ forwarded \in Seq(Msgs)
        /\ TasksInOrder /\ ForwardedWasAccepted /\ LaneOrder
    BY DEF Inv, IngestTypeOK
  <1>b. \A i, j \in DOMAIN forwarded :
          i < j /\ LaneOf[forwarded[i]] = LaneOf[forwarded[j]] => Before(accepted, forwarded[i], forwarded[j])
    BY <1>t DEF LaneOrder, Before
  <1>1. ASSUME NEW m \in Msgs, accepted' = Append(accepted, m),
               tasks' = [tasks EXCEPT ![Worker(m)] = Append(tasks[Worker(m)], m)]
        PROVE  TasksInOrder' /\ ForwardedWasAccepted' /\ LaneOrder'
    <2>1. /\ \A x, y : Before(accepted, x, y) => Before(accepted', x, y)
          /\ \A x \in ToSet(accepted) : Before(accepted', x, m)
          /\ ToSet(accepted') = ToSet(accepted) \cup {m}
      BY <1>t, <1>1, BeforeGrows
    <2>2. ForwardedWasAccepted'
      BY <1>t, <2>1 DEF ForwardedWasAccepted
    <2>3. LaneOrder'
      <3>1. \A i, j \in DOMAIN forwarded' :
              i < j /\ LaneOf[forwarded'[i]] = LaneOf[forwarded'[j]]
              => Before(accepted', forwarded'[i], forwarded'[j])
        BY <1>b, <2>1
      <3> QED
        BY <3>1 DEF LaneOrder, Before
    <2>f. \A i \in DOMAIN forwarded : forwarded[i] \in ToSet(accepted)
      BY <1>t, InSeq DEF ForwardedWasAccepted
    <2>4. ASSUME NEW w \in Workers, NEW j \in DOMAIN tasks'[w]
          PROVE  /\ Worker(tasks'[w][j]) = w
                 /\ tasks'[w][j] \in ToSet(accepted')
                 /\ \A i \in 1..(j - 1) : Before(accepted', tasks'[w][i], tasks'[w][j])
                 /\ \A i \in DOMAIN forwarded :
                      Worker(forwarded[i]) = w => Before(accepted', forwarded[i], tasks'[w][j])
      <3>0. /\ Worker(m) \in Workers
            /\ tasks'[w] = IF w = Worker(m) THEN Append(tasks[w], m) ELSE tasks[w]
        BY <1>t, <1>1, IngestAssumption DEF IngestAssumption, Worker
      <3>1. /\ tasks[w] \in Seq(Msgs) /\ Len(tasks[w]) \in Nat
            /\ DOMAIN tasks[w] = 1..Len(tasks[w])
        BY <1>t
      <3>2. ASSUME NEW l \in DOMAIN tasks[w]
            PROVE  /\ Worker(tasks[w][l]) = w
                   /\ tasks[w][l] \in ToSet(accepted)
                   /\ \A i \in 1..(l - 1) : Before(accepted, tasks[w][i], tasks[w][l])
                   /\ \A i \in DOMAIN forwarded :
                        Worker(forwarded[i]) = w => Before(accepted, forwarded[i], tasks[w][l])
        BY <1>t DEF TasksInOrder
      <3>3. CASE w # Worker(m)
        BY <2>1, <3>0, <3>2, <3>3
      <3>4. CASE w = Worker(m)
        <4>1. /\ DOMAIN tasks'[w] = 1..(Len(tasks[w]) + 1)
              /\ \A i \in 1..Len(tasks[w]) : tasks'[w][i] = tasks[w][i]
              /\ tasks'[w][Len(tasks[w]) + 1] = m
          BY <3>0, <3>1, <3>4
        <4>2. CASE j \in 1..Len(tasks[w])
          <5>0. Len(tasks[w]) \in Nat /\ \A i \in 1..(j - 1) : i \in 1..Len(tasks[w])
            BY <3>1, <4>2
          <5>1. tasks'[w][j] = tasks[w][j] /\ \A i \in 1..(j - 1) : tasks'[w][i] = tasks[w][i]
            BY <4>1, <4>2, <5>0
          <5> QED
            BY <2>1, <3>1, <3>2, <4>2, <5>1
        <4>3. CASE j = Len(tasks[w]) + 1
          <5>1. tasks'[w][j] = m
            BY <4>1, <4>3
          <5>2. ASSUME NEW i \in 1..(j - 1) PROVE Before(accepted', tasks'[w][i], m)
            <6>1. i \in DOMAIN tasks[w] /\ tasks'[w][i] = tasks[w][i]
              BY <3>1, <4>1, <4>3
            <6> QED
              BY <2>1, <3>2, <6>1
          <5> QED
            BY <2>1, <2>f, <3>4, <5>1, <5>2
        <4> QED
          BY <3>1, <4>1, <4>2, <4>3
      <3> QED
        BY <3>3, <3>4
    <2>5. TasksInOrder'
      BY <2>4 DEF TasksInOrder
    <2> QED
      BY <2>2, <2>3, <2>5
  <1>2. ASSUME accepted' = accepted, tasks' = tasks
        PROVE  TasksInOrder' /\ ForwardedWasAccepted' /\ LaneOrder'
    BY <1>t, <1>2 DEF TasksInOrder, ForwardedWasAccepted, LaneOrder, Before
  <1>3. ASSUME Crash PROVE TasksInOrder' /\ ForwardedWasAccepted' /\ LaneOrder'
    <2>1. accepted' = accepted /\ \A w \in Workers : tasks'[w] = <<>>
      BY <1>3 DEF Crash
    <2>2. \A w \in Workers : DOMAIN tasks'[w] = {}
      BY <2>1
    <2>3. TasksInOrder'
      BY <2>2 DEF TasksInOrder
    <2> QED
      BY <1>t, <2>1, <2>3 DEF ForwardedWasAccepted, LaneOrder
  <1>4. ASSUME accepted' = accepted, ~Crash PROVE tasks' = tasks
    <2>1. ASSUME NEW m \in Msgs, Receive(m) PROVE tasks' = tasks
      <3>1. Len(Append(accepted, m)) = Len(accepted) + 1 /\ Len(accepted) \in Nat
        BY <1>t
      <3>2. accepted' # Append(accepted, m)
        BY <1>4, <3>1
      <3> QED
        BY <2>1, <3>2 DEF Receive, Submit
    <2>2. ASSUME NEW m \in Msgs, ReceiveDuplicate(m) \/ ReceiveBlocked(m) PROVE tasks' = tasks
      BY <2>2 DEF ReceiveDuplicate, ReceiveBlocked
    <2>3. ASSUME NEW w \in Workers, Forward(w) PROVE tasks' = tasks
      <3>1. PICK m \in Running(w) : forwarded' = Append(forwarded, m)
        BY <2>3 DEF Forward
      <3>2. Len(Append(forwarded, m)) = Len(forwarded) + 1 /\ Len(forwarded) \in Nat
        BY <1>t
      <3> QED
        BY <3>1, <3>2
    <2>4. ASSUME NEW w \in Workers, Persist(w) \/ PersistFile(w) PROVE tasks' = tasks
      BY <2>4 DEF Persist, PersistFile, ingestVars
    <2>5. ASSUME Background \/ Restart \/ UNCHANGED vars PROVE tasks' = tasks
      BY <2>5 DEF Background, Restart, vars, ingestVars
    <2> QED
      BY <1>4, <2>1, <2>2, <2>3, <2>4, <2>5 DEF IngestNext, FastPath, SlowPath
  <1> QED
    BY <1>1, <1>2, <1>3, <1>4, AcceptedMoves

\* The head of a task queue is forwarded after all that its worker forwarded before,
\* and before the rest of the queue.
LEMMA OrderForwarded ==
  ASSUME Inv, NEW w \in Workers, Forward(w)
  PROVE  TasksInOrder' /\ ForwardedWasAccepted' /\ LaneOrder'
  <1>t. /\ tasks \in [Workers -> Seq(Msgs)] /\ accepted \in Seq(Msgs) /\ forwarded \in Seq(Msgs)
        /\ TasksInOrder /\ ForwardedWasAccepted /\ LaneOrder /\ IngestTypeOK
    BY DEF Inv, IngestTypeOK
  <1>1. PICK m \in Running(w) : /\ forwarded' = Append(forwarded, m)
                                /\ tasks' = [tasks EXCEPT ![w] = Tail(tasks[w])]
    BY DEF Forward
  <1>a. accepted' = accepted
    BY DEF Forward
  <1>2. m \in Msgs /\ tasks[w] \in Seq(Msgs) /\ tasks[w] # <<>> /\ Head(tasks[w]) = m
    BY <1>t, RunningIs
  <1>3. /\ Len(tasks[w]) \in Nat \ {0} /\ Len(Tail(tasks[w])) = Len(tasks[w]) - 1
        /\ \A i \in 1..Len(Tail(tasks[w])) : Tail(tasks[w])[i] = tasks[w][i + 1]
        /\ tasks[w][1] = m /\ DOMAIN tasks[w] = 1..Len(tasks[w])
        /\ DOMAIN Tail(tasks[w]) = 1..Len(Tail(tasks[w]))
    BY <1>2, TailSet
  <1>4. \A v \in Workers : tasks'[v] = IF v = w THEN Tail(tasks[w]) ELSE tasks[v]
    BY <1>t, <1>1
  <1>5. ASSUME NEW v \in Workers, NEW l \in DOMAIN tasks[v]
        PROVE  /\ Worker(tasks[v][l]) = v
               /\ tasks[v][l] \in ToSet(accepted)
               /\ \A i \in 1..(l - 1) : Before(accepted, tasks[v][i], tasks[v][l])
               /\ \A i \in DOMAIN forwarded :
                    Worker(forwarded[i]) = v => Before(accepted, forwarded[i], tasks[v][l])
    BY <1>t DEF TasksInOrder
  <1>6. /\ Worker(m) = w /\ m \in ToSet(accepted)
        /\ \A i \in DOMAIN forwarded : Worker(forwarded[i]) = w => Before(accepted, forwarded[i], m)
    <2>1. 1 \in DOMAIN tasks[w]
      BY <1>3
    <2> QED
      BY <1>3, <1>5, <2>1
  <1>7. /\ Len(forwarded) \in Nat /\ DOMAIN forwarded = 1..Len(forwarded)
        /\ DOMAIN forwarded' = 1..(Len(forwarded) + 1)
        /\ \A i \in 1..Len(forwarded) : forwarded'[i] = forwarded[i]
        /\ forwarded'[Len(forwarded) + 1] = m
    BY <1>t, <1>1, <1>2
  <1>8. ForwardedWasAccepted'
    <2>1. ToSet(forwarded') = ToSet(forwarded) \cup {m}
      BY <1>t, <1>1, <1>2, AppendSet
    <2> QED
      BY <1>t, <1>a, <1>6, <2>1 DEF ForwardedWasAccepted
  <1>9. LaneOrder'
    <2>1. ASSUME NEW i \in DOMAIN forwarded', NEW j \in DOMAIN forwarded', i < j,
                 LaneOf[forwarded'[i]] = LaneOf[forwarded'[j]]
          PROVE  Before(accepted, forwarded'[i], forwarded'[j])
      <3>1. i \in DOMAIN forwarded /\ forwarded'[i] = forwarded[i]
        BY <1>7, <2>1
      <3>2. CASE j \in DOMAIN forwarded
        <4>1. forwarded'[j] = forwarded[j]
          BY <1>7, <3>2
        <4> QED
          BY <1>t, <2>1, <3>1, <3>2, <4>1 DEF LaneOrder, Before
      <3>3. CASE j = Len(forwarded) + 1
        <4>1. forwarded'[j] = m /\ Worker(forwarded[i]) = Worker(m)
          BY <1>7, <2>1, <3>1, <3>3 DEF Worker
        <4> QED
          BY <1>6, <3>1, <4>1
      <3> QED
        BY <1>7, <3>2, <3>3
    <2> QED
      BY <1>a, <2>1 DEF LaneOrder, Before
  <1>10. ASSUME NEW v \in Workers, NEW j \in DOMAIN tasks'[v]
         PROVE  /\ Worker(tasks'[v][j]) = v
                /\ tasks'[v][j] \in ToSet(accepted)
                /\ \A i \in 1..(j - 1) : Before(accepted, tasks'[v][i], tasks'[v][j])
                /\ \A i \in DOMAIN forwarded' :
                     Worker(forwarded'[i]) = v => Before(accepted, forwarded'[i], tasks'[v][j])
    <2>1. CASE v # w
      <3>1. tasks'[v] = tasks[v]
        BY <1>4, <2>1
      <3>2. ASSUME NEW i \in DOMAIN forwarded', Worker(forwarded'[i]) = v
            PROVE  Before(accepted, forwarded'[i], tasks'[v][j])
        <4>1. i # Len(forwarded) + 1
          BY <1>6, <1>7, <2>1, <3>2
        <4>2. i \in DOMAIN forwarded /\ forwarded'[i] = forwarded[i]
          BY <1>7, <4>1
        <4> QED
          BY <1>5, <3>1, <3>2, <4>2
      <3> QED
        BY <1>5, <3>1, <3>2
    <2>2. CASE v = w
      <3>1. /\ j + 1 \in DOMAIN tasks[w] /\ tasks'[w][j] = tasks[w][j + 1]
            /\ 1 \in 1..((j + 1) - 1) /\ j \in Nat \ {0}
        <4>1. tasks'[w] = Tail(tasks[w])
          BY <1>4
        <4>2. j \in 1..(Len(tasks[w]) - 1)
          BY <1>3, <2>2, <4>1
        <4>3. j + 1 \in 1..Len(tasks[w]) /\ 1 \in 1..((j + 1) - 1) /\ j \in Nat \ {0}
          BY <1>3, <4>2
        <4> QED
          BY <1>3, <4>1, <4>2, <4>3
      <3>2. /\ Worker(tasks[w][j + 1]) = w
            /\ tasks[w][j + 1] \in ToSet(accepted)
            /\ \A i \in 1..((j + 1) - 1) : Before(accepted, tasks[w][i], tasks[w][j + 1])
            /\ \A i \in DOMAIN forwarded :
                 Worker(forwarded[i]) = w => Before(accepted, forwarded[i], tasks[w][j + 1])
        BY <1>5, <3>1
      <3>3. ASSUME NEW i \in 1..(j - 1) PROVE Before(accepted, tasks'[w][i], tasks'[w][j])
        <4>1. i + 1 \in 1..((j + 1) - 1) /\ i \in 1..Len(Tail(tasks[w]))
          <5>1. j + 1 \in 1..Len(tasks[w]) /\ Len(Tail(tasks[w])) = Len(tasks[w]) - 1
            BY <1>3, <3>1
          <5>2. Len(tasks[w]) \in Nat /\ j \in Nat
            BY <1>3, <3>1
          <5> QED
            BY <5>1, <5>2
        <4>2. tasks'[w][i] = tasks[w][i + 1]
          BY <1>3, <1>4, <4>1
        <4> QED
          BY <3>1, <3>2, <4>1, <4>2
      <3>4. ASSUME NEW i \in DOMAIN forwarded', Worker(forwarded'[i]) = w
            PROVE  Before(accepted, forwarded'[i], tasks'[w][j])
        <4>1. CASE i \in DOMAIN forwarded
          <5>1. forwarded'[i] = forwarded[i]
            BY <1>7, <4>1
          <5> QED
            BY <3>1, <3>2, <3>4, <4>1, <5>1
        <4>2. CASE i = Len(forwarded) + 1
          BY <1>3, <1>7, <3>1, <3>2, <4>2
        <4> QED
          BY <1>7, <4>1, <4>2
      <3> QED
        BY <2>2, <3>1, <3>2, <3>3, <3>4
    <2> QED
      BY <2>1, <2>2
  <1>11. TasksInOrder'
    BY <1>a, <1>10 DEF TasksInOrder
  <1> QED
    BY <1>8, <1>9, <1>11

\* Only a worker forwards.
LEMMA NextOrder == Inv /\ [IngestNext]_vars => TasksInOrder' /\ ForwardedWasAccepted' /\ LaneOrder'
  <1> SUFFICES ASSUME Inv, [IngestNext]_vars
               PROVE  TasksInOrder' /\ ForwardedWasAccepted' /\ LaneOrder'
    OBVIOUS
  <1>1. ASSUME NEW m \in Msgs, FastPath(m) PROVE UNCHANGED forwarded
    BY <1>1 DEF FastPath, ReceiveDuplicate, ReceiveBlocked, Receive
  <1>2. ASSUME NEW w \in Workers, Persist(w) \/ PersistFile(w) PROVE UNCHANGED forwarded
    BY <1>2 DEF Persist, PersistFile, ingestVars
  <1>3. ASSUME Background \/ Crash \/ Restart \/ UNCHANGED vars PROVE UNCHANGED forwarded
    BY <1>3 DEF Background, Crash, Restart, vars, ingestVars
  <1>4. UNCHANGED forwarded \/ \E w \in Workers : Forward(w)
    BY <1>1, <1>2, <1>3 DEF IngestNext, SlowPath
  <1> QED
    BY <1>4, OrderForwarded, OrderUnforwarded

-------------------------------------------------------------------------------
(* ChatIngest: the theorems.                                               *)

\* The server starts with nothing accepted.
LEMMA IngestInit == Init => Inv
  <1> SUFFICES ASSUME Init PROVE Inv
    OBVIOUS
  <1>0. QueueInv
    BY QueueInitInv DEF Init
  <1>e. IsFiniteSet({}) /\ Cardinality({}) = 0
    BY FS_EmptySet
  <1>1. /\ DOMAIN forwarded = {} /\ ToSet(accepted) = {} /\ ToSet(forwarded) = {}
        /\ accepted \in Seq(Msgs) /\ forwarded \in Seq(Msgs)
    BY DEF Init, ToSet
  <1>2. /\ tasks \in [Workers -> Seq(Msgs)]
        /\ \A w \in Workers : tasks[w] = <<>>
    BY DEF Init
  <1>3. \A w \in Workers : DOMAIN tasks[w] = {} /\ Len(tasks[w]) <= TasksMax
    BY <1>2, IngestAssumption DEF IngestAssumption
  <1>4. IngestTypeOK /\ IsFiniteSet(recent)
    BY <1>0, <1>1, <1>2, <1>3, <1>e, IngestAssumption
    DEF Init, IngestTypeOK, QueueInv, IngestAssumption
  <1>5. Explains
    BY DEF Init, Explains
  <1>6. AcceptedOnce
    <2>1. \A k \in Keys : AcceptedOf(k) = {} /\ Credit(k) = 0
      BY <1>1 DEF Init, AcceptedOf, Credit
    <2> QED
      BY <1>e, <2>1 DEF AcceptedOnce
  <1>7. TasksInOrder /\ ForwardedWasAccepted /\ LaneOrder
    BY <1>1, <1>3 DEF TasksInOrder, ForwardedWasAccepted, LaneOrder
  <1> QED
    BY <1>0, <1>4, <1>5, <1>6, <1>7 DEF Inv, QueueInv

\* Every step keeps the invariant.
LEMMA IngestStep == Inv /\ [IngestNext]_vars => Inv'
  <1> SUFFICES ASSUME Inv, [IngestNext]_vars PROVE Inv'
    OBVIOUS
  <1>1. QueueInv'
    BY QueueInvIs, IngestQueue
  <1>2. IngestTypes'
    BY IngestNextType DEF Inv
  <1>3. IngestTypeOK' /\ IsFiniteSet(recent')
    BY <1>1, <1>2 DEF IngestTypeOK, IngestTypes, QueueInv
  <1> QED
    BY <1>1, <1>3, NextExplains, NextAccepted, NextOrder DEF Inv, QueueInv

\* The invariant holds in every state the server can reach.
LEMMA IngestInvariant == IngestSpec => []Inv
  BY IngestInit, IngestStep, PTL DEF IngestSpec

\* The variables keep their types: recentMsgIds_ and the task queues stay within
\* their limits.
THEOREM TypeCorrect == IngestSpec => []IngestTypeOK
  <1>1. Inv => IngestTypeOK
    BY DEF Inv
  <1> QED
    BY <1>1, IngestInvariant, PTL

\* The ack of handlePrivateMessage and its siblings stands for a message that is
\* kept, and that of a duplicate for a transmission that is kept, waits, was refused
\* or blocked, or died with the process.
THEOREM AcksAreExplained == IngestSpec => []AckExplained
  <1>1. Inv => AckExplained
    BY DEF Inv, Explains, Explained, Returning, AckExplained
  <1> QED
    BY <1>1, IngestInvariant, PTL

\* Nothing that the ingest adds to the queue, the direct INSERT of file messages and
\* restarts with messages in a flush, loses a message in a way of its own.
THEOREM IngestLosesOnlyInRaces == IngestSpec => []LossNeedsOverlap
  <1>1. QueueInv => LossNeedsOverlap
    BY DEF QueueInv, Returning, LossNeedsOverlap, Lost, Returned, Kept
  <1> QED
    BY <1>1, QueueInvIs, IngestInvariant, PTL

\* The recipient gets a message once, but for every time recentMsgIds_ was emptied,
\* and submitAffinity keeps the order of a sender and of a group.
THEOREM ForwardsOnceInOrder == IngestSpec => []ForwardedOnceInOrder
  <1>1. ASSUME Inv PROVE ForwardedOnceInOrder
    <2>1. ASSUME NEW k \in Keys
          PROVE  Cardinality({m \in ToSet(forwarded) \ Files : KeyOf[m] = k}) <= 1 + resets
      <3> DEFINE F == {m \in ToSet(forwarded) \ Files : KeyOf[m] = k}
      <3>1. F \subseteq AcceptedOf(k) /\ F \in SUBSET AcceptedOf(k)
        BY <1>1 DEF Inv, ForwardedWasAccepted, AcceptedOf
      <3>2. IsFiniteSet(AcceptedOf(k)) /\ Cardinality(AcceptedOf(k)) <= Credit(k)
        BY <1>1 DEF Inv, AcceptedOnce
      <3> HIDE DEF F
      <3>3. IsFiniteSet(F) /\ Cardinality(F) <= Cardinality(AcceptedOf(k))
        BY <3>1, <3>2, FS_Subset
      <3>4. Cardinality(F) \in Nat /\ Cardinality(AcceptedOf(k)) \in Nat
        BY <3>2, <3>3, FS_CardinalityType
      <3>5. resets \in Nat /\ Credit(k) <= 1 + resets /\ Credit(k) \in Nat
        BY <1>1 DEF Inv, IngestTypeOK, Credit
      <3>6. Cardinality(F) <= 1 + resets
        BY <3>2, <3>3, <3>4, <3>5
      <3> QED
        BY <3>6 DEF F
    <2> QED
      BY <1>1, <2>1 DEF Inv, ForwardedOnceInOrder, ForwardedOnce
  <1>2. Inv => ForwardedOnceInOrder
    BY <1>1
  <1> QED
    BY <1>2, IngestInvariant, PTL
===============================================================================
