---------------------------- MODULE DeliveryProofs ----------------------------
(***************************************************************************)
(* How a message gets to the sessions it is for.                           *)
(*                                                                         *)
(* Presence: for any number of sessions, devices and instances, and any    *)
(* time to live longer than the rounds an instance may miss, the table of  *)
(* sessions lists live sessions only, connected sessions are listed and    *)
(* have their key unless another session of the device interfered, and the *)
(* refresh keeps the keys.  The last two need each other, and both need    *)
(* that a connected session is on an instance that runs.  On one instance  *)
(* and without evictions and faults a friend there is told the truth.      *)
(*                                                                         *)
(* Pipeline: for any messages, instances and sizes of transactions, every  *)
(* copy that a session gets is paid for.  For a session and a message the  *)
(* invariant counts the copies that were shown and those that are still to *)
(* come from each place the message is at; the steps move them from place  *)
(* to place and only the failures named by spare add one.                  *)
(***************************************************************************)
EXTENDS Presence, Pipeline, FiniteSetTheorems, TLAPS

\* A session has a device and an instance unless it is new; one that is open is
\* on an instance that runs.
Placed ==
  \A s \in Sessions :
    /\ pc[s] = "new" => inst[s] = None
    /\ pc[s] # "new" => dev[s] \in Devices /\ inst[s] \in Insts
    /\ IsOpen(s) => inst[s] \in up

Inv == TypeOK /\ Placed /\ ListedIsLive /\ OpenIsListed /\ RefreshKeepsKey

\* The initial state satisfies the invariant: there is no session yet.
LEMMA InitInv == Init => Inv
  <1> SUFFICES ASSUME Init PROVE Inv
    OBVIOUS
  <1> USE PresenceAssumption DEF PresenceAssumption, Init
  <1>1. TypeOK
    BY DEF TypeOK
  <1>2. Placed
    BY DEF Placed, IsOpen
  <1>3. ListedIsLive
    BY DEF ListedIsLive
  <1>4. OpenIsListed /\ RefreshKeepsKey
    BY DEF OpenIsListed, RefreshKeepsKey, IsOpen, HasKey
  <1> QED
    BY <1>1, <1>2, <1>3, <1>4 DEF Inv

\* A key with time left still has a legal time left one round later.
LEMMA Countdown ==
  ASSUME NEW n \in Nat \ {0}, NEW k \in 0..n, k # 0
  PROVE  n \in 0..n /\ k - 1 \in 0..n
  OBVIOUS

\* Every action keeps the variables in their types.
LEMMA NextTypeOK == Inv /\ [Next]_vars => TypeOK'
  <1> SUFFICES ASSUME Inv, [Next]_vars PROVE TypeOK'
    OBVIOUS
  <1> USE PresenceAssumption DEF PresenceAssumption, Inv, TypeOK
  <1>1. ASSUME NEW s \in Sessions, NEW d \in Devices, NEW i \in Insts, Open(s, d, i)
        PROVE TypeOK'
    <2>1. told' \in [Ears -> {"offline", "online"}]
      BY <1>1 DEF Open, TellOnline, Local
    <2>2. ttl' \in [Devices -> 0..Ttl] /\ faults' \in 0..MaxFaults
      BY <1>1 DEF Open, SetKey, Fault
    <2> QED
      BY <1>1, <2>1, <2>2 DEF Open, AddDevice
  <1>2. ASSUME NEW s \in Sessions, Drop(s) PROVE TypeOK'
    BY <1>2 DEF Drop
  <1>3. ASSUME NEW s \in Sessions, Close(s) PROVE TypeOK'
    <2>1. dev[s] \in Devices /\ inst[s] \in Insts
      BY <1>3 DEF Close, Placed
    <2>2. told' \in [Ears -> {"offline", "online"}]
      BY <1>3 DEF Close, TellOffline, HearOffline
    <2>3. ttl' \in [Devices -> 0..Ttl] /\ faults' \in 0..MaxFaults
      BY <1>3 DEF Close, DelKey, Fault
    <2> QED
      BY <1>3, <2>1, <2>2, <2>3 DEF Close, RemoveDevice, Others
  <1>4. ASSUME NEW i \in Insts, NEW d \in Devices, Kick(i, d) PROVE TypeOK'
    <2>1. table[i][d] \in Sessions
      BY <1>4 DEF Kick
    <2>2. pc' \in [Sessions -> {"new", "open", "closed", "gone"}]
      BY <1>4, <2>1 DEF Kick
    <2>3. table' \in [Insts -> [Devices -> Sessions \cup {None}]]
      BY <1>4 DEF Kick
    <2>4. evicted' \subseteq Sessions
      BY <1>4 DEF Kick, Others
    <2>5. ttl' \in [Devices -> 0..Ttl] /\ faults' \in 0..MaxFaults
      <3>1. CASE DelKey(d) /\ UNCHANGED faults
        BY <3>1 DEF DelKey
      <3>2. CASE Fault /\ UNCHANGED ttl
        BY <3>2 DEF Fault
      <3> QED
        BY <1>4, <3>1, <3>2 DEF Kick
    <2>6. UNCHANGED <<dev, inst, missed, up, told, replaced>>
      BY <1>4 DEF Kick
    <2> QED
      BY <2>2, <2>3, <2>4, <2>5, <2>6
  <1>5. CASE Tick
    <2>0. PICK R \in SUBSET up :
          /\ \A i \in up \ R : missed[i] < MaxMissed
          /\ missed' = [i \in Insts |-> IF i \in up \ R THEN missed[i] + 1 ELSE 0]
          /\ Round(R)
      BY <1>5 DEF Tick
    <2>1. missed' \in [Insts -> 0..MaxMissed]
      <3>1. MaxMissed \in Nat
        OBVIOUS
      <3>2. \A i \in Insts : (IF i \in up \ R THEN missed[i] + 1 ELSE 0) \in 0..MaxMissed
        BY <2>0, <3>1
      <3> QED
        BY <2>0, <3>2
    <2>2. ttl' \in [Devices -> 0..Ttl]
      <3>1. ASSUME NEW d \in Devices, HasKey(d)
            PROVE  Ttl \in 0..Ttl /\ ttl[d] - 1 \in 0..Ttl
        <4>1. ttl[d] \in 0..Ttl /\ ttl[d] # 0
          BY <3>1 DEF HasKey
        <4> QED
          BY <4>1, Countdown
      <3>2. 0 \in 0..Ttl
        OBVIOUS
      <3>3. \A d \in Devices : (IF ~HasKey(d) THEN 0
                                ELSE IF d \in Prolonged(R) THEN Ttl ELSE ttl[d] - 1) \in 0..Ttl
        BY <3>1, <3>2
      <3> QED
        BY <2>0, <3>3 DEF Round
    <2> QED
      BY <1>5, <2>1, <2>2 DEF Tick
  <1>6. ASSUME NEW i \in Insts, Crash(i) PROVE TypeOK'
    BY <1>6 DEF Crash, HearOffline, Fault
  <1>7. ASSUME NEW i \in Insts, Boot(i) PROVE TypeOK'
    BY <1>7 DEF Boot
  <1>8. CASE UNCHANGED vars
    BY <1>8 DEF vars
  <1> QED
    BY <1>1, <1>2, <1>3, <1>4, <1>5, <1>6, <1>7, <1>8 DEF Next

\* Sessions stay where they connected, and a crash takes those of its instance.
LEMMA NextPlaced == Inv /\ [Next]_vars => Placed'
  <1> SUFFICES ASSUME Inv, [Next]_vars PROVE Placed'
    OBVIOUS
  <1> USE DEF Inv, TypeOK, Placed, IsOpen
  <1>1. ASSUME NEW s \in Sessions, NEW d \in Devices, NEW i \in Insts, Open(s, d, i)
        PROVE Placed'
    BY <1>1 DEF Open
  <1>2. ASSUME NEW s \in Sessions, Drop(s) \/ Close(s) PROVE Placed'
    BY <1>2 DEF Drop, Close
  <1>4. ASSUME NEW i \in Insts, NEW d \in Devices, Kick(i, d) PROVE Placed'
    <2>1. table[i][d] \in Sessions /\ pc[table[i][d]] # "new"
      BY <1>4 DEF Kick, ListedIsLive
    <2>2. \A s \in Sessions : /\ pc'[s] # "new" <=> pc[s] # "new"
                              /\ pc'[s] = "open" => pc[s] = "open"
      BY <1>4, <2>1 DEF Kick
    <2>3. UNCHANGED <<dev, inst, up>>
      BY <1>4 DEF Kick
    <2> QED
      BY <2>2, <2>3
  <1>5. CASE Tick
    BY <1>5 DEF Tick
  <1>6. ASSUME NEW i \in Insts, Crash(i) PROVE Placed'
    <2>1. up' = up \ {i} /\ UNCHANGED <<dev, inst>>
      BY <1>6 DEF Crash
    <2>2. \A s \in Sessions : pc'[s] = IF inst[s] = i THEN "gone" ELSE pc[s]
      BY <1>6 DEF Crash
    <2>3. \A s \in Sessions : inst[s] = i => pc[s] # "new"
      BY PresenceAssumption DEF PresenceAssumption
    <2> QED
      BY <2>1, <2>2, <2>3
  <1>7. ASSUME NEW i \in Insts, Boot(i) PROVE Placed'
    BY <1>7 DEF Boot
  <1>8. CASE UNCHANGED vars
    BY <1>8 DEF vars
  <1> QED
    BY <1>1, <1>2, <1>4, <1>5, <1>6, <1>7, <1>8 DEF Next

\* A close handler erases the entry its own session may hold, so none is left.
LEMMA NextListedIsLive == Inv /\ [Next]_vars => ListedIsLive'
  <1> SUFFICES ASSUME Inv, [Next]_vars,
                      NEW i \in Insts, NEW d \in Devices, table'[i][d] # None
               PROVE  LET s == table'[i][d] IN
                        pc'[s] \in {"open", "closed"} /\ dev'[s] = d /\ inst'[s] = i
    BY DEF ListedIsLive
  <1> USE PresenceAssumption DEF PresenceAssumption, Inv, TypeOK, ListedIsLive
  <1>1. ASSUME NEW s \in Sessions, NEW e \in Devices, NEW j \in Insts, Open(s, e, j)
        PROVE LET t == table'[i][d] IN
                pc'[t] \in {"open", "closed"} /\ dev'[t] = d /\ inst'[t] = i
    BY <1>1 DEF Open, AddDevice
  <1>2. ASSUME NEW s \in Sessions, Drop(s)
        PROVE LET t == table'[i][d] IN
                pc'[t] \in {"open", "closed"} /\ dev'[t] = d /\ inst'[t] = i
    BY <1>2 DEF Drop
  <1>3. ASSUME NEW s \in Sessions, Close(s)
        PROVE LET t == table'[i][d] IN
                pc'[t] \in {"open", "closed"} /\ dev'[t] = d /\ inst'[t] = i
    BY <1>3 DEF Close, RemoveDevice, Placed
  <1>4. ASSUME NEW j \in Insts, NEW e \in Devices, Kick(j, e)
        PROVE LET t == table'[i][d] IN
                pc'[t] \in {"open", "closed"} /\ dev'[t] = d /\ inst'[t] = i
    BY <1>4 DEF Kick
  <1>5. CASE Tick
    BY <1>5 DEF Tick
  <1>6. ASSUME NEW j \in Insts, Crash(j)
        PROVE LET t == table'[i][d] IN
                pc'[t] \in {"open", "closed"} /\ dev'[t] = d /\ inst'[t] = i
    BY <1>6 DEF Crash
  <1>7. ASSUME NEW j \in Insts, Boot(j)
        PROVE LET t == table'[i][d] IN
                pc'[t] \in {"open", "closed"} /\ dev'[t] = d /\ inst'[t] = i
    BY <1>7 DEF Boot
  <1>8. CASE UNCHANGED vars
    BY <1>8 DEF vars
  <1> QED
    BY <1>1, <1>2, <1>3, <1>4, <1>5, <1>6, <1>7, <1>8 DEF Next

\* What an action may do to an open session without evicting it: it leaves the
\* entry, the key and the remaining time as they are.
LEMMA NextOpenIsListed == Inv /\ [Next]_vars => OpenIsListed' /\ RefreshKeepsKey'
  <1> SUFFICES ASSUME Inv, [Next]_vars, NEW s \in Sessions, pc'[s] = "open"
               PROVE  /\ s \notin replaced' \cup evicted' =>
                            /\ table'[inst'[s]][dev'[s]] = s
                            /\ faults' = 0 => ttl'[dev'[s]] > 0
                      /\ faults' = 0 /\ table'[inst'[s]][dev'[s]] = s /\ ttl'[dev'[s]] > 0
                            => ttl'[dev'[s]] + missed'[inst'[s]] >= Ttl
    BY DEF OpenIsListed, RefreshKeepsKey, IsOpen, Entry, HasKey
  <1> DEFINE Goal == /\ s \notin replaced' \cup evicted' =>
                           /\ table'[inst'[s]][dev'[s]] = s
                           /\ faults' = 0 => ttl'[dev'[s]] > 0
                     /\ faults' = 0 /\ table'[inst'[s]][dev'[s]] = s /\ ttl'[dev'[s]] > 0
                           => ttl'[dev'[s]] + missed'[inst'[s]] >= Ttl
  <1> USE PresenceAssumption DEF PresenceAssumption, Inv, TypeOK, OpenIsListed,
                                 RefreshKeepsKey, IsOpen, Entry, Placed,
                                 HasKey
  <1>1. ASSUME NEW t \in Sessions, NEW e \in Devices, NEW j \in Insts, Open(t, e, j)
        PROVE Goal
    <2>1. CASE t = s
      BY <1>1, <2>1 DEF Open, AddDevice, SetKey, Fault
    <2>2. CASE t # s
      BY <1>1, <2>2 DEF Open, AddDevice, SetKey, Fault
    <2> QED
      BY <2>1, <2>2
  <1>2. ASSUME NEW t \in Sessions, Drop(t) PROVE Goal
    BY <1>2 DEF Drop
  <1>3. ASSUME NEW t \in Sessions, Close(t) PROVE Goal
    BY <1>3 DEF Close, RemoveDevice, DelKey, Others, Fault
  <1>4. ASSUME NEW j \in Insts, NEW e \in Devices, Kick(j, e) PROVE Goal
    <2>1. table[j][e] \in Sessions /\ table[j][e] # s
      BY <1>4 DEF Kick
    <2>2. pc[s] = "open"
      BY <1>4, <2>1 DEF Kick
    <2>3. CASE dev[s] = e
      BY <1>4, <2>1, <2>2, <2>3 DEF Kick, DelKey, Others, Fault
    <2>4. CASE dev[s] # e
      BY <1>4, <2>1, <2>2, <2>4 DEF Kick, DelKey, Fault
    <2> QED
      BY <2>3, <2>4
  <1>5. CASE Tick
    <2> PICK R \in SUBSET up :
          /\ \A i \in up \ R : missed[i] < MaxMissed
          /\ missed' = [i \in Insts |-> IF i \in up \ R THEN missed[i] + 1 ELSE 0]
          /\ Round(R)
      BY <1>5 DEF Tick
    <2> DEFINE d == dev[s]
               i == inst[s]
    <2>0. /\ pc[s] = "open" /\ d \in Devices /\ i \in up /\ i \in Insts
          /\ UNCHANGED <<dev, inst, table, faults, replaced, evicted>>
      BY <1>5 DEF Tick
    <2>1. CASE faults = 0 /\ table[i][d] = s /\ ttl[d] > 0
      <3>1. ttl[d] + missed[i] >= Ttl
        BY <2>0, <2>1
      <3>2. ttl'[d] > 0 /\ ttl'[d] + missed'[i] >= Ttl
        <4>1. CASE d \in Prolonged(R)
          BY <2>0, <2>1, <4>1 DEF Round
        <4>2. CASE d \notin Prolonged(R)
          <5>1. i \notin R
            BY <2>0, <2>1, <4>2 DEF Prolonged, IsOnline
          <5>2. missed[i] < MaxMissed /\ missed'[i] = missed[i] + 1
            BY <2>0, <5>1
          <5>3. ttl'[d] = ttl[d] - 1
            BY <2>0, <2>1, <4>2 DEF Round
          <5>4. ttl'[d] # 0 /\ ttl'[d] + missed'[i] >= Ttl
            BY <2>0, <3>1, <5>2, <5>3
          <5> QED
            BY <2>0, <2>1, <4>2, <5>4 DEF Round
        <4> QED
          BY <4>1, <4>2
      <3> QED
        BY <2>0, <2>1, <3>2
    <2>2. CASE ~(faults = 0 /\ table[i][d] = s /\ ttl[d] > 0)
      <3>1. ttl[d] = 0 => ttl'[d] = 0
        BY <2>0 DEF Round
      <3> QED
        BY <2>0, <2>2, <3>1
    <2> QED
      BY <2>1, <2>2
  <1>6. ASSUME NEW j \in Insts, Crash(j) PROVE Goal
    BY <1>6 DEF Crash, Fault
  <1>7. ASSUME NEW j \in Insts, Boot(j) PROVE Goal
    BY <1>7 DEF Boot
  <1>8. CASE UNCHANGED vars
    BY <1>8 DEF vars
  <1> QED
    BY <1>1, <1>2, <1>3, <1>4, <1>5, <1>6, <1>7, <1>8 DEF Next

\* The invariant holds in every state the presence of a user can be in.
THEOREM PresenceSafety == Spec => []Inv
  <1>1. Init => Inv
    BY InitInv
  <1>2. Inv /\ [Next]_vars => Inv'
    BY NextTypeOK, NextPlaced, NextListedIsLive, NextOpenIsListed DEF Inv
  <1> QED
    BY <1>1, <1>2, PTL DEF Spec

\* sessions_ never lists a session whose close handler has run.
THEOREM TableHasNoDeadSession == Spec => []ListedIsLive
  <1>1. Inv => ListedIsLive
    BY DEF Inv
  <1> QED
    BY <1>1, PresenceSafety, PTL

\* A connected session is in its instance's table and, without faults, its key
\* is in Redis, unless another session of the device took or removed them.
THEOREM ConnectedIsReachable == Spec => []OpenIsListed
  <1>1. Inv => OpenIsListed
    BY DEF Inv
  <1> QED
    BY <1>1, PresenceSafety, PTL

\* The rounds an instance may miss never cost a listed session its key: the
\* invariant the comment at kOnlineTtlSec appeals to.
THEOREM RefreshIsEnough == Spec => []RefreshKeepsKey
  <1>1. Inv => RefreshKeepsKey
    BY DEF Inv
  <1> QED
    BY <1>1, PresenceSafety, PTL

-------------------------------------------------------------------------------
(* What the friends know.                                                  *)

\* Every connected session has an entry in the table, its own or that of the
\* session that replaced it, unless it was evicted.
OpenHasEntry == \A s \in Sessions : IsOpen(s) /\ s \notin evicted => Entry(s) # None

\* The premise of FriendsKnow but for the close handlers that are due.
Alone(i) ==
  /\ \A s \in Sessions : inst[s] \in {i, None}
  /\ evicted = {} /\ faults = 0 /\ Local(i) # {}

\* A session of the friend on instance i shows the user online.
Known(i) == \E e \in Local(i) : told[e] = "online"

\* What is true of told between the end of a session and its close handler: who
\* counts as online has a session whose close handler has not run, and a session
\* that is connected while the friends believe the user away is hidden behind one
\* that replaced it and whose close handler is due.
SomeoneThere(i) == Known(i) => \E s \in Sessions : pc[s] \in {"open", "closed"}
Hidden(i) == ~Known(i) => \A s \in Sessions : IsOpen(s) => pc[Entry(s)] = "closed"
ToldFollows == \A i \in Insts : Alone(i) => SomeoneThere(i) /\ Hidden(i)

\* An eviction is recorded with every entry that a close handler or a kick erases
\* under a connected session.
LEMMA NextOpenHasEntry == Inv /\ OpenHasEntry /\ [Next]_vars => OpenHasEntry'
  <1> SUFFICES ASSUME Inv, OpenHasEntry, [Next]_vars,
                      NEW s \in Sessions, pc'[s] = "open", s \notin evicted'
               PROVE  table'[inst'[s]][dev'[s]] # None
    BY DEF OpenHasEntry, IsOpen, Entry
  <1> USE PresenceAssumption
      DEF PresenceAssumption, Inv, TypeOK, Placed, OpenHasEntry, IsOpen, Entry
  <1>1. ASSUME NEW t \in Sessions, NEW e \in Devices, NEW j \in Insts, Open(t, e, j)
        PROVE  table'[inst'[s]][dev'[s]] # None
    <2>1. CASE t = s
      BY <1>1, <2>1 DEF Open, AddDevice
    <2>2. CASE t # s
      BY <1>1, <2>2 DEF Open, AddDevice
    <2> QED
      BY <2>1, <2>2
  <1>2. ASSUME NEW t \in Sessions, Drop(t) PROVE table'[inst'[s]][dev'[s]] # None
    BY <1>2 DEF Drop
  <1>3. ASSUME NEW t \in Sessions, Close(t) PROVE table'[inst'[s]][dev'[s]] # None
    BY <1>3 DEF Close, RemoveDevice, Others
  <1>4. ASSUME NEW j \in Insts, NEW e \in Devices, Kick(j, e)
        PROVE  table'[inst'[s]][dev'[s]] # None
    <2>1. table[j][e] \in Sessions /\ table[j][e] # s /\ pc[s] = "open"
      BY <1>4 DEF Kick
    <2>2. dev[s] # e
      BY <1>4, <2>1 DEF Kick, Others
    <2> QED
      BY <1>4, <2>1, <2>2 DEF Kick
  <1>5. CASE Tick
    BY <1>5 DEF Tick
  <1>6. ASSUME NEW j \in Insts, Crash(j) PROVE table'[inst'[s]][dev'[s]] # None
    BY <1>6 DEF Crash
  <1>7. ASSUME NEW j \in Insts, Boot(j) PROVE table'[inst'[s]][dev'[s]] # None
    BY <1>7 DEF Boot
  <1>8. CASE UNCHANGED vars
    BY <1>8 DEF vars
  <1> QED
    BY <1>1, <1>2, <1>3, <1>4, <1>5, <1>6, <1>7, <1>8 DEF Next

\* Sessions do not move, and evictions and faults are not forgotten.
LEMMA AloneBefore ==
  ASSUME Inv, [Next]_vars, NEW i \in Insts, Alone(i)'
  PROVE  Alone(i)
  <1> USE DEF Inv, TypeOK
  <1>1. /\ \A s \in Sessions : inst[s] \in {inst'[s], None}
        /\ evicted \subseteq evicted' /\ faults' >= faults
    <2>1. ASSUME NEW s \in Sessions, NEW d \in Devices, NEW j \in Insts, Open(s, d, j)
          PROVE  /\ \A t \in Sessions : inst[t] \in {inst'[t], None}
                 /\ evicted \subseteq evicted' /\ faults' >= faults
      BY <2>1 DEF Open, Placed, Fault
    <2>2. ASSUME NEW s \in Sessions, Drop(s) \/ Close(s)
          PROVE  UNCHANGED inst /\ evicted \subseteq evicted' /\ faults' >= faults
      BY <2>2 DEF Drop, Close, RemoveDevice, Fault
    <2>3. ASSUME NEW j \in Insts, NEW d \in Devices, Kick(j, d)
          PROVE  UNCHANGED inst /\ evicted \subseteq evicted' /\ faults' >= faults
      BY <2>3 DEF Kick, Fault
    <2>4. ASSUME NEW j \in Insts, Crash(j) \/ Boot(j)
          PROVE  UNCHANGED <<inst, evicted>> /\ faults' >= faults
      BY <2>4 DEF Crash, Boot, Fault
    <2>5. CASE Tick \/ UNCHANGED vars
      BY <2>5 DEF Tick, vars
    <2> QED
      BY <2>1, <2>2, <2>3, <2>4, <2>5 DEF Next
  <1>2. \A s \in Sessions : inst'[s] \in {i, None}
    BY DEF Alone
  <1>3. \A s \in Sessions : inst[s] \in {i, None}
    BY <1>1, <1>2
  <1>4. evicted = {} /\ faults = 0
    BY <1>1, PresenceAssumption DEF Alone, PresenceAssumption
  <1> QED
    BY <1>3, <1>4 DEF Alone, Local

\* What the friends hear from a handler agrees with the sessions that are left.
LEMMA NextToldFollows ==
  Inv /\ Inv' /\ OpenHasEntry /\ OpenHasEntry' /\ ToldFollows /\ [Next]_vars => ToldFollows'
  <1> SUFFICES ASSUME Inv, Inv', OpenHasEntry, OpenHasEntry', ToldFollows, [Next]_vars,
                      NEW i \in Insts, Alone(i)'
               PROVE  SomeoneThere(i)' /\ Hidden(i)'
    BY DEF ToldFollows
  <1>0. Alone(i) /\ SomeoneThere(i) /\ Hidden(i)
    BY AloneBefore DEF ToldFollows
  <1>f. faults' = 0 /\ ~Fault
    BY <1>0 DEF Alone, Fault
  <1>k. UNCHANGED told => Known(i)' = Known(i)
    BY DEF Known, Local
  <1>e. ASSUME NEW s \in Sessions, pc'[s] = "open"
        PROVE  table'[inst'[s]][dev'[s]] # None
    BY <1>e DEF OpenHasEntry, Alone, IsOpen, Entry
  <1>h. ASSUME ~Known(i)' =>
                 \A s \in Sessions : pc'[s] = "open" => pc'[table'[inst'[s]][dev'[s]]] = "closed"
        PROVE  Hidden(i)'
    BY <1>h DEF Hidden, IsOpen, Entry
  <1> USE PresenceAssumption DEF PresenceAssumption, Inv, TypeOK, Placed, IsOpen, Entry
  <1>1. ASSUME NEW t \in Sessions, NEW e \in Devices, NEW j \in Insts, Open(t, e, j)
        PROVE  SomeoneThere(i)' /\ Hidden(i)'
    <2>1. pc'[t] = "open" /\ inst'[t] = j /\ TellOnline(j)
      BY <1>1, <1>f DEF Open
    <2>2. j = i /\ Local(i) # {}
      BY <1>0, <2>1 DEF Alone
    <2>3. Known(i)'
      BY <2>1, <2>2 DEF TellOnline, Known, Local
    <2> QED
      BY <2>1, <2>3 DEF SomeoneThere, Hidden
  <1>2. ASSUME NEW t \in Sessions, Drop(t) PROVE SomeoneThere(i)' /\ Hidden(i)'
    <2>1. /\ \A s \in Sessions : pc'[s] \in {pc[s], "closed"}
          /\ pc'[t] = "closed" /\ UNCHANGED <<told, dev, inst, table>>
      BY <1>2 DEF Drop
    <2>2. ASSUME ~Known(i)', NEW s \in Sessions, pc'[s] = "open"
          PROVE  pc'[table'[inst'[s]][dev'[s]]] = "closed"
      <3>1. pc[s] = "open" /\ table[inst[s]][dev[s]] \in Sessions
        BY <1>e, <2>1, <2>2
      <3> QED
        BY <1>0, <1>k, <2>1, <2>2, <3>1 DEF Hidden
    <2> QED
      BY <1>h, <2>1, <2>2 DEF SomeoneThere
  <1>3. ASSUME NEW t \in Sessions, Close(t) PROVE SomeoneThere(i)' /\ Hidden(i)'
    <2>0. /\ pc[t] = "closed" /\ inst[t] \in Insts /\ UNCHANGED <<dev, inst>>
          /\ pc' = [pc EXCEPT ![t] = "gone"]
          /\ table' = [table EXCEPT ![inst[t]][dev[t]] = None]
          /\ TellOffline(t)
      BY <1>3, <1>f DEF Close, RemoveDevice
    <2>t. inst[t] = i
      BY <1>0, <2>0 DEF Alone
    <2>k. IF IsOnline(table', inst[t]) THEN Known(i)' = Known(i) ELSE ~Known(i)'
      BY <1>k, <2>0, <2>t DEF TellOffline, HearOffline, Known, Local
    <2>1. ASSUME Known(i)'
          PROVE  \E s \in Sessions : pc'[s] \in {"open", "closed"}
      <3>1. PICK d \in Devices : table'[inst[t]][d] # None /\ pc[table'[inst[t]][d]] = "open"
        BY <2>1, <2>k DEF IsOnline
      <3>2. table'[inst[t]][d] \in Sessions
        BY <2>0, <3>1
      <3> QED
        BY <2>0, <3>1, <3>2
    <2>2. ASSUME ~Known(i)', NEW s \in Sessions, pc'[s] = "open"
          PROVE  pc'[table'[inst'[s]][dev'[s]]] = "closed"
      <3>1. pc[s] = "open" /\ inst[s] \in Insts /\ dev[s] \in Devices /\ inst[s] = inst[t]
        BY <1>0, <2>0, <2>2 DEF Alone
      <3>2. table'[inst[s]][dev[s]] \in Sessions
        BY <1>e, <2>0, <2>2, <3>1
      <3>3. table'[inst[s]][dev[s]] = table[inst[s]][dev[s]]
        BY <2>0, <3>1, <3>2
      <3>4. pc'[table'[inst[s]][dev[s]]] \in {"open", "closed"}
        BY <2>0, <3>1, <3>2, SMTT(30) DEF ListedIsLive
      <3>5. CASE IsOnline(table', inst[t])
        <4>1. pc[table[inst[s]][dev[s]]] = "closed"
          BY <1>0, <2>2, <2>k, <3>1, <3>5 DEF Hidden
        <4> QED
          BY <2>0, <3>2, <3>3, <3>4, <4>1
      <3>6. CASE ~IsOnline(table', inst[t])
        <4>1. pc[table'[inst[s]][dev[s]]] # "open"
          BY <3>1, <3>2, <3>6 DEF IsOnline
        <4> QED
          BY <2>0, <3>2, <3>4, <4>1
      <3> QED
        BY <3>5, <3>6
    <2> QED
      BY <1>h, <2>1, <2>2 DEF SomeoneThere
  <1>4. ASSUME NEW j \in Insts, NEW e \in Devices, Kick(j, e) PROVE SomeoneThere(i)' /\ Hidden(i)'
    <2>0. /\ table[j][e] \in Sessions /\ UNCHANGED <<dev, inst, told>>
          /\ pc' = [pc EXCEPT ![table[j][e]] = "closed"]
          /\ table' = [table EXCEPT ![j][e] = None]
      BY <1>4 DEF Kick
    <2>1. pc'[table[j][e]] = "closed"
      BY <2>0
    <2>2. ASSUME ~Known(i)', NEW s \in Sessions, pc'[s] = "open"
          PROVE  pc'[table'[inst'[s]][dev'[s]]] = "closed"
      <3>1. pc[s] = "open" /\ inst[s] \in Insts /\ dev[s] \in Devices
        BY <2>0, <2>2
      <3>2. table'[inst[s]][dev[s]] \in Sessions
        BY <1>e, <2>0, <2>2, <3>1
      <3>3. table'[inst[s]][dev[s]] = table[inst[s]][dev[s]]
        BY <2>0, <3>1, <3>2
      <3>4. pc[table[inst[s]][dev[s]]] = "closed"
        BY <1>0, <1>k, <2>0, <2>2, <3>1 DEF Hidden
      <3> QED
        BY <2>0, <3>2, <3>3, <3>4
    <2> QED
      BY <1>h, <2>0, <2>1, <2>2 DEF SomeoneThere
  <1>5. CASE Tick
    BY <1>0, <1>k, <1>5 DEF Tick, SomeoneThere, Hidden
  <1>6. ASSUME NEW j \in Insts, Crash(j) PROVE FALSE
    BY <1>0, <1>6 DEF Crash, Fault, Alone
  <1>7. ASSUME NEW j \in Insts, Boot(j) PROVE SomeoneThere(i)' /\ Hidden(i)'
    BY <1>0, <1>k, <1>7 DEF Boot, SomeoneThere, Hidden
  <1>8. CASE UNCHANGED vars
    BY <1>0, <1>k, <1>8 DEF vars, SomeoneThere, Hidden
  <1> QED
    BY <1>1, <1>2, <1>3, <1>4, <1>5, <1>6, <1>7, <1>8 DEF Next

\* Whenever no close handler is due, a friend with sessions on the user's instance
\* knows whether the user is online, as long as the user is on that instance only,
\* no session evicted another and MySQL and Redis answer: "online" to one session
\* of the friend and "offline" to all of them cannot leave him wrong.
THEOREM FriendsAreRight == Spec => []FriendsKnow
  <1> DEFINE IInv == Inv /\ OpenHasEntry /\ ToldFollows
  <1>1. Init => IInv
    <2>1. Init => OpenHasEntry /\ ToldFollows
      BY DEF Init, OpenHasEntry, ToldFollows, SomeoneThere, Hidden, Known, Local, IsOpen
    <2> QED
      BY <2>1, InitInv
  <1>2. IInv /\ [Next]_vars => IInv'
    <2> SUFFICES ASSUME IInv, [Next]_vars PROVE IInv'
      OBVIOUS
    <2>1. Inv'
      BY NextTypeOK, NextPlaced, NextListedIsLive, NextOpenIsListed DEF Inv
    <2>2. OpenHasEntry'
      BY NextOpenHasEntry
    <2> QED
      BY <2>1, <2>2, NextToldFollows
  <1>3. IInv => FriendsKnow
    <2> SUFFICES ASSUME IInv, Quiet, NEW i \in Insts, Alone(i)
                 PROVE  Known(i) <=> \E s \in Sessions : IsOpen(s)
      BY DEF FriendsKnow, Alone, Known
    <2>1. Known(i) => \E s \in Sessions : IsOpen(s)
      BY DEF ToldFollows, SomeoneThere, Quiet, IsOpen
    <2>2. ASSUME ~Known(i), NEW s \in Sessions, IsOpen(s) PROVE FALSE
      <3>1. inst[s] \in Insts /\ dev[s] \in Devices /\ Entry(s) # None
        BY <2>2 DEF Inv, TypeOK, Placed, OpenHasEntry, Alone, IsOpen
      <3>2. Entry(s) \in Sessions
        BY <3>1 DEF Inv, TypeOK, Entry
      <3>3. pc[Entry(s)] = "closed"
        BY <2>2, <3>1 DEF ToldFollows, Hidden
      <3> QED
        BY <3>2, <3>3 DEF Quiet
    <2> QED
      BY <2>1, <2>2
  <1> QED
    BY <1>1, <1>2, <1>3, PTL DEF Spec

-------------------------------------------------------------------------------
(* The pipeline.                                                           *)

\* The committed offset is behind the position, and no reader is past the end of
\* what it reads.  At least once, the offset follows the position at once.
Offsets ==
  /\ router.done <= router.pos /\ router.pos <= Len(imMessages)
  /\ mode = "once" => router.done = router.pos
  /\ \A i \in Instances : consumer[i] <= Len(commands)

\* A message that was not sent has no row and no record.
Sent ==
  /\ \A m \in Msgs : stage[m] = "new" => rows[m] = "none"
  /\ \A k \in 1..Len(imMessages) : stage[imMessages[k]] = "relayed"

\* What the router has read, committed or not, is on the way or was dropped.
ReadExplained ==
  \A k \in 1..router.pos : imMessages[k] \in Private =>
    imMessages[k] \in Range(commands) \cup Range(outq) \cup Range(batch) \cup dropped

\* Copies of m behind position n of a log.
Waiting(m, log, n) == Times(m, log, (n + 1)..Len(log))
One(x, S) == IF x \in S THEN 1 ELSE 0

\* The commands of the open transaction are made from records that a restart would
\* read again.
BatchIsUncommitted ==
  \A m \in Private :
    Waiting(m, batch, 0) <= Times(m, imMessages, (router.done + 1)..router.pos)

\* The copies of m that instance i has shown or may still show: on its channel, in
\* the commands it has not read, in the producer's queue, in records whose offset is
\* not committed, and the first record of a message that will be relayed.
Copies(i, m) ==
  shown[i][m] + One(m, channel[i]) + Waiting(m, commands, consumer[i])
    + Waiting(m, outq, 0) + Waiting(m, imMessages, router.done)
    + One(stage[m], {"new", "outbox"})

CopiesPaid == \A i \in Instances, m \in Private : Copies(i, m) <= 1 + spare[m]

PipeInv ==
  /\ PipeTypeOK /\ Offsets /\ Sent
  /\ SkipsExplained /\ ReadExplained /\ CommandsExplained /\ InlineExplained
  /\ BatchIsUncommitted /\ CopiesPaid

\* Counting positions of an interval gives a natural number.
LEMMA TimesNat ==
  ASSUME NEW m, NEW log, NEW a \in Int, NEW b \in Int
  PROVE  /\ IsFiniteSet({k \in a..b : log[k] = m})
         /\ Times(m, log, a..b) \in Nat
  <1> DEFINE T == {k \in a..b : log[k] = m}
  <1>1. IsFiniteSet(a..b)
    BY FS_Interval
  <1>2. IsFiniteSet(T)
    BY <1>1, FS_Subset, T \in SUBSET (a..b)
  <1> QED
    BY <1>2, FS_CardinalityType DEF Times

\* No copies in an empty interval, and in a single position what stands there.
LEMMA TimesEdge ==
  ASSUME NEW m, NEW log, NEW a \in Int, NEW b \in Int
  PROVE  /\ a > b => Times(m, log, a..b) = 0
         /\ a = b => Times(m, log, a..b) = One(log[a], {m})
  <1>1. ASSUME a > b PROVE Times(m, log, a..b) = 0
    <2>1. {k \in a..b : log[k] = m} = {}
      BY <1>1
    <2> QED
      BY <2>1, FS_EmptySet DEF Times
  <1>2. ASSUME a = b PROVE Times(m, log, a..b) = One(log[a], {m})
    <2>1. {k \in a..b : log[k] = m} = IF log[a] = m THEN {a} ELSE {}
      BY <1>2
    <2> QED
      BY <2>1, FS_EmptySet, FS_Singleton DEF Times, One
  <1> QED
    BY <1>1, <1>2

\* An interval is counted in two parts.
LEMMA TimesSplit ==
  ASSUME NEW m, NEW log, NEW a \in Nat, NEW b \in Nat, NEW c \in Nat, a <= b, b <= c
  PROVE  Times(m, log, (a + 1)..c)
           = Times(m, log, (a + 1)..b) + Times(m, log, (b + 1)..c)
  <1> DEFINE S(x, y) == {k \in (x + 1)..y : log[k] = m}
  <1>1. S(a, c) = S(a, b) \cup S(b, c) /\ S(a, b) \cap S(b, c) = {}
    OBVIOUS
  <1> HIDE DEF S
  <1>2. IsFiniteSet(S(a, b)) /\ IsFiniteSet(S(b, c))
    <2>1. a + 1 \in Int /\ b + 1 \in Int /\ b \in Int /\ c \in Int
      OBVIOUS
    <2> QED
      BY <2>1, TimesNat DEF S
  <1>3. Cardinality(S(a, b) \cup S(b, c))
          = Cardinality(S(a, b)) + Cardinality(S(b, c)) - Cardinality(S(a, b) \cap S(b, c))
    BY <1>2, FS_Union
  <1>4. Cardinality(S(a, b)) \in Nat /\ Cardinality(S(b, c)) \in Nat
    BY <1>2, FS_CardinalityType
  <1>5. Cardinality(S(a, c)) = Cardinality(S(a, b)) + Cardinality(S(b, c))
    BY <1>1, <1>3, <1>4, FS_EmptySet
  <1> QED
    BY <1>5 DEF Times, S

\* Logs that agree on the positions have the same copies there.
LEMMA TimesSame ==
  ASSUME NEW m, NEW S, NEW log, NEW new, \A k \in S : new[k] = log[k]
  PROVE  Times(m, new, S) = Times(m, log, S)
  <1>1. {k \in S : new[k] = m} = {k \in S : log[k] = m}
    OBVIOUS
  <1> QED
    BY <1>1 DEF Times

\* The copies in the second part of a log are those of the sequence added to it.
LEMMA TimesShifted ==
  ASSUME NEW X, NEW m, NEW s \in Seq(X), NEW t \in Seq(X)
  PROVE  Times(m, s \o t, (Len(s) + 1)..Len(s \o t)) = Waiting(m, t, 0)
  <1> DEFINE S == {k \in 1..Len(t) : t[k] = m}
             T == {k \in (Len(s) + 1)..Len(s \o t) : (s \o t)[k] = m}
             f == [k \in S |-> k + Len(s)]
  <1>1. Len(s) \in Nat /\ Len(t) \in Nat /\ Len(s \o t) = Len(s) + Len(t)
    OBVIOUS
  <1>2. \A k \in 1..Len(t) : (s \o t)[k + Len(s)] = t[k]
    OBVIOUS
  <1>3. f \in [S -> T]
    BY <1>1, <1>2
  <1>4. \A x, y \in S : f[x] = f[y] => x = y
    BY <1>1
  <1>5. \A y \in T : \E x \in S : f[x] = y
    <2> TAKE y \in T
    <2>1. y - Len(s) \in 1..Len(t) /\ (y - Len(s)) + Len(s) = y
      BY <1>1
    <2>2. y - Len(s) \in S
      BY <2>1, <1>2
    <2> QED
      BY <2>1, <2>2
  <1> HIDE DEF f
  <1>6. f \in Bijection(S, T)
    BY <1>3, <1>4, <1>5 DEF Bijection, Injection, Surjection, IsInjective
  <1>7. IsFiniteSet(S)
    BY <1>1, TimesNat, 1 \in Int, Len(t) \in Int
  <1>8. Cardinality(T) = Cardinality(S)
    <2> HIDE DEF S, T
    <2>1. ExistsBijection(S, T)
      BY <1>6 DEF ExistsBijection
    <2> QED
      BY <2>1, <1>7, FS_Bijection
  <1>9. Times(m, t, 1..Len(t)) = Waiting(m, t, 0)
    BY 0 + 1 = 1 DEF Waiting
  <1> QED
    BY <1>8, <1>9 DEF Times

\* What waits in a log is a number; behind the end nothing waits.
LEMMA WaitingNat ==
  ASSUME NEW X, NEW m, NEW log \in Seq(X), NEW n \in Nat
  PROVE  /\ Waiting(m, log, n) \in Nat
         /\ n >= Len(log) => Waiting(m, log, n) = 0
  <1>1. n + 1 \in Int /\ Len(log) \in Int
    OBVIOUS
  <1>2. Waiting(m, log, n) \in Nat
    BY <1>1, TimesNat DEF Waiting
  <1>3. ASSUME n >= Len(log) PROVE Waiting(m, log, n) = 0
    BY <1>1, <1>3, n + 1 > Len(log), TimesEdge DEF Waiting
  <1> QED
    BY <1>2, <1>3

\* A reader that is set back from k to n finds the copies in between again.
LEMMA WaitingAgain ==
  ASSUME NEW X, NEW m, NEW log \in Seq(X), NEW n \in Nat, NEW k \in Nat,
         n <= k, k <= Len(log)
  PROVE  Waiting(m, log, n) = Times(m, log, (n + 1)..k) + Waiting(m, log, k)
  BY TimesSplit, Len(log) \in Nat DEF Waiting

\* A reader that goes on by one record.
LEMMA WaitingNext ==
  ASSUME NEW X, NEW m, NEW log \in Seq(X), NEW n \in Nat, n < Len(log)
  PROVE  Waiting(m, log, n) = One(log[n + 1], {m}) + Waiting(m, log, n + 1)
  <1> DEFINE k == n + 1
  <1>1. k \in Nat /\ k \in Int /\ n <= k /\ k <= Len(log)
    OBVIOUS
  <1> HIDE DEF k
  <1>2. Times(m, log, k..k) = One(log[k], {m})
    BY <1>1, TimesEdge
  <1>3. Waiting(m, log, n) = Times(m, log, (n + 1)..k) + Waiting(m, log, k)
    BY <1>1, WaitingAgain
  <1> QED
    BY <1>2, <1>3 DEF k

\* What is added to a log waits for every reader.
LEMMA WaitingConcat ==
  ASSUME NEW X, NEW m, NEW s \in Seq(X), NEW t \in Seq(X), NEW n \in Nat, n <= Len(s)
  PROVE  Waiting(m, s \o t, n) = Waiting(m, s, n) + Waiting(m, t, 0)
  <1>1. s \o t \in Seq(X) /\ Len(s) \in Nat /\ Len(s) <= Len(s \o t)
    OBVIOUS
  <1>2. Waiting(m, s \o t, n)
          = Times(m, s \o t, (n + 1)..Len(s)) + Waiting(m, s \o t, Len(s))
    <2> DEFINE log == s \o t
               k == Len(s)
    <2>1. log \in Seq(X) /\ k \in Nat /\ n <= k /\ k <= Len(log)
      BY <1>1
    <2> HIDE DEF log, k
    <2>2. Waiting(m, log, n) = Times(m, log, (n + 1)..k) + Waiting(m, log, k)
      BY <2>1, WaitingAgain
    <2> QED
      BY <2>2 DEF log, k
  <1>3. Times(m, s \o t, (n + 1)..Len(s)) = Times(m, s, (n + 1)..Len(s))
    <2>1. \A k \in (n + 1)..Len(s) : (s \o t)[k] = s[k]
      OBVIOUS
    <2> QED
      BY <2>1, TimesSame
  <1>4. Waiting(m, s \o t, Len(s)) = Waiting(m, t, 0)
    BY TimesShifted DEF Waiting
  <1> QED
    BY <1>2, <1>3, <1>4 DEF Waiting

\* A single record waits if it is the one that is counted.
LEMMA WaitingSingle ==
  ASSUME NEW m, NEW x
  PROVE  Waiting(m, <<x>>, 0) = One(x, {m})
  <1>1. Len(<<x>>) = 1 /\ 0 + 1 = 1 /\ <<x>>[1] = x
    OBVIOUS
  <1>2. Times(m, <<x>>, 1..1) = One(<<x>>[1], {m})
    BY TimesEdge, 1 \in Int
  <1> QED
    BY <1>1, <1>2 DEF Waiting

\* A record appended to a log waits for every reader.
LEMMA WaitingAppend ==
  ASSUME NEW X, NEW m, NEW s \in Seq(X), NEW x \in X, NEW n \in Nat, n <= Len(s)
  PROVE  Waiting(m, Append(s, x), n) = Waiting(m, s, n) + One(x, {m})
  <1>1. Append(s, x) = s \o <<x>> /\ <<x>> \in Seq(X)
    OBVIOUS
  <1>2. Waiting(m, s \o <<x>>, n) = Waiting(m, s, n) + Waiting(m, <<x>>, 0)
    BY <1>1, WaitingConcat
  <1> QED
    BY <1>1, <1>2, WaitingSingle

\* A queue that loses its head.
LEMMA WaitingTail ==
  ASSUME NEW X, NEW m, NEW s \in Seq(X), s # <<>>
  PROVE  Waiting(m, s, 0) = One(Head(s), {m}) + Waiting(m, Tail(s), 0)
  <1>1. s = <<Head(s)>> \o Tail(s) /\ <<Head(s)>> \in Seq(X) /\ Tail(s) \in Seq(X)
    OBVIOUS
  <1>2. Waiting(m, <<Head(s)>> \o Tail(s), 0)
          = Waiting(m, <<Head(s)>>, 0) + Waiting(m, Tail(s), 0)
    BY <1>1, WaitingConcat, 0 <= Len(<<Head(s)>>)
  <1> QED
    BY <1>1, <1>2, WaitingSingle

\* The commands of a record: a copy of the message, if it is a private one.
LEMMA WaitingRoute ==
  ASSUME NEW m \in Private, NEW x
  PROVE  /\ route(x) \in Seq(Private)
         /\ Waiting(m, route(x), 0) = One(x, {m})
  <1>1. CASE x \in Private
    BY <1>1, WaitingSingle DEF route
  <1>2. CASE x \notin Private
    <2>1. <<>> \in Seq(Private) /\ 0 >= Len(<<>>)
      OBVIOUS
    <2>2. Waiting(m, <<>>, 0) = 0
      BY <2>1, WaitingNat
    <2> QED
      BY <1>2, <2>1, <2>2 DEF route, One
  <1> QED
    BY <1>1, <1>2

\* Who is in a sequence that grows or loses its head.
LEMMA RangeGrows ==
  ASSUME NEW X, NEW s \in Seq(X), NEW t \in Seq(X)
  PROVE  Range(s \o t) = Range(s) \cup Range(t)
  <1>1. ASSUME NEW k \in DOMAIN (s \o t)
        PROVE (s \o t)[k] \in Range(s) \cup Range(t)
    <2>1. CASE k <= Len(s)
      BY <2>1 DEF Range
    <2>2. CASE k > Len(s)
      <3>1. k - Len(s) \in DOMAIN t /\ (s \o t)[k] = t[k - Len(s)]
        BY <2>2
      <3> QED
        BY <3>1 DEF Range
    <2> QED
      BY <2>1, <2>2
  <1>2. ASSUME NEW k \in DOMAIN s PROVE s[k] \in Range(s \o t)
    <2>1. k \in DOMAIN (s \o t) /\ (s \o t)[k] = s[k]
      OBVIOUS
    <2> QED
      BY <2>1 DEF Range
  <1>3. ASSUME NEW k \in DOMAIN t PROVE t[k] \in Range(s \o t)
    <2>1. k + Len(s) \in DOMAIN (s \o t) /\ (s \o t)[k + Len(s)] = t[k]
      OBVIOUS
    <2> QED
      BY <2>1 DEF Range
  <1> QED
    BY <1>1, <1>2, <1>3 DEF Range

\* The members of a sequence of one.
LEMMA RangeOfOne == ASSUME NEW x PROVE Range(<<x>>) = {x}
  BY DEF Range

\* A head that moves from one sequence to the end of another.
LEMMA RangeMoves ==
  ASSUME NEW X, NEW s \in Seq(X), s # <<>>, NEW t \in Seq(X)
  PROVE  /\ Range(s) = {Head(s)} \cup Range(Tail(s))
         /\ Range(Append(t, Head(s))) = Range(t) \cup {Head(s)}
  <1>1. /\ s = <<Head(s)>> \o Tail(s) /\ Append(t, Head(s)) = t \o <<Head(s)>>
        /\ <<Head(s)>> \in Seq(X) /\ Tail(s) \in Seq(X)
    OBVIOUS
  <1>2. Range(<<Head(s)>> \o Tail(s)) = Range(<<Head(s)>>) \cup Range(Tail(s))
    <2> DEFINE one == <<Head(s)>>
               rest == Tail(s)
    <2>1. one \in Seq(X) /\ rest \in Seq(X)
      BY <1>1
    <2> HIDE DEF one, rest
    <2>2. Range(one \o rest) = Range(one) \cup Range(rest)
      BY <2>1, RangeGrows
    <2> QED
      BY <2>2 DEF one, rest
  <1>3. Range(t \o <<Head(s)>>) = Range(t) \cup Range(<<Head(s)>>)
    <2> DEFINE one == <<Head(s)>>
    <2>1. one \in Seq(X)
      BY <1>1
    <2> HIDE DEF one
    <2>2. Range(t \o one) = Range(t) \cup Range(one)
      BY <2>1, RangeGrows
    <2> QED
      BY <2>2 DEF one
  <1> QED
    BY <1>1, <1>2, <1>3, RangeOfOne, Zenon

\* The ghost spare: what an event adds to it is a number for every message.
LEMMA SpareAdds ==
  ASSUME PipeTypeOK, NEW n \in [Private -> Nat], Spare(n)
  PROVE  spare' \in [Private -> Nat] /\ \A m \in Private : spare'[m] = spare[m] + n[m]
  BY DEF PipeTypeOK, Spare

\* A failure is counted within its bound.
LEMMA FailureTypes ==
  ASSUME PipeTypeOK, Failure \/ UNCHANGED failures
  PROVE  failures' \in 0..MaxFailures
  BY PipelineAssumption DEF PipeTypeOK, Failure

\* The loop of the transactional router ends with an empty transaction.
LEMMA EndTxTypes ==
  ASSUME EndTx
  PROVE  batch' \in Seq(Private) /\ inBatch' \in 0..BatchMax
  BY PipelineAssumption DEF EndTx

\* One copy, and the copies at an interval of a log, are numbers for every message.
LEMMA OnceAgain ==
  ASSUME NEW x, NEW log, NEW a \in Int, NEW b \in Int
  PROVE  /\ Once(x) \in [Private -> Nat]
         /\ Again(log, a..b) \in [Private -> Nat]
  <1>1. \A m \in Private : Times(m, log, a..b) \in Nat
    BY TimesNat
  <1> QED
    BY <1>1 DEF Once, Again

\* One more frame for a session changes its count and no other.
LEMMA ShowAdds ==
  ASSUME PipeTypeOK, NEW i \in Instances, NEW m \in Private, Show(i, m)
  PROVE  /\ shown' \in [Instances -> [Private -> Nat]]
         /\ \A j \in Instances, n \in Private :
              shown'[j][n] = shown[j][n] + IF j = i /\ n = m /\ i \in online THEN 1 ELSE 0
  <1>1. shown \in [Instances -> [Private -> Nat]] /\ shown[i][m] + 1 \in Nat
    BY DEF PipeTypeOK
  <1>2. CASE i \in online
    <2>1. shown' = [shown EXCEPT ![i] = [shown[i] EXCEPT ![m] = shown[i][m] + 1]]
      BY <1>2 DEF Show
    <2>2. [shown[i] EXCEPT ![m] = shown[i][m] + 1] \in [Private -> Nat]
      BY <1>1
    <2> QED
      BY <1>1, <1>2, <2>1, <2>2
  <1>3. CASE i \notin online
    BY <1>1, <1>3 DEF Show
  <1> QED
    BY <1>2, <1>3

\* The inline path adds a copy of m at most once at an instance, on its screen or on
\* its channel, and nothing of any other message.
LEMMA InlineAdds ==
  ASSUME PipeTypeOK, NEW m \in Private, Inline(m)
  PROVE  /\ shown' \in [Instances -> [Private -> Nat]]
         /\ channel' \in [Instances -> SUBSET Private]
         /\ unread' \subseteq Private /\ unheard' \subseteq Private
         /\ unread \subseteq unread' /\ unheard \subseteq unheard'
         /\ \A i \in Instances, n \in Private :
              /\ shown'[i][n] >= shown[i][n]
              /\ channel[i] \subseteq channel'[i]
              /\ shown'[i][n] + One(n, channel'[i])
                   <= shown[i][n] + One(n, channel[i]) + One(n, {m})
         /\ \/ \E i \in Instances : shown'[i][m] > 0 \/ m \in channel'[i]
            \/ m \in unread' \cup unheard'
  <1> DEFINE Goal ==
         /\ shown' \in [Instances -> [Private -> Nat]]
         /\ channel' \in [Instances -> SUBSET Private]
         /\ unread' \subseteq Private /\ unheard' \subseteq Private
         /\ unread \subseteq unread' /\ unheard \subseteq unheard'
         /\ \A i \in Instances, n \in Private :
              /\ shown'[i][n] >= shown[i][n]
              /\ channel[i] \subseteq channel'[i]
              /\ shown'[i][n] + One(n, channel'[i])
                   <= shown[i][n] + One(n, channel[i]) + One(n, {m})
         /\ \/ \E i \in Instances : shown'[i][m] > 0 \/ m \in channel'[i]
            \/ m \in unread' \cup unheard'
  <1>0. /\ Here \in Instances
        /\ shown \in [Instances -> [Private -> Nat]]
        /\ channel \in [Instances -> SUBSET Private]
        /\ unread \subseteq Private /\ unheard \subseteq Private
    BY PipelineAssumption DEF PipelineAssumption, PipeTypeOK
  <1>1. ASSUME Here \in online, Show(Here, m), UNCHANGED <<channel, unread, unheard>>
        PROVE  Goal
    <2>1. /\ shown' \in [Instances -> [Private -> Nat]]
          /\ \A j \in Instances, n \in Private :
               shown'[j][n] = shown[j][n] + IF j = Here /\ n = m /\ Here \in online THEN 1 ELSE 0
      BY <1>0, <1>1, ShowAdds
    <2>2. shown'[Here][m] > 0
      BY <1>0, <1>1, <2>1
    <2>3. ASSUME NEW i \in Instances, NEW n \in Private
          PROVE  /\ shown'[i][n] >= shown[i][n]
                 /\ channel[i] \subseteq channel'[i]
                 /\ shown'[i][n] + One(n, channel'[i])
                      <= shown[i][n] + One(n, channel[i]) + One(n, {m})
      <3>1. shown[i][n] \in Nat /\ channel'[i] = channel[i]
        BY <1>0, <1>1
      <3>2. shown'[i][n] = shown[i][n] \/ (n = m /\ shown'[i][n] = shown[i][n] + 1)
        BY <2>1, <3>1
      <3> QED
        BY <3>1, <3>2 DEF One
    <2> QED
      BY <1>0, <1>1, <2>1, <2>2, <2>3
  <1>2. ASSUME NEW P \in SUBSET Instances, P # {}, Publish(m, P), UNCHANGED shown,
               unread' \in {unread, unread \cup {m}}
        PROVE  Goal
    <2>1. channel' \in [Instances -> SUBSET Private]
      BY <1>0, <1>2 DEF Publish
    <2>2. \/ \E i \in Instances : m \in channel'[i]
          \/ m \in unheard'
      BY <1>0, <1>2 DEF Publish, PipeTypeOK
    <2>3. unheard \subseteq unheard' /\ unheard' \subseteq Private
      BY <1>0, <1>2 DEF Publish
    <2>4. unread \subseteq unread' /\ unread' \subseteq Private
      BY <1>0, <1>2
    <2>5. ASSUME NEW i \in Instances, NEW n \in Private
          PROVE  /\ shown'[i][n] >= shown[i][n]
                 /\ channel[i] \subseteq channel'[i]
                 /\ shown'[i][n] + One(n, channel'[i])
                      <= shown[i][n] + One(n, channel[i]) + One(n, {m})
      <3>1. shown[i][n] \in Nat /\ shown'[i][n] = shown[i][n]
        BY <1>0, <1>2
      <3>2. channel'[i] = channel[i] \/ channel'[i] = channel[i] \cup {m}
        BY <1>2 DEF Publish
      <3> QED
        BY <3>1, <3>2 DEF One
    <2> QED
      BY <1>0, <1>2, <2>1, <2>2, <2>3, <2>4, <2>5
  <1>3. ASSUME CountUnread(m), UNCHANGED <<shown, channel>>
        PROVE  Goal
    <2>1. ASSUME NEW i \in Instances, NEW n \in Private
          PROVE  /\ shown'[i][n] >= shown[i][n]
                 /\ shown'[i][n] + One(n, channel'[i])
                      <= shown[i][n] + One(n, channel[i]) + One(n, {m})
      <3>1. shown[i][n] \in Nat /\ shown'[i][n] = shown[i][n]
        BY <1>0, <1>3
      <3> QED
        BY <1>3, <3>1 DEF One
    <2>2. /\ unread' \subseteq Private /\ unheard' \subseteq Private
          /\ unread \subseteq unread' /\ unheard \subseteq unheard'
          /\ m \in unread' \cup unheard'
      BY <1>0, <1>3 DEF CountUnread
    <2> QED
      BY <1>0, <1>3, <2>1, <2>2
  <1>4. CASE Here \in online /\ Show(Here, m) /\ UNCHANGED <<channel, unread, unheard>>
    BY <1>1, <1>4
  <1>5. CASE \E P \in SUBSET (Instances \ {Here}) :
               /\ P # {} /\ Publish(m, P) /\ UNCHANGED shown
               /\ unread' \in {unread, unread \cup {m}}
    <2>1. PICK P \in SUBSET (Instances \ {Here}) :
            /\ P # {} /\ Publish(m, P) /\ UNCHANGED shown
            /\ unread' \in {unread, unread \cup {m}}
      BY <1>5
    <2>2. P \in SUBSET Instances
      BY <2>1
    <2> QED
      BY <1>2, <2>1, <2>2
  <1>6. CASE CountUnread(m) /\ UNCHANGED <<shown, channel>>
    BY <1>3, <1>6
  <1> QED
    BY <1>4, <1>5, <1>6 DEF Inline

\* Every action keeps the variables in their types.
LEMMA PipeNextTypeOK == PipeTypeOK /\ Offsets /\ [PipeNext]_pipeVars => PipeTypeOK'
  <1> SUFFICES ASSUME PipeTypeOK, Offsets, [PipeNext]_pipeVars PROVE PipeTypeOK'
    OBVIOUS
  <1> USE PipelineAssumption DEF PipelineAssumption, intake, routing, delivery
  <1>1. ASSUME NEW m \in Msgs, Save(m) PROVE PipeTypeOK'
    BY <1>1 DEF Save, PipeTypeOK
  <1>2. ASSUME NEW m \in Msgs, SaveFails(m) PROVE PipeTypeOK'
    <2>1. m \in Private
      BY <1>2 DEF SaveFails
    <2>2. /\ shown' \in [Instances -> [Private -> Nat]]
          /\ channel' \in [Instances -> SUBSET Private]
          /\ unread' \subseteq Private /\ unheard' \subseteq Private
      BY <1>2, <2>1, InlineAdds DEF SaveFails
    <2>3. spare' \in [Private -> Nat]
      BY <1>2, SpareAdds, OnceAgain, 0 \in Int DEF SaveFails, PipeTypeOK
    <2>4. /\ stage' \in [Msgs -> {"new", "sent", "outbox", "relayed"}]
          /\ rows' \in [Msgs -> {"none", "saved", "edited"}]
      BY <1>2 DEF SaveFails, PipeTypeOK
    <2>5. failures' \in 0..MaxFailures
      BY <1>2 DEF SaveFails, Failure, PipeTypeOK
    <2>6. UNCHANGED <<mode, online, imMessages, routing, consumer, subscribed, absent>>
      BY <1>2 DEF SaveFails
    <2> QED
      BY <2>2, <2>3, <2>4, <2>5, <2>6 DEF PipeTypeOK
  <1>3. ASSUME NEW m \in Msgs, Relay(m) PROVE PipeTypeOK'
    <2>1. spare' \in [Private -> Nat]
      BY <1>3, SpareAdds, OnceAgain, 0 \in Int DEF Relay, PipeTypeOK
    <2>2. imMessages' \in Seq(Msgs)
      BY <1>3 DEF Relay, PipeTypeOK
    <2>3. failures' \in 0..MaxFailures
      BY <1>3, FailureTypes DEF Relay
    <2>4. stage' \in [Msgs -> {"new", "sent", "outbox", "relayed"}]
      BY <1>3 DEF Relay, PipeTypeOK
    <2>5. UNCHANGED <<mode, online, rows, unread, unheard, routing, delivery, shown>>
      BY <1>3 DEF Relay
    <2> QED
      BY <2>1, <2>2, <2>3, <2>4, <2>5 DEF PipeTypeOK
  <1>4. ASSUME NEW m \in Msgs, Edit(m) PROVE PipeTypeOK'
    BY <1>4 DEF Edit, PipeTypeOK
  <1>5. ASSUME NEW k \in DOMAIN imMessages, Persist(k) PROVE PipeTypeOK'
    <2>1. imMessages[k] \in Msgs
      BY DEF PipeTypeOK
    <2> QED
      BY <1>5, <2>1 DEF Persist, Insert, PipeTypeOK
  <1>6. ASSUME Route PROVE PipeTypeOK'
    <2>1. Next1 \in Msgs /\ route(Next1) \in Seq(Private)
      BY <1>6 DEF Route, Next1, PipeTypeOK, route
    <2>2. outq \in Seq(Private) /\ dropped \subseteq Private /\ router \in [pos : Nat, done : Nat]
      BY DEF PipeTypeOK
    <2>3. outq' \in Seq(Private) /\ dropped' \subseteq Private
      <3>1. outq \o route(Next1) \in Seq(Private)
        BY <2>1, <2>2
      <3>2. \/ outq' = outq \o route(Next1) /\ dropped' = dropped
            \/ outq' = outq /\ Next1 \in Private /\ dropped' = dropped \cup {Next1}
        BY <1>6 DEF Route
      <3> QED
        BY <2>2, <3>1, <3>2
    <2>4. failures' \in 0..MaxFailures
      BY <1>6, FailureTypes DEF Route
    <2>5. router' \in [pos : Nat, done : Nat]
      BY <1>6, <2>2 DEF Route, AdvanceAndCommit
    <2>6. UNCHANGED <<mode, online, intake, batch, inBatch, commands, delivery,
                      shown, spare>>
      BY <1>6 DEF Route
    <2> QED
      BY <2>3, <2>4, <2>5, <2>6, SMTT(30) DEF PipeTypeOK
  <1>7. ASSUME Produce PROVE PipeTypeOK'
    BY <1>7 DEF Produce, PipeTypeOK
  <1>8. ASSUME TxRoute PROVE PipeTypeOK'
    <2>1. route(Next1) \in Seq(Private)
      BY DEF route
    <2>2. batch \o route(Next1) \in Seq(Private)
      BY <2>1 DEF PipeTypeOK
    <2>3. router' \in [pos : Nat, done : Nat] /\ inBatch' \in 0..BatchMax
      <3>1. router \in [pos : Nat, done : Nat] /\ inBatch \in 0..BatchMax /\ BatchMax \in Nat
        BY DEF PipeTypeOK
      <3>2. inBatch' = inBatch + 1 /\ inBatch < BatchMax
        BY <1>8 DEF TxRoute
      <3>3. router' = [router EXCEPT !.pos = @ + 1]
        BY <1>8 DEF TxRoute, Advance
      <3> QED
        BY <3>1, <3>2, <3>3
    <2>4. batch' \in Seq(Private)
      BY <1>8, <2>2 DEF TxRoute
    <2>5. UNCHANGED <<mode, online, intake, outq, commands, dropped, delivery,
                      shown, failures, spare>>
      BY <1>8 DEF TxRoute
    <2> QED
      BY <2>3, <2>4, <2>5 DEF PipeTypeOK
  <1>9. ASSUME TxCommit PROVE PipeTypeOK'
    <2>1. /\ commands \in Seq(Private) /\ batch \in Seq(Private)
          /\ router \in [pos : Nat, done : Nat]
      BY DEF PipeTypeOK
    <2>2. commands \o batch \in Seq(Private)
      BY <2>1
    <2>3. commands' \in Seq(Private) /\ router' \in [pos : Nat, done : Nat]
      BY <1>9, <2>1, <2>2 DEF TxCommit
    <2>4. batch' \in Seq(Private) /\ inBatch' \in 0..BatchMax
      BY <1>9, EndTxTypes DEF TxCommit
    <2>5. UNCHANGED <<mode, online, intake, outq, dropped, delivery, shown,
                      failures, spare>>
      BY <1>9 DEF TxCommit
    <2> QED
      BY <2>3, <2>4, <2>5 DEF PipeTypeOK
  <1>10. ASSUME TxOffsetsFail PROVE PipeTypeOK'
    <2>1. DOMAIN batch = 1..Len(batch) /\ Len(batch) \in Int
      BY DEF PipeTypeOK
    <2>2. spare' \in [Private -> Nat]
      BY <1>10, <2>1, SpareAdds, OnceAgain, 1 \in Int DEF TxOffsetsFail
    <2>3. commands' \in Seq(Private)
      BY <1>10 DEF TxOffsetsFail, PipeTypeOK
    <2>4. batch' \in Seq(Private) /\ inBatch' \in 0..BatchMax /\ failures' \in 0..MaxFailures
      BY <1>10, EndTxTypes, FailureTypes DEF TxOffsetsFail
    <2>5. UNCHANGED <<mode, online, intake, router, outq, dropped, delivery, shown>>
      BY <1>10 DEF TxOffsetsFail
    <2> QED
      BY <2>2, <2>3, <2>4, <2>5, SMTT(30) DEF PipeTypeOK
  <1>11. ASSUME TxAbort PROVE PipeTypeOK'
    <2>1. Range(batch) \subseteq Private
      BY DEF PipeTypeOK, Range
    <2>2. dropped' \subseteq Private /\ router' \in [pos : Nat, done : Nat]
      BY <1>11, <2>1, SMTT(30) DEF TxAbort, Advance, PipeTypeOK
    <2>3. batch' \in Seq(Private) /\ inBatch' \in 0..BatchMax /\ failures' \in 0..MaxFailures
      BY <1>11, EndTxTypes, FailureTypes DEF TxAbort
    <2>4. UNCHANGED <<mode, online, intake, outq, commands, delivery, shown, spare>>
      BY <1>11 DEF TxAbort
    <2> QED
      BY <2>2, <2>3, <2>4 DEF PipeTypeOK
  <1>12. ASSUME RouterRestarts PROVE PipeTypeOK'
    <2>1. Range(outq) \subseteq Private
      BY DEF PipeTypeOK, Range
    <2>2. PICK n : /\ n \in (IF mode = "once" THEN Reread(router.done) ELSE {router.done})
                   /\ router' = [pos |-> n, done |-> n]
                   /\ Spare(Again(imMessages, (n + 1)..router.done))
      BY <1>12 DEF RouterRestarts
    <2>3. router.done \in Nat /\ n \in Nat
      BY <2>2 DEF Reread, PipeTypeOK
    <2>4. Again(imMessages, (n + 1)..router.done) \in [Private -> Nat]
      BY <2>3, OnceAgain, n + 1 \in Int
    <2>5. spare' \in [Private -> Nat]
      BY <2>2, <2>4, SpareAdds
    <2> QED
      BY <1>12, <2>1, <2>2, <2>3, <2>5 DEF RouterRestarts, Failure, EndTx, PipeTypeOK
  <1>13. ASSUME NEW i \in Instances, PushCommand(i) PROVE PipeTypeOK'
    <2>1. /\ commands \in Seq(Private) /\ consumer[i] \in Nat
          /\ consumer[i] < Len(commands)
      BY <1>13 DEF PushCommand, PipeTypeOK
    <2>2. commands[consumer[i] + 1] \in Private
      BY <2>1
    <2>3. shown' \in [Instances -> [Private -> Nat]]
      BY <1>13, <2>2, ShowAdds DEF PushCommand, Push
    <2>4. consumer \in [Instances -> Nat] /\ absent \in [Instances -> SUBSET Private]
      BY DEF PipeTypeOK
    <2>5. consumer' \in [Instances -> Nat] /\ absent' \in [Instances -> SUBSET Private]
      BY <1>13, <2>2, <2>4 DEF PushCommand, Push
    <2>6. UNCHANGED <<mode, online, intake, routing, subscribed, channel, failures, spare>>
      BY <1>13 DEF PushCommand
    <2> QED
      BY <2>3, <2>5, <2>6 DEF PipeTypeOK
  <1>14. ASSUME NEW i \in Instances, InstanceRestarts(i) PROVE PipeTypeOK'
    <2>1. PICK n \in Reread(consumer[i]) :
            /\ consumer' = [consumer EXCEPT ![i] = n]
            /\ Spare(Again(commands, (n + 1)..consumer[i]))
      BY <1>14 DEF InstanceRestarts
    <2>2. consumer[i] \in Nat /\ n \in Nat
      BY <2>1 DEF Reread, PipeTypeOK
    <2>3. Again(commands, (n + 1)..consumer[i]) \in [Private -> Nat]
      BY <2>2, OnceAgain, n + 1 \in Int
    <2>4. spare' \in [Private -> Nat]
      BY <2>1, <2>3, SpareAdds
    <2>5. consumer' \in [Instances -> Nat]
      BY <2>1, <2>2 DEF PipeTypeOK
    <2>6. /\ channel' \in [Instances -> SUBSET Private] /\ unheard' \subseteq Private
          /\ subscribed' \subseteq Instances /\ online' \subseteq Instances
      BY <1>14 DEF InstanceRestarts, Deafen, PipeTypeOK
    <2>7. failures' \in 0..MaxFailures
      BY <1>14, FailureTypes DEF InstanceRestarts
    <2>8. UNCHANGED <<mode, stage, rows, imMessages, unread, routing, absent, shown>>
      BY <1>14 DEF InstanceRestarts
    <2> QED
      BY <2>4, <2>5, <2>6, <2>7, <2>8 DEF PipeTypeOK
  <1>15. ASSUME NEW i \in Instances, Subscribe(i) \/ Connect(i) \/ Disconnect(i)
         PROVE  PipeTypeOK'
    BY <1>15 DEF Subscribe, Connect, Disconnect, PipeTypeOK
  <1>18. ASSUME NEW i \in Instances, Unsubscribe(i) PROVE PipeTypeOK'
    <2>1. /\ channel' \in [Instances -> SUBSET Private] /\ unheard' \subseteq Private
          /\ subscribed' \subseteq Instances
      BY <1>18 DEF Unsubscribe, Deafen, PipeTypeOK
    <2>2. failures' \in 0..MaxFailures
      BY <1>18, FailureTypes DEF Unsubscribe
    <2>3. UNCHANGED <<mode, online, stage, rows, imMessages, unread, routing, consumer,
                      absent, shown, spare>>
      BY <1>18 DEF Unsubscribe
    <2> QED
      BY <2>1, <2>2, <2>3 DEF PipeTypeOK
  <1>16. ASSUME NEW i \in Instances, NEW m \in Private, Deliver(i, m) PROVE PipeTypeOK'
    <2>1. shown' \in [Instances -> [Private -> Nat]]
      BY <1>16, ShowAdds DEF Deliver
    <2> QED
      BY <1>16, <2>1 DEF Deliver, PipeTypeOK
  <1>19. ASSUME ProduceFails PROVE PipeTypeOK'
    <2>1. failures' \in 0..MaxFailures
      BY <1>19, FailureTypes DEF ProduceFails
    <2> QED
      BY <1>19, <2>1 DEF ProduceFails, PipeTypeOK
  <1>17. CASE UNCHANGED pipeVars
    BY <1>17 DEF pipeVars, PipeTypeOK
  <1> QED
    BY <1>1, <1>2, <1>3, <1>4, <1>5, <1>6, <1>7, <1>8, <1>9, <1>10, <1>11, <1>12, <1>13,
       <1>14, <1>15, <1>16, <1>17, <1>18, <1>19 DEF PipeNext

\* The three groups of actions, and what each leaves alone.
IntakeStep ==
  \/ \E m \in Msgs : Save(m) \/ SaveFails(m) \/ Relay(m) \/ Edit(m)
  \/ \E k \in DOMAIN imMessages : Persist(k)
RouterStep ==
  \/ Route \/ Produce \/ ProduceFails \/ RouterRestarts
  \/ TxRoute \/ TxCommit \/ TxOffsetsFail \/ TxAbort
SessionStep(i) == Connect(i) \/ Disconnect(i)
InstanceStep ==
  \E i \in Instances : \/ PushCommand(i) \/ InstanceRestarts(i) \/ SessionStep(i)
                       \/ Unsubscribe(i) \/ Subscribe(i)
                       \/ \E m \in Private : Deliver(i, m)

\* Messages, records and sessions, router, and instances are changed by different steps.
LEMMA StepsLeave ==
  /\ [PipeNext]_pipeVars => IntakeStep \/ RouterStep \/ InstanceStep \/ UNCHANGED pipeVars
  /\ IntakeStep => UNCHANGED <<mode, online, routing, consumer, absent>>
  /\ RouterStep => UNCHANGED <<mode, online, intake, delivery, shown>>
  /\ InstanceStep => UNCHANGED <<mode, stage, rows, imMessages, unread, routing>>
  <1> USE DEF intake, routing, delivery
  <1>1. [PipeNext]_pipeVars => IntakeStep \/ RouterStep \/ InstanceStep \/ UNCHANGED pipeVars
    BY DEF PipeNext, IntakeStep, RouterStep, InstanceStep, SessionStep
  <1>2. IntakeStep => UNCHANGED <<mode, online, routing, consumer, absent>>
    BY DEF IntakeStep, Save, SaveFails, Relay, Edit, Persist
  <1>3. RouterStep => UNCHANGED <<mode, online, intake, delivery, shown>>
    BY DEF RouterStep, Route, Produce, ProduceFails, TxRoute, TxCommit, TxOffsetsFail, TxAbort,
           RouterRestarts
  <1>4. InstanceStep => UNCHANGED <<mode, stage, rows, imMessages, unread, routing>>
    BY DEF InstanceStep, PushCommand, InstanceRestarts, Subscribe, Unsubscribe, Deliver,
           SessionStep, Connect, Disconnect
  <1> QED
    BY <1>1, <1>2, <1>3, <1>4

\* im.messages changes in one way: a relayed message is added at its end.
LEMMA RecordsGrow ==
  ASSUME PipeTypeOK, [PipeNext]_pipeVars
  PROVE  /\ imMessages' \in Seq(Msgs) /\ Len(imMessages) <= Len(imMessages')
         /\ \A k \in 1..Len(imMessages) : imMessages'[k] = imMessages[k]
         /\ \/ imMessages' = imMessages
            \/ \E m \in Msgs : Relay(m) /\ imMessages' = Append(imMessages, m)
  <1>1. imMessages \in Seq(Msgs)
    BY DEF PipeTypeOK
  <1>2. \/ imMessages' = imMessages
        \/ \E m \in Msgs : Relay(m) /\ imMessages' = Append(imMessages, m)
    <2>1. ASSUME IntakeStep PROVE <1>2!1 \/ <1>2!2
      BY <2>1 DEF IntakeStep, Save, SaveFails, Relay, Edit, Persist
    <2>2. CASE UNCHANGED pipeVars
      BY <2>2 DEF pipeVars, intake
    <2>3. CASE RouterStep
      BY <2>3, StepsLeave DEF intake
    <2>4. CASE InstanceStep
      BY <2>4, StepsLeave
    <2> QED
      BY <2>1, <2>2, <2>3, <2>4, StepsLeave
  <1>3. ASSUME NEW m \in Msgs, imMessages' = Append(imMessages, m)
        PROVE  /\ imMessages' \in Seq(Msgs) /\ Len(imMessages) <= Len(imMessages')
               /\ \A k \in 1..Len(imMessages) : imMessages'[k] = imMessages[k]
    BY <1>1, <1>3
  <1>4. ASSUME imMessages' = imMessages
        PROVE  /\ imMessages' \in Seq(Msgs) /\ Len(imMessages) <= Len(imMessages')
               /\ \A k \in 1..Len(imMessages) : imMessages'[k] = imMessages[k]
    BY <1>1, <1>4
  <1> QED
    BY <1>2, <1>3, <1>4

\* The positions of the router and of the instances stay in order.
LEMMA NextOffsets == PipeTypeOK /\ Offsets /\ [PipeNext]_pipeVars => Offsets'
  <1> SUFFICES ASSUME PipeTypeOK, Offsets, [PipeNext]_pipeVars PROVE Offsets'
    OBVIOUS
  <1>0. /\ router \in [pos : Nat, done : Nat] /\ consumer \in [Instances -> Nat]
        /\ commands \in Seq(Private) /\ outq \in Seq(Private) /\ batch \in Seq(Private)
        /\ imMessages \in Seq(Msgs)
        /\ Len(imMessages') \in Nat /\ Len(imMessages) <= Len(imMessages')
    BY RecordsGrow DEF PipeTypeOK
  <1>1. CASE IntakeStep
    BY <1>0, <1>1, StepsLeave DEF routing, Offsets
  <1>2. CASE RouterStep
    <2>0. mode' = mode /\ imMessages' = imMessages /\ consumer' = consumer
      BY <1>2, StepsLeave DEF intake, delivery
    <2>1. \/ commands' = commands
          \/ commands' = commands \o batch
          \/ outq # <<>> /\ commands' = Append(commands, Head(outq))
      BY <1>2 DEF RouterStep, Route, Produce, ProduceFails, TxRoute, TxCommit, TxOffsetsFail,
                  TxAbort, RouterRestarts
    <2>2. \A i \in Instances : consumer'[i] <= Len(commands')
      <3>1. Len(commands) <= Len(commands')
        BY <1>0, <2>1
      <3>2. Len(commands') \in Nat
        BY <1>0, <2>1
      <3> QED
        BY <1>0, <2>0, <3>1, <3>2 DEF Offsets
    <2>3. \/ router' = router
          \/ /\ router' = [pos |-> router.pos + 1, done |-> router.pos + 1]
             /\ mode = "once" /\ router.pos < Len(imMessages)
          \/ /\ router' = [router EXCEPT !.pos = @ + 1]
             /\ mode = "tx" /\ router.pos < Len(imMessages)
          \/ router' = [router EXCEPT !.done = router.pos]
          \/ \E n \in (IF mode = "once" THEN Reread(router.done) ELSE {router.done}) :
               router' = [pos |-> n, done |-> n]
      BY <1>2 DEF RouterStep, Route, AdvanceAndCommit, Produce, ProduceFails, TxRoute, Advance,
                  TxCommit, TxOffsetsFail, TxAbort, RouterRestarts
    <2>4. /\ router'.done <= router'.pos /\ router'.pos <= Len(imMessages')
          /\ mode' = "once" => router'.done = router'.pos
      <3>1. ASSUME NEW n \in (IF mode = "once" THEN Reread(router.done) ELSE {router.done}),
                   router' = [pos |-> n, done |-> n]
            PROVE  <2>4!1 /\ <2>4!2
        <4>1. n \in Nat /\ n <= router.done
          BY <1>0 DEF Reread
        <4> QED
          BY <1>0, <2>0, <3>1, <4>1 DEF Offsets
      <3> QED
        BY <1>0, <2>0, <2>3, <3>1 DEF Offsets
    <2> QED
      BY <2>2, <2>4 DEF Offsets
  <1>3. CASE InstanceStep
    <2>1. UNCHANGED <<mode, router, imMessages, commands>>
      BY <1>3, StepsLeave DEF routing
    <2>2. PICK i \in Instances :
            \/ consumer[i] < Len(commands) /\ consumer' = [consumer EXCEPT ![i] = @ + 1]
            \/ \E n \in Reread(consumer[i]) : consumer' = [consumer EXCEPT ![i] = n]
            \/ consumer' = consumer
      BY <1>3 DEF InstanceStep, PushCommand, InstanceRestarts, Subscribe, Unsubscribe, Deliver,
                  SessionStep, Connect, Disconnect, delivery
    <2>3. ASSUME NEW n \in Reread(consumer[i])
          PROVE n \in Nat /\ n <= consumer[i]
      BY <1>0 DEF Reread
    <2>4. \A j \in Instances : consumer'[j] <= Len(commands)
      <3>1. \A j \in Instances : consumer[j] \in Nat /\ consumer[j] <= Len(commands)
        BY <1>0 DEF Offsets
      <3>2. CASE consumer[i] < Len(commands) /\ consumer' = [consumer EXCEPT ![i] = @ + 1]
        BY <1>0, <3>1, <3>2
      <3>3. ASSUME NEW n \in Reread(consumer[i]), consumer' = [consumer EXCEPT ![i] = n]
            PROVE  \A j \in Instances : consumer'[j] <= Len(commands)
        BY <1>0, <2>3, <3>1, <3>3
      <3> QED
        BY <2>2, <3>1, <3>2, <3>3
    <2> QED
      BY <2>1, <2>4 DEF Offsets
  <1>4. CASE UNCHANGED pipeVars
    BY <1>4 DEF pipeVars, intake, routing, delivery, Offsets
  <1> QED
    BY <1>1, <1>2, <1>3, <1>4, StepsLeave

\* A message that was not sent gets no row and no record.
LEMMA NextSent == PipeTypeOK /\ Sent /\ [PipeNext]_pipeVars => Sent'
  <1> SUFFICES ASSUME PipeTypeOK, Sent, [PipeNext]_pipeVars PROVE Sent'
    OBVIOUS
  <1>0. /\ stage \in [Msgs -> {"new", "sent", "outbox", "relayed"}]
        /\ rows \in [Msgs -> {"none", "saved", "edited"}]
        /\ imMessages \in Seq(Msgs)
    BY DEF PipeTypeOK
  <1>1. ASSUME NEW m \in Msgs, Save(m) PROVE Sent'
    BY <1>0, <1>1 DEF Save, Sent
  <1>2. ASSUME NEW m \in Msgs, SaveFails(m) PROVE Sent'
    BY <1>0, <1>2 DEF SaveFails, Sent
  <1>3. ASSUME NEW m \in Msgs, Relay(m) PROVE Sent'
    <2>1. stage' = [stage EXCEPT ![m] = "relayed"] /\ rows' = rows
          /\ imMessages' = Append(imMessages, m)
      BY <1>3 DEF Relay
    <2>2. \A k \in 1..Len(imMessages') : imMessages'[k] = m \/
            (k \in 1..Len(imMessages) /\ imMessages'[k] = imMessages[k])
      BY <1>0, <2>1
    <2>3. \A k \in 1..Len(imMessages') : stage'[imMessages'[k]] = "relayed"
      <3> TAKE k \in 1..Len(imMessages')
      <3>1. CASE imMessages'[k] = m
        BY <1>0, <2>1, <3>1
      <3>2. CASE k \in 1..Len(imMessages) /\ imMessages'[k] = imMessages[k]
        <4>1. imMessages[k] \in Msgs /\ stage[imMessages[k]] = "relayed"
          BY <1>0, <3>2 DEF Sent
        <4> QED
          BY <1>0, <2>1, <3>2, <4>1
      <3> QED
        BY <2>2, <3>1, <3>2
    <2> QED
      BY <1>0, <2>1, <2>3 DEF Sent
  <1>4. ASSUME NEW m \in Msgs, Edit(m) PROVE Sent'
    BY <1>0, <1>4 DEF Edit, Sent
  <1>5. ASSUME NEW k \in DOMAIN imMessages, Persist(k) PROVE Sent'
    <2>1. imMessages[k] \in Msgs /\ stage[imMessages[k]] = "relayed"
      BY <1>0 DEF Sent
    <2> QED
      BY <1>0, <1>5, <2>1 DEF Persist, Insert, Sent
  <1>6. ASSUME UNCHANGED <<stage, rows, imMessages>> PROVE Sent'
    BY <1>6 DEF Sent
  <1>7. CASE RouterStep \/ InstanceStep \/ UNCHANGED pipeVars
    BY <1>6, <1>7, StepsLeave DEF intake, pipeVars
  <1> QED
    BY <1>1, <1>2, <1>3, <1>4, <1>5, <1>7, StepsLeave DEF IntakeStep

\* Commands in the topic or in the producer's queue, and messages given up.
OnTheWay == Range(commands) \cup Range(outq) \cup dropped

\* A step of the router drops nothing silently: the commands on the way stay on the
\* way, and those of the open transaction stay in it, get on the way, or go with it
\* when the process restarts.
LEMMA RouterKeeps ==
  ASSUME PipeTypeOK, Offsets, RouterStep
  PROVE  /\ OnTheWay \subseteq OnTheWay'
         /\ \/ Range(batch) \subseteq OnTheWay' \cup Range(batch')
            \/ router'.pos = router'.done /\ router'.done <= router.done
         /\ \/ router' = router
            \/ router'.pos = router'.done /\ router'.done <= router.done
            \/ /\ router'.pos = router.pos /\ router'.done = router.pos
               /\ Range(batch) \subseteq OnTheWay'
            \/ /\ router'.pos = router.pos + 1 /\ router.pos < Len(imMessages)
               /\ Next1 \in Private => Next1 \in OnTheWay' \cup Range(batch')
               /\ \/ router'.done = router.done
                  \/ /\ router'.done = router.pos + 1 /\ router.done = router.pos
                     /\ Next1 \in Private => Next1 \in OnTheWay'
  <1>0. /\ router \in [pos : Nat, done : Nat]
        /\ commands \in Seq(Private) /\ outq \in Seq(Private) /\ batch \in Seq(Private)
    BY DEF PipeTypeOK
  <1>1. CASE Route
    <2>1. /\ UNCHANGED <<batch, commands>> /\ router.pos < Len(imMessages) /\ mode = "once"
          /\ router' = [pos |-> router.pos + 1, done |-> router.pos + 1]
      BY <1>1 DEF Route, AdvanceAndCommit
    <2>2. /\ Range(outq) \subseteq Range(outq') /\ dropped \subseteq dropped'
          /\ Next1 \in Private => Next1 \in Range(outq') \cup dropped'
      <3>1. CASE outq' = outq \o route(Next1) /\ dropped' = dropped
        <4>1. route(Next1) \in Seq(Private)
          BY DEF route
        <4>2. Range(outq') = Range(outq) \cup Range(route(Next1))
          BY <1>0, <3>1, <4>1, RangeGrows
        <4>3. Next1 \in Private => Range(route(Next1)) = {Next1}
          BY RangeOfOne DEF route
        <4> QED
          BY <3>1, <4>2, <4>3
      <3>2. CASE outq' = outq /\ dropped' = dropped \cup {Next1}
        BY <3>2
      <3> QED
        BY <1>1, <3>1, <3>2 DEF Route
    <2>3. router.done = router.pos
      BY <2>1 DEF Offsets
    <2> QED
      BY <1>0, <2>1, <2>2, <2>3 DEF OnTheWay
  <1>2. CASE Produce
    <2>1. /\ outq # <<>> /\ outq' = Tail(outq) /\ commands' = Append(commands, Head(outq))
          /\ UNCHANGED <<router, batch, dropped>>
      BY <1>2 DEF Produce
    <2>2. /\ Range(outq) = {Head(outq)} \cup Range(Tail(outq))
          /\ Range(Append(commands, Head(outq))) = Range(commands) \cup {Head(outq)}
      BY <1>0, <2>1, RangeMoves
    <2> QED
      BY <2>1, <2>2 DEF OnTheWay
  <1>3. CASE TxRoute
    <2>1. /\ UNCHANGED <<outq, commands, dropped>> /\ router.pos < Len(imMessages)
          /\ router' = [router EXCEPT !.pos = @ + 1] /\ batch' = batch \o route(Next1)
      BY <1>3 DEF TxRoute, Advance
    <2>2. route(Next1) \in Seq(Private)
      BY DEF route
    <2>3. Range(batch') = Range(batch) \cup Range(route(Next1))
      BY <1>0, <2>1, <2>2, RangeGrows
    <2>4. Next1 \in Private => Range(route(Next1)) = {Next1}
      BY RangeOfOne DEF route
    <2>5. router'.pos = router.pos + 1 /\ router'.done = router.done
      BY <1>0, <2>1
    <2> QED
      BY <2>1, <2>3, <2>4, <2>5 DEF OnTheWay
  <1>4. CASE TxCommit \/ TxOffsetsFail
    <2>1. /\ commands' = commands \o batch /\ UNCHANGED <<outq, dropped>>
          /\ router' = router \/ router' = [router EXCEPT !.done = router.pos]
      BY <1>4 DEF TxCommit, TxOffsetsFail
    <2>2. Range(commands') = Range(commands) \cup Range(batch)
      BY <1>0, <2>1, RangeGrows
    <2>3. \/ router' = router
          \/ router'.pos = router.pos /\ router'.done = router.pos
      BY <1>0, <2>1
    <2> QED
      BY <2>1, <2>2, <2>3 DEF OnTheWay
  <1>5. CASE TxAbort
    <2>1. /\ UNCHANGED <<outq, commands>>
          /\ dropped \cup Range(batch) \subseteq dropped'
          /\ \/ router' = router
             \/ /\ router.pos < Len(imMessages) /\ Next1 \in dropped'
                /\ router' = [router EXCEPT !.pos = @ + 1]
      BY <1>5 DEF TxAbort, Advance
    <2>2. \/ router' = router
          \/ /\ router.pos < Len(imMessages) /\ Next1 \in dropped'
             /\ router'.pos = router.pos + 1 /\ router'.done = router.done
      BY <1>0, <2>1
    <2> QED
      BY <2>1, <2>2 DEF OnTheWay
  <1>6. CASE RouterRestarts
    <2>1. /\ UNCHANGED commands /\ dropped' = dropped \cup Range(outq)
          /\ \E n \in (IF mode = "once" THEN Reread(router.done) ELSE {router.done}) :
               router' = [pos |-> n, done |-> n]
      BY <1>6 DEF RouterRestarts
    <2>2. \A n \in (IF mode = "once" THEN Reread(router.done) ELSE {router.done}) :
            n <= router.done
      BY <1>0 DEF Reread
    <2>3. router'.pos = router'.done /\ router'.done <= router.done
      BY <2>1, <2>2
    <2> QED
      BY <2>1, <2>3 DEF OnTheWay
  <1>7. CASE ProduceFails
    <2>1. /\ outq # <<>> /\ outq' = Tail(outq) /\ dropped' = dropped \cup {Head(outq)}
          /\ UNCHANGED <<router, batch, commands>>
      BY <1>7 DEF ProduceFails
    <2>2. Range(outq) = {Head(outq)} \cup Range(Tail(outq))
      BY <1>0, <2>1, RangeMoves
    <2> QED
      BY <2>1, <2>2 DEF OnTheWay
  <1> QED
    BY <1>1, <1>2, <1>3, <1>4, <1>5, <1>6, <1>7 DEF RouterStep

\* No record is read, and none is passed by the offset, without its command being on
\* the way or dropped.
LEMMA NextRead ==
  PipeTypeOK /\ Offsets /\ SkipsExplained /\ ReadExplained /\ [PipeNext]_pipeVars
    => SkipsExplained' /\ ReadExplained'
  <1> SUFFICES ASSUME PipeTypeOK, Offsets, SkipsExplained, ReadExplained, [PipeNext]_pipeVars
               PROVE  SkipsExplained' /\ ReadExplained'
    OBVIOUS
  <1>0. /\ router \in [pos : Nat, done : Nat] /\ Len(imMessages) \in Nat
        /\ router.done <= router.pos /\ router.pos <= Len(imMessages)
        /\ router' \in [pos : Nat, done : Nat]
    BY PipeNextTypeOK DEF PipeTypeOK, Offsets
  <1>1. \A k \in 1..Len(imMessages) : imMessages'[k] = imMessages[k]
    BY RecordsGrow
  <1>2. /\ \A k \in 1..router.done : imMessages[k] \in Private => imMessages[k] \in OnTheWay
        /\ \A k \in 1..router.pos :
             imMessages[k] \in Private => imMessages[k] \in OnTheWay \cup Range(batch)
    BY DEF SkipsExplained, ReadExplained, OnTheWay
  <1>3. CASE RouterStep
    <2>1. imMessages' = imMessages
      BY <1>3, StepsLeave DEF intake
    <2>2. OnTheWay \subseteq OnTheWay'
      BY <1>3, RouterKeeps
    <2>3. CASE router' = router /\ Range(batch) \subseteq OnTheWay' \cup Range(batch')
      BY <1>2, <2>1, <2>2, <2>3 DEF SkipsExplained, ReadExplained, OnTheWay
    <2>4. CASE router'.pos = router'.done /\ router'.done <= router.done
      <3>1. \A k \in 1..router'.done :
              imMessages[k] \in Private => imMessages[k] \in OnTheWay'
        <4> TAKE k \in 1..router'.done
        <4>1. k \in 1..router.done
          BY <1>0, <2>4
        <4> QED
          BY <1>2, <2>2, <4>1
      <3> QED
        BY <2>1, <2>4, <3>1 DEF SkipsExplained, ReadExplained, OnTheWay
    <2>5. CASE router'.pos = router.pos /\ router'.done = router.pos
               /\ Range(batch) \subseteq OnTheWay'
      <3>1. \A k \in 1..router.pos :
              imMessages[k] \in Private => imMessages[k] \in OnTheWay'
        BY <1>2, <2>2, <2>5
      <3> QED
        BY <2>1, <2>5, <3>1 DEF SkipsExplained, ReadExplained, OnTheWay
    <2>6. CASE /\ router'.pos = router.pos + 1 /\ router.pos < Len(imMessages)
               /\ Next1 \in Private => Next1 \in OnTheWay' \cup Range(batch')
               /\ Range(batch) \subseteq OnTheWay' \cup Range(batch')
               /\ \/ router'.done = router.done
                  \/ /\ router'.done = router.pos + 1 /\ router.done = router.pos
                     /\ Next1 \in Private => Next1 \in OnTheWay'
      <3>1. \A k \in 1..(router.pos + 1) :
              imMessages[k] \in Private => imMessages[k] \in OnTheWay' \cup Range(batch')
        <4> TAKE k \in 1..(router.pos + 1)
        <4>1. CASE k = router.pos + 1
          BY <2>6, <4>1 DEF Next1
        <4>2. CASE k \in 1..router.pos
          BY <1>2, <2>2, <2>6, <4>2
        <4> QED
          BY <1>0, <4>1, <4>2
      <3>2. \A k \in 1..router'.done :
              imMessages[k] \in Private => imMessages[k] \in OnTheWay'
        <4> TAKE k \in 1..router'.done
        <4>1. CASE k \in 1..router.done
          BY <1>2, <2>2, <4>1
        <4>2. CASE k = router.pos + 1 /\ router'.done = router.pos + 1 /\ router'.done # router.done
          BY <1>0, <2>6, <4>2 DEF Next1
        <4> QED
          BY <1>0, <2>6, <4>1, <4>2
      <3> QED
        BY <2>1, <2>6, <3>1, <3>2 DEF SkipsExplained, ReadExplained, OnTheWay
    <2> QED
      BY <1>0, <1>3, <2>3, <2>4, <2>5, <2>6, RouterKeeps
  <1>4. ASSUME UNCHANGED routing PROVE SkipsExplained' /\ ReadExplained'
    <2>1. \A k \in 1..router.pos : imMessages'[k] = imMessages[k]
      BY <1>0, <1>1
    <2>2. 1..router.done \subseteq 1..router.pos
      BY <1>0
    <2> QED
      BY <1>4, <2>1, <2>2 DEF routing, SkipsExplained, ReadExplained
  <1>5. CASE IntakeStep \/ InstanceStep \/ UNCHANGED pipeVars
    BY <1>4, <1>5, StepsLeave DEF pipeVars, routing
  <1> QED
    BY <1>3, <1>5, StepsLeave

\* An inline message stays on a screen, on a channel, counted, or named as unheard.
LEMMA NextInline == PipeTypeOK /\ InlineExplained /\ [PipeNext]_pipeVars => InlineExplained'
  <1> SUFFICES ASSUME PipeTypeOK, InlineExplained, [PipeNext]_pipeVars, NEW m \in Private,
                      stage'[m] = "sent"
               PROVE  \/ \E i \in Instances : shown'[i][m] > 0 \/ m \in channel'[i]
                      \/ m \in unread' \cup unheard'
    BY DEF InlineExplained
  <1> DEFINE Goal == \/ \E i \in Instances : shown'[i][m] > 0 \/ m \in channel'[i]
                     \/ m \in unread' \cup unheard'
             Kept == \/ \E i \in Instances : shown[i][m] > 0 \/ m \in channel[i]
                     \/ m \in unread \cup unheard
  <1>0. /\ stage \in [Msgs -> {"new", "sent", "outbox", "relayed"}] /\ m \in Msgs
        /\ shown \in [Instances -> [Private -> Nat]]
        /\ channel \in [Instances -> SUBSET Private]
        /\ stage[m] = "sent" => Kept
    BY DEF PipeTypeOK, InlineExplained, Msgs
  <1>1. ASSUME NEW x \in Msgs, Save(x) \/ Relay(x) \/ Edit(x) PROVE Goal
    <2>1. stage[m] = "sent" /\ UNCHANGED <<shown, channel, unread, unheard>>
      BY <1>0, <1>1 DEF Save, Relay, Edit, delivery
    <2> QED
      BY <1>0, <2>1
  <1>2. ASSUME NEW x \in Msgs, SaveFails(x) PROVE Goal
    <2>1. x \in Private /\ Inline(x)
      BY <1>2 DEF SaveFails
    <2>2. CASE x = m
      BY <2>1, <2>2, InlineAdds
    <2>3. CASE x # m
      <3>1. stage[m] = "sent"
        BY <1>0, <1>2, <2>3 DEF SaveFails
      <3>2. /\ unread \subseteq unread' /\ unheard \subseteq unheard'
            /\ \A i \in Instances : shown'[i][m] >= shown[i][m] /\ channel[i] \subseteq channel'[i]
            /\ shown' \in [Instances -> [Private -> Nat]]
        BY <2>1, InlineAdds
      <3>3. \A i \in Instances : shown[i][m] > 0 => shown'[i][m] > 0
        BY <1>0, <3>2
      <3> QED
        BY <1>0, <3>1, <3>2, <3>3
    <2> QED
      BY <2>2, <2>3
  <1>3. ASSUME UNCHANGED <<stage, shown, channel, unread, unheard>> PROVE Goal
    BY <1>0, <1>3
  <1>4. CASE RouterStep \/ UNCHANGED pipeVars \/ \E k \in DOMAIN imMessages : Persist(k)
    BY <1>3, <1>4, StepsLeave DEF Persist, pipeVars, intake, delivery
  <1>5. CASE InstanceStep
    <2>1. stage[m] = "sent" /\ UNCHANGED unread
      BY <1>5, StepsLeave
    <2>2. PICK i \in Instances :
            \/ PushCommand(i)
            \/ InstanceRestarts(i) \/ Unsubscribe(i)
            \/ SessionStep(i) \/ Subscribe(i)
            \/ \E x \in Private : Deliver(i, x)
      BY <1>5 DEF InstanceStep
    <2>3. CASE PushCommand(i)
      <3>1. UNCHANGED <<channel, unheard>> /\ Show(i, commands[consumer[i] + 1])
        BY <2>3 DEF PushCommand, Push, intake
      <3>2. commands[consumer[i] + 1] \in Private
        <4>1. commands \in Seq(Private) /\ consumer[i] \in Nat /\ consumer[i] < Len(commands)
          BY <2>3 DEF PushCommand, PipeTypeOK
        <4> QED
          BY <4>1
      <3>3. \A j \in Instances, n \in Private :
              shown'[j][n] = shown[j][n]
                + IF j = i /\ n = commands[consumer[i] + 1] /\ i \in online THEN 1 ELSE 0
        BY <3>1, <3>2, ShowAdds
      <3>4. \A j \in Instances : shown[j][m] > 0 => shown'[j][m] > 0
        BY <1>0, <3>3
      <3> QED
        BY <1>0, <2>1, <3>1, <3>4
    <2>4. CASE InstanceRestarts(i) \/ Unsubscribe(i)
      <3>1. /\ unheard' = unheard \cup channel[i] /\ shown' = shown
            /\ channel' = [channel EXCEPT ![i] = {}]
        BY <2>4 DEF InstanceRestarts, Unsubscribe, Deafen
      <3> QED
        BY <1>0, <2>1, <3>1
    <2>5. CASE SessionStep(i) \/ Subscribe(i)
      <3>1. UNCHANGED <<stage, shown, channel, unread, unheard>>
        BY <2>5 DEF SessionStep, Connect, Disconnect, Subscribe, intake, delivery
      <3> QED
        BY <1>3, <3>1
    <2>6. ASSUME NEW x \in Private, Deliver(i, x) PROVE Goal
      <3>1. /\ Show(i, x)
            /\ channel' = [channel EXCEPT ![i] = channel[i] \ {x}]
            /\ unheard \subseteq unheard'
            /\ i \in online \/ x \in unheard'
        BY <2>6 DEF Deliver
      <3>2. \A j \in Instances, n \in Private :
              shown'[j][n] = shown[j][n] + IF j = i /\ n = x /\ i \in online THEN 1 ELSE 0
        BY <3>1, ShowAdds
      <3>3. \A j \in Instances : shown[j][m] > 0 => shown'[j][m] > 0
        BY <1>0, <3>2
      <3>4. ASSUME NEW j \in Instances, m \in channel[j]
            PROVE  shown'[j][m] > 0 \/ m \in channel'[j] \/ m \in unheard'
        <4>1. CASE j = i /\ m = x /\ i \in online
          BY <1>0, <3>2, <4>1
        <4>2. CASE j = i /\ m = x /\ i \notin online
          BY <3>1, <4>2
        <4>3. CASE ~(j = i /\ m = x)
          BY <1>0, <3>1, <3>4, <4>3
        <4> QED
          BY <4>1, <4>2, <4>3
      <3> QED
        BY <1>0, <2>1, <3>1, <3>3, <3>4
    <2> QED
      BY <2>2, <2>3, <2>4, <2>5, <2>6
  <1> QED
    BY <1>1, <1>2, <1>4, <1>5, StepsLeave DEF IntakeStep

\* im.push.commands changes at its end only, and copies on a screen stay.
LEMMA CommandsGrow ==
  ASSUME PipeTypeOK, Offsets, [PipeNext]_pipeVars
  PROVE  /\ \A k \in 1..Len(commands) : commands'[k] = commands[k]
         /\ \A i \in Instances, m \in Private : shown[i][m] > 0 => shown'[i][m] > 0
  <1>0. /\ commands \in Seq(Private) /\ batch \in Seq(Private) /\ outq \in Seq(Private)
        /\ shown \in [Instances -> [Private -> Nat]]
    BY DEF PipeTypeOK
  <1>1. \A k \in 1..Len(commands) : commands'[k] = commands[k]
    <2>1. \/ commands' = commands
          \/ commands' = commands \o batch
          \/ outq # <<>> /\ commands' = Append(commands, Head(outq))
      <3>1. CASE RouterStep
        BY <3>1 DEF RouterStep, Route, Produce, ProduceFails, TxRoute, TxCommit, TxOffsetsFail,
                    TxAbort, RouterRestarts
      <3>2. CASE IntakeStep \/ InstanceStep \/ UNCHANGED pipeVars
        BY <3>2, StepsLeave DEF routing, pipeVars
      <3> QED
        BY <3>1, <3>2, StepsLeave
    <2>2. CASE commands' = commands \o batch
      BY <1>0, <2>2
    <2>3. CASE outq # <<>> /\ commands' = Append(commands, Head(outq))
      BY <1>0, <2>3
    <2> QED
      BY <2>1, <2>2, <2>3
  <1>2. ASSUME NEW i \in Instances, NEW m \in Private, shown[i][m] > 0
        PROVE  shown'[i][m] > 0
    <2>1. ASSUME NEW x \in Msgs, SaveFails(x) PROVE shown'[i][m] > 0
      <3>1. x \in Private /\ Inline(x)
        BY <2>1 DEF SaveFails
      <3>2. shown'[i][m] >= shown[i][m] /\ shown' \in [Instances -> [Private -> Nat]]
        BY <3>1, InlineAdds
      <3> QED
        BY <1>0, <1>2, <3>2
    <2>2. ASSUME NEW j \in Instances, NEW x \in Private, Show(j, x) PROVE shown'[i][m] > 0
      <3>1. shown'[i][m] = shown[i][m] + IF i = j /\ m = x /\ j \in online THEN 1 ELSE 0
        BY <2>2, ShowAdds
      <3> QED
        BY <1>0, <1>2, <3>1
    <2>3. ASSUME NEW j \in Instances, PushCommand(j) PROVE shown'[i][m] > 0
      <3>1. commands \in Seq(Private) /\ consumer[j] \in Nat /\ consumer[j] < Len(commands)
        BY <2>3 DEF PushCommand, PipeTypeOK
      <3>2. commands[consumer[j] + 1] \in Private
        BY <3>1
      <3> QED
        BY <2>2, <2>3, <3>2 DEF PushCommand, Push
    <2>4. ASSUME shown' = shown PROVE shown'[i][m] > 0
      BY <1>2, <2>4
    <2>5. CASE RouterStep \/ UNCHANGED pipeVars
      BY <2>4, <2>5, StepsLeave DEF pipeVars
    <2>6. CASE IntakeStep
      BY <2>1, <2>4, <2>6 DEF IntakeStep, Save, Relay, Edit, Persist
    <2>7. CASE InstanceStep
      BY <2>2, <2>3, <2>4, <2>7 DEF InstanceStep, InstanceRestarts, Unsubscribe, Subscribe,
                                    SessionStep, Connect, Disconnect, Deliver
    <2> QED
      BY <2>5, <2>6, <2>7, StepsLeave
  <1> QED
    BY <1>1, <1>2

\* What an instance is done with it has shown, or nobody was there to see it.
LEMMA NextCommands ==
  PipeTypeOK /\ Offsets /\ CommandsExplained /\ [PipeNext]_pipeVars => CommandsExplained'
  <1> SUFFICES ASSUME PipeTypeOK, Offsets, CommandsExplained, [PipeNext]_pipeVars,
                      NEW i \in Instances, NEW k \in 1..consumer'[i]
               PROVE  shown'[i][commands'[k]] > 0 \/ commands'[k] \in absent'[i]
    BY DEF CommandsExplained
  <1> DEFINE Goal == shown'[i][commands'[k]] > 0 \/ commands'[k] \in absent'[i]
  <1>0. /\ consumer \in [Instances -> Nat] /\ consumer[i] <= Len(commands)
        /\ commands \in Seq(Private) /\ absent \in [Instances -> SUBSET Private]
        /\ shown \in [Instances -> [Private -> Nat]] /\ consumer'[i] \in Nat
    BY PipeNextTypeOK DEF PipeTypeOK, Offsets
  <1>1. ASSUME k \in 1..consumer[i], absent[i] \subseteq absent'[i] PROVE Goal
    <2>1. k \in 1..Len(commands)
      BY <1>0, <1>1
    <2>2. commands[k] \in Private /\ commands'[k] = commands[k]
      BY <1>0, <2>1, CommandsGrow
    <2>3. shown[i][commands[k]] > 0 \/ commands[k] \in absent[i]
      BY <1>1 DEF CommandsExplained
    <2>4. shown[i][commands[k]] > 0 => shown'[i][commands[k]] > 0
      BY <2>2, CommandsGrow
    <2> QED
      BY <1>1, <2>2, <2>3, <2>4
  <1>2. CASE UNCHANGED <<consumer, absent>>
    BY <1>1, <1>2
  <1>3. CASE IntakeStep \/ RouterStep \/ UNCHANGED pipeVars
    BY <1>2, <1>3, StepsLeave DEF delivery, pipeVars
  <1>4. ASSUME NEW j \in Instances, PushCommand(j) PROVE Goal
    <2> DEFINE x == commands[consumer[j] + 1]
    <2>1. /\ consumer[j] < Len(commands) /\ Show(j, x) /\ commands' = commands
          /\ consumer' = [consumer EXCEPT ![j] = consumer[j] + 1]
          /\ absent' = IF j \in online THEN absent ELSE [absent EXCEPT ![j] = absent[j] \cup {x}]
      BY <1>4 DEF PushCommand, Push, routing
    <2>2. x \in Private
      BY <1>0, <2>1
    <2>3. absent[i] \subseteq absent'[i]
      BY <1>0, <2>1
    <2>4. CASE k \in 1..consumer[i]
      BY <1>1, <2>3, <2>4
    <2>5. CASE k \notin 1..consumer[i]
      <3>1. i = j /\ k = consumer[j] + 1
        BY <1>0, <2>1, <2>5
      <3>2. commands'[k] = x
        BY <2>1, <3>1
      <3> HIDE DEF x
      <3>3. shown'[j][x] = shown[j][x] + IF j \in online THEN 1 ELSE 0
        BY <2>1, <2>2, ShowAdds
      <3>4. shown[j][x] \in Nat
        BY <1>0, <2>2
      <3>5. CASE j \in online
        BY <3>1, <3>2, <3>3, <3>4, <3>5
      <3>6. CASE j \notin online
        BY <1>0, <2>1, <3>1, <3>2, <3>6
      <3> QED
        BY <3>5, <3>6
    <2> QED
      BY <2>4, <2>5
  <1>5. ASSUME NEW j \in Instances, InstanceRestarts(j) PROVE Goal
    <2>1. PICK n \in Reread(consumer[j]) : consumer' = [consumer EXCEPT ![j] = n]
      BY <1>5 DEF InstanceRestarts
    <2>2. n \in Nat /\ n <= consumer[j] /\ consumer[j] \in Nat
      BY <1>0 DEF Reread
    <2>3. k \in 1..consumer[i]
      BY <1>0, <2>1, <2>2
    <2> QED
      BY <1>1, <1>5, <2>3 DEF InstanceRestarts
  <1>6. ASSUME NEW j \in Instances,
               \/ SessionStep(j) \/ Unsubscribe(j) \/ Subscribe(j)
               \/ \E x \in Private : Deliver(j, x)
        PROVE  Goal
    <2>1. UNCHANGED <<consumer, absent>>
      BY <1>6 DEF SessionStep, Connect, Disconnect, Unsubscribe, Subscribe, Deliver, delivery
    <2> QED
      BY <1>2, <2>1
  <1> QED
    BY <1>3, <1>4, <1>5, <1>6, StepsLeave DEF InstanceStep

\* Nothing waits in an empty queue.
LEMMA NothingWaits == ASSUME NEW m PROVE Waiting(m, <<>>, 0) = 0
  <1>1. <<>> \in Seq({}) /\ 0 >= Len(<<>>)
    OBVIOUS
  <1> QED
    BY <1>1, WaitingNat

\* The commands of the open transaction stay within the records a restart reads again.
LEMMA NextBatch ==
  PipeTypeOK /\ Offsets /\ BatchIsUncommitted /\ [PipeNext]_pipeVars => BatchIsUncommitted'
  <1> SUFFICES ASSUME PipeTypeOK, Offsets, BatchIsUncommitted, [PipeNext]_pipeVars,
                      NEW m \in Private
               PROVE  Waiting(m, batch', 0)
                        <= Times(m, imMessages', (router'.done + 1)..router'.pos)
    BY DEF BatchIsUncommitted
  <1> DEFINE Goal == Waiting(m, batch', 0)
                       <= Times(m, imMessages', (router'.done + 1)..router'.pos)
  <1>0. /\ router \in [pos : Nat, done : Nat] /\ router' \in [pos : Nat, done : Nat]
        /\ router.done <= router.pos /\ router.pos <= Len(imMessages)
        /\ imMessages \in Seq(Msgs) /\ batch \in Seq(Private)
    BY PipeNextTypeOK DEF PipeTypeOK, Offsets
  <1>1. Waiting(m, batch, 0) <= Times(m, imMessages, (router.done + 1)..router.pos)
    BY DEF BatchIsUncommitted
  <1>2. Times(m, imMessages', (router'.done + 1)..router'.pos) \in Nat
    BY <1>0, TimesNat, router'.done + 1 \in Int, router'.pos \in Int
  <1>3. ASSUME batch' = <<>> PROVE Goal
    BY <1>2, <1>3, NothingWaits
  <1>4. ASSUME UNCHANGED <<batch, router>> PROVE Goal
    <2>1. \A k \in (router.done + 1)..router.pos : imMessages'[k] = imMessages[k]
      BY <1>0, RecordsGrow
    <2>2. Times(m, imMessages', (router.done + 1)..router.pos)
            = Times(m, imMessages, (router.done + 1)..router.pos)
      BY <2>1, TimesSame
    <2> QED
      BY <1>1, <1>4, <2>2
  <1>5. CASE Route
    <2>1. /\ batch' = batch /\ router.done = router.pos
          /\ router' = [pos |-> router.pos + 1, done |-> router.pos + 1]
      BY <1>5 DEF Route, AdvanceAndCommit, Offsets
    <2>2. router.done + 1 \in Int /\ router.pos \in Int /\ router.done + 1 > router.pos
      BY <1>0, <2>1
    <2>3. Times(m, imMessages, (router.done + 1)..router.pos) = 0
      BY <2>2, TimesEdge
    <2>4. Waiting(m, batch, 0) = 0
      <3>1. Waiting(m, batch, 0) \in Nat
        BY <1>0, WaitingNat
      <3> QED
        BY <1>1, <2>3, <3>1
    <2> QED
      BY <1>2, <2>1, <2>4
  <1>6. CASE TxRoute
    <2>1. /\ batch' = batch \o route(Next1) /\ router.pos < Len(imMessages)
          /\ router' = [router EXCEPT !.pos = @ + 1] /\ imMessages' = imMessages
      BY <1>6 DEF TxRoute, Advance, intake
    <2>2. router'.done = router.done /\ router'.pos = router.pos + 1
      BY <1>0, <2>1
    <2>3. Waiting(m, batch', 0) = Waiting(m, batch, 0) + One(Next1, {m})
      <3>1. /\ route(Next1) \in Seq(Private)
            /\ Waiting(m, route(Next1), 0) = One(Next1, {m})
        BY WaitingRoute
      <3>2. Waiting(m, batch \o route(Next1), 0)
              = Waiting(m, batch, 0) + Waiting(m, route(Next1), 0)
        BY <1>0, <3>1, WaitingConcat, 0 <= Len(batch)
      <3> QED
        BY <2>1, <3>1, <3>2
    <2>4. Times(m, imMessages, (router.done + 1)..(router.pos + 1))
            = Times(m, imMessages, (router.done + 1)..router.pos) + One(Next1, {m})
      <3> DEFINE p == router.pos
                 q == router.pos + 1
      <3>1. p \in Nat /\ q \in Nat /\ q \in Int /\ p <= q /\ router.done <= p /\ router.done \in Nat
        BY <1>0
      <3>2. Times(m, imMessages, (router.done + 1)..q)
              = Times(m, imMessages, (router.done + 1)..p) + Times(m, imMessages, (p + 1)..q)
        <4> HIDE DEF p, q
        <4> QED
          BY <3>1, TimesSplit
      <3>3. Times(m, imMessages, q..q) = One(imMessages[q], {m})
        <4> HIDE DEF q
        <4> QED
          BY <3>1, TimesEdge
      <3> QED
        BY <3>2, <3>3 DEF Next1
    <2>5. /\ One(Next1, {m}) \in Nat /\ Waiting(m, batch, 0) \in Nat
          /\ Times(m, imMessages, (router.done + 1)..router.pos) \in Nat
      BY <1>0, WaitingNat, TimesNat, router.done + 1 \in Int, router.pos \in Int DEF One
    <2> QED
      BY <1>1, <2>1, <2>2, <2>3, <2>4, <2>5
  <1>7. CASE TxCommit \/ TxOffsetsFail \/ TxAbort \/ RouterRestarts
    BY <1>3, <1>7 DEF TxCommit, TxOffsetsFail, TxAbort, RouterRestarts, EndTx
  <1>8. CASE Produce \/ ProduceFails
    BY <1>4, <1>8 DEF Produce, ProduceFails
  <1>9. CASE IntakeStep \/ InstanceStep \/ UNCHANGED pipeVars
    BY <1>4, <1>9, StepsLeave DEF pipeVars, routing
  <1> QED
    BY <1>5, <1>6, <1>7, <1>8, <1>9, StepsLeave DEF RouterStep

\* The parts of a count of copies are numbers.
LEMMA CopiesParts ==
  ASSUME PipeTypeOK, NEW i \in Instances, NEW m \in Private
  PROVE  /\ shown[i][m] \in Nat /\ spare[m] \in Nat
         /\ One(m, channel[i]) \in Nat /\ One(stage[m], {"new", "outbox"}) \in Nat
         /\ Waiting(m, commands, consumer[i]) \in Nat
         /\ Waiting(m, outq, 0) \in Nat
         /\ Waiting(m, imMessages, router.done) \in Nat
         /\ Copies(i, m) \in Nat
  <1>1. /\ shown \in [Instances -> [Private -> Nat]] /\ spare \in [Private -> Nat]
        /\ commands \in Seq(Private) /\ consumer[i] \in Nat
        /\ outq \in Seq(Private) /\ 0 \in Nat
        /\ imMessages \in Seq(Msgs) /\ router.done \in Nat
    BY DEF PipeTypeOK
  <1>2. /\ Waiting(m, commands, consumer[i]) \in Nat
        /\ Waiting(m, outq, 0) \in Nat
        /\ Waiting(m, imMessages, router.done) \in Nat
    BY <1>1, WaitingNat
  <1>3. One(m, channel[i]) \in Nat /\ One(stage[m], {"new", "outbox"}) \in Nat
    BY DEF One
  <1>4. shown[i][m] \in Nat /\ spare[m] \in Nat
    BY <1>1
  <1> QED
    BY <1>2, <1>3, <1>4 DEF Copies

\* Saving a message, relaying it and the inline path: a copy more is a copy that the
\* message had coming, or it is paid for.
LEMMA IntakeCopies ==
  ASSUME PipeTypeOK, Offsets, IntakeStep, NEW i \in Instances, NEW m \in Private,
         Copies(i, m) <= 1 + spare[m]
  PROVE  Copies(i, m)' <= 1 + spare'[m]
  <1>0. /\ commands' = commands /\ consumer' = consumer /\ outq' = outq /\ router' = router
        /\ m \in Msgs /\ stage \in [Msgs -> {"new", "sent", "outbox", "relayed"}]
    BY StepsLeave DEF routing, Msgs, PipeTypeOK
  <1>p. /\ shown[i][m] \in Nat /\ spare[m] \in Nat
        /\ One(m, channel[i]) \in Nat /\ One(stage[m], {"new", "outbox"}) \in Nat
        /\ Waiting(m, commands, consumer[i]) \in Nat
        /\ Waiting(m, outq, 0) \in Nat
        /\ Waiting(m, imMessages, router.done) \in Nat
        /\ Copies(i, m) \in Nat
    BY CopiesParts
  <1>1. ASSUME NEW x \in Msgs, Save(x) PROVE Copies(i, m)' <= 1 + spare'[m]
    <2>1. /\ UNCHANGED <<shown, channel, imMessages, spare>>
          /\ stage[x] = "new" /\ stage' = [stage EXCEPT ![x] = "outbox"]
      BY <1>1 DEF Save, delivery
    <2>2. One(stage'[m], {"new", "outbox"}) = One(stage[m], {"new", "outbox"})
      BY <1>0, <2>1 DEF One
    <2> QED
      BY <1>0, <2>1, <2>2 DEF Copies
  <1>2. ASSUME NEW x \in Msgs, SaveFails(x) PROVE Copies(i, m)' <= 1 + spare'[m]
    <2>1. x \in Private /\ Inline(x) /\ stage[x] = "new" /\ imMessages' = imMessages
      BY <1>2 DEF SaveFails
    <2>2. /\ shown'[i][m] \in Nat
          /\ shown'[i][m] + One(m, channel'[i]) <= shown[i][m] + One(m, channel[i]) + One(m, {x})
      <3>1. /\ shown' \in [Instances -> [Private -> Nat]]
            /\ shown'[i][m] + One(m, channel'[i]) <= shown[i][m] + One(m, channel[i]) + One(m, {x})
        BY <2>1, InlineAdds
      <3> QED
        BY <3>1
    <2>3. CASE stage' = [stage EXCEPT ![x] = "sent"] /\ spare' = spare
      <3>1. One(stage'[m], {"new", "outbox"}) + One(m, {x}) = One(stage[m], {"new", "outbox"})
        BY <1>0, <2>1, <2>3 DEF One
      <3>2. /\ One(m, channel'[i]) \in Nat /\ One(m, {x}) \in Nat
            /\ One(stage'[m], {"new", "outbox"}) \in Nat
        BY DEF One
      <3> QED
        BY <1>0, <2>1, <2>2, <2>3, <3>1, <3>2, <1>p DEF Copies
    <2>4. CASE stage' = [stage EXCEPT ![x] = "outbox"] /\ Spare(Once(x))
      <3>1. One(stage'[m], {"new", "outbox"}) = One(stage[m], {"new", "outbox"})
        BY <1>0, <2>1, <2>4 DEF One
      <3>2. spare'[m] = spare[m] + One(m, {x})
        <4>1. spare'[m] = spare[m] + Once(x)[m]
          BY <2>4, SpareAdds, OnceAgain, 0 \in Int
        <4> QED
          BY <4>1 DEF Once, One
      <3>3. One(m, channel'[i]) \in Nat /\ One(m, {x}) \in Nat
        BY DEF One
      <3> QED
        BY <1>0, <2>1, <2>2, <3>1, <3>2, <3>3, <1>p DEF Copies
    <2> QED
      BY <1>2, <2>3, <2>4 DEF SaveFails
  <1>3. ASSUME NEW x \in Msgs, Relay(x) PROVE Copies(i, m)' <= 1 + spare'[m]
    <2>1. /\ UNCHANGED <<shown, channel>> /\ imMessages' = Append(imMessages, x)
          /\ stage' = [stage EXCEPT ![x] = "relayed"]
      BY <1>3 DEF Relay, delivery
    <2>2. Waiting(m, imMessages', router.done)
            = Waiting(m, imMessages, router.done) + One(x, {m})
      <3>1. imMessages \in Seq(Msgs) /\ router.done \in Nat /\ router.done <= Len(imMessages)
        <4>1. /\ imMessages \in Seq(Msgs) /\ router \in [pos : Nat, done : Nat]
              /\ Len(imMessages) \in Nat
              /\ router.done <= router.pos /\ router.pos <= Len(imMessages)
          BY DEF PipeTypeOK, Offsets
        <4> QED
          BY <4>1
      <3> QED
        BY <2>1, <3>1, WaitingAppend
    <2>3. CASE stage[x] = "outbox" /\ spare' = spare
      <3>1. One(stage'[m], {"new", "outbox"}) + One(x, {m}) = One(stage[m], {"new", "outbox"})
        <4>1. CASE x = m
          BY <1>0, <2>1, <2>3, <4>1, SMTT(30) DEF One
        <4>2. CASE x # m
          BY <1>0, <2>1, <4>2, SMTT(30) DEF One
        <4> QED
          BY <4>1, <4>2
      <3>2. One(x, {m}) \in Nat /\ One(stage'[m], {"new", "outbox"}) \in Nat
        BY DEF One
      <3> QED
        BY <1>0, <2>1, <2>2, <2>3, <3>1, <3>2, <1>p, SMTT(30) DEF Copies
    <2>4. CASE stage[x] = "relayed" /\ Spare(Once(x))
      <3>1. One(stage'[m], {"new", "outbox"}) = One(stage[m], {"new", "outbox"})
        BY <1>0, <2>1, <2>4 DEF One
      <3>2. spare'[m] = spare[m] + One(x, {m})
        <4>1. spare'[m] = spare[m] + Once(x)[m]
          BY <2>4, SpareAdds, OnceAgain, 0 \in Int
        <4> QED
          BY <4>1 DEF Once, One
      <3>3. One(x, {m}) \in Nat
        BY DEF One
      <3>4. Copies(i, m)' = Copies(i, m) + One(x, {m})
        <4>1. /\ shown'[i][m] = shown[i][m] /\ One(m, channel'[i]) = One(m, channel[i])
              /\ Waiting(m, commands', consumer'[i]) = Waiting(m, commands, consumer[i])
              /\ Waiting(m, outq', 0) = Waiting(m, outq, 0)
              /\ Waiting(m, imMessages', router'.done)
                   = Waiting(m, imMessages, router.done) + One(x, {m})
          BY <1>0, <2>1, <2>2
        <4> QED
          BY <1>p, <3>1, <3>3, <4>1 DEF Copies
      <3> QED
        BY <1>p, <3>2, <3>3, <3>4
    <2> QED
      BY <1>3, <2>3, <2>4 DEF Relay
  <1>4. ASSUME UNCHANGED <<shown, channel, stage, imMessages, spare>>
        PROVE  Copies(i, m)' <= 1 + spare'[m]
    BY <1>0, <1>4 DEF Copies
  <1>5. ASSUME NEW x \in Msgs, Edit(x) PROVE Copies(i, m)' <= 1 + spare'[m]
    BY <1>4, <1>5 DEF Edit, delivery
  <1>6. ASSUME NEW k \in DOMAIN imMessages, Persist(k) PROVE Copies(i, m)' <= 1 + spare'[m]
    BY <1>4, <1>6 DEF Persist, delivery
  <1> QED
    BY <1>1, <1>2, <1>3, <1>5, <1>6 DEF IntakeStep

\* The router: a command stands for a record that is not read again, or that is paid
\* for when it is.
LEMMA RouterCopies ==
  ASSUME PipeTypeOK, Offsets, BatchIsUncommitted, RouterStep,
         NEW i \in Instances, NEW m \in Private, Copies(i, m) <= 1 + spare[m]
  PROVE  Copies(i, m)' <= 1 + spare'[m]
  <1>0. /\ UNCHANGED <<mode, shown, channel, consumer, stage, imMessages>>
        /\ commands \in Seq(Private) /\ outq \in Seq(Private) /\ batch \in Seq(Private)
        /\ imMessages \in Seq(Msgs) /\ router \in [pos : Nat, done : Nat]
        /\ consumer[i] \in Nat /\ consumer[i] <= Len(commands)
        /\ router.done <= router.pos /\ router.pos <= Len(imMessages)
        /\ mode = "once" => router.done = router.pos
    BY StepsLeave DEF intake, delivery, PipeTypeOK, Offsets
  <1>p. /\ shown[i][m] \in Nat /\ spare[m] \in Nat
        /\ One(m, channel[i]) \in Nat /\ One(stage[m], {"new", "outbox"}) \in Nat
        /\ Waiting(m, commands, consumer[i]) \in Nat
        /\ Waiting(m, outq, 0) \in Nat
        /\ Waiting(m, imMessages, router.done) \in Nat
        /\ Copies(i, m) \in Nat
    BY CopiesParts
  <1>s. /\ shown'[i][m] = shown[i][m] /\ One(m, channel'[i]) = One(m, channel[i])
        /\ One(stage'[m], {"new", "outbox"}) = One(stage[m], {"new", "outbox"})
        /\ consumer'[i] = consumer[i]
    BY <1>0
  <1>1. CASE Route
    <2>1. /\ commands' = commands /\ spare' = spare /\ router.pos < Len(imMessages)
          /\ router' = [pos |-> router.pos + 1, done |-> router.pos + 1]
          /\ outq' = outq \/ outq' = outq \o route(Next1)
          /\ router.done = router.pos
      BY <1>0, <1>1 DEF Route, AdvanceAndCommit
    <2>2. Waiting(m, outq \o route(Next1), 0) = Waiting(m, outq, 0) + One(Next1, {m})
      <3>1. /\ route(Next1) \in Seq(Private)
            /\ Waiting(m, route(Next1), 0) = One(Next1, {m})
        BY WaitingRoute
      <3>2. Waiting(m, outq \o route(Next1), 0)
              = Waiting(m, outq, 0) + Waiting(m, route(Next1), 0)
        BY <1>0, <3>1, WaitingConcat, 0 <= Len(outq)
      <3> QED
        BY <3>1, <3>2
    <2>3. Waiting(m, imMessages, router.done)
            = One(Next1, {m}) + Waiting(m, imMessages, router.done + 1)
      <3> DEFINE d == router.done
      <3>1. /\ d \in Nat /\ d < Len(imMessages) /\ imMessages[d + 1] = Next1
            /\ imMessages \in Seq(Msgs)
        BY <1>0, <2>1 DEF Next1
      <3> HIDE DEF d
      <3>2. Waiting(m, imMessages, d) = One(imMessages[d + 1], {m}) + Waiting(m, imMessages, d + 1)
        BY <3>1, WaitingNext
      <3> QED
        BY <3>1, <3>2 DEF d
    <2>4. One(Next1, {m}) \in Nat /\ Waiting(m, imMessages, router.done + 1) \in Nat
      BY <1>0, router.done + 1 \in Nat, WaitingNat DEF One
    <2>5. Waiting(m, commands', consumer'[i]) = Waiting(m, commands, consumer[i])
      BY <1>s, <2>1
    <2>6. /\ Waiting(m, outq', 0) <= Waiting(m, outq, 0) + One(Next1, {m})
          /\ Waiting(m, outq', 0) \in Nat
      <3>1. CASE outq' = outq
        BY <1>p, <2>4, <3>1
      <3>2. CASE outq' = outq \o route(Next1)
        BY <1>p, <2>2, <2>4, <3>2
      <3> QED
        BY <2>1, <3>1, <3>2
    <2>7. Waiting(m, imMessages', router'.done) = Waiting(m, imMessages, router.done + 1)
      <3>1. imMessages' = imMessages /\ router'.done = router.done + 1
        BY <1>0, <2>1
      <3> QED
        BY <3>1
    <2>8. Copies(i, m)' <= Copies(i, m) /\ Copies(i, m)' \in Nat
      BY <1>p, <1>s, <2>3, <2>4, <2>5, <2>6, <2>7 DEF Copies
    <2> QED
      BY <1>p, <2>1, <2>8
  <1>2. CASE Produce
    <2>1. /\ outq # <<>> /\ outq' = Tail(outq) /\ commands' = Append(commands, Head(outq))
          /\ UNCHANGED <<router, spare>>
      BY <1>2 DEF Produce
    <2>2. Waiting(m, outq, 0) = One(Head(outq), {m}) + Waiting(m, Tail(outq), 0)
      BY <1>0, <2>1, WaitingTail
    <2>3. Head(outq) \in Private /\ Tail(outq) \in Seq(Private) /\ 0 \in Nat
      BY <1>0, <2>1
    <2>4. Waiting(m, Append(commands, Head(outq)), consumer[i])
            = Waiting(m, commands, consumer[i]) + One(Head(outq), {m})
      BY <1>0, <2>3, WaitingAppend
    <2>5. One(Head(outq), {m}) \in Nat /\ Waiting(m, Tail(outq), 0) \in Nat
      BY <2>3, WaitingNat DEF One
    <2>6. /\ Waiting(m, commands', consumer'[i])
               = Waiting(m, commands, consumer[i]) + One(Head(outq), {m})
          /\ Waiting(m, outq', 0) = Waiting(m, Tail(outq), 0)
          /\ Waiting(m, imMessages', router'.done) = Waiting(m, imMessages, router.done)
      BY <1>0, <1>s, <2>1, <2>4
    <2>7. Copies(i, m)' = Copies(i, m)
      BY <1>p, <1>s, <2>2, <2>5, <2>6 DEF Copies
    <2> QED
      BY <2>1, <2>7
  <1>3. CASE TxRoute \/ TxAbort
    <2>1. /\ UNCHANGED <<commands, outq, spare>>
          /\ router' = router \/ router' = [router EXCEPT !.pos = @ + 1]
      BY <1>3 DEF TxRoute, TxAbort, Advance
    <2>2. router'.done = router.done
      BY <1>0, <2>1
    <2>3. Copies(i, m)' = Copies(i, m)
      BY <1>0, <1>s, <2>1, <2>2 DEF Copies
    <2> QED
      BY <2>1, <2>3
  <1>b. Waiting(m, commands \o batch, consumer[i])
          = Waiting(m, commands, consumer[i]) + Waiting(m, batch, 0)
    BY <1>0, WaitingConcat
  <1>w. Waiting(m, batch, 0) \in Nat
    BY <1>0, 0 \in Nat, WaitingNat
  <1>4. CASE TxCommit
    <2>1. /\ commands' = commands \o batch /\ UNCHANGED <<outq, spare>>
          /\ router' = [router EXCEPT !.done = router.pos]
      BY <1>4 DEF TxCommit
    <2>2. router'.done = router.pos
      BY <1>0, <2>1
    <2>3. Waiting(m, imMessages, router.done)
            = Times(m, imMessages, (router.done + 1)..router.pos)
                + Waiting(m, imMessages, router.pos)
      BY <1>0, router.done \in Nat, router.pos \in Nat, WaitingAgain
    <2>4. /\ Waiting(m, batch, 0) <= Times(m, imMessages, (router.done + 1)..router.pos)
          /\ Times(m, imMessages, (router.done + 1)..router.pos) \in Nat
          /\ Waiting(m, imMessages, router.pos) \in Nat
      BY <1>0, TimesNat, WaitingNat, router.done + 1 \in Int, router.pos \in Int,
         router.pos \in Nat DEF BatchIsUncommitted
    <2>5. /\ Waiting(m, commands', consumer'[i])
               = Waiting(m, commands, consumer[i]) + Waiting(m, batch, 0)
          /\ Waiting(m, outq', 0) = Waiting(m, outq, 0)
          /\ Waiting(m, imMessages', router'.done) = Waiting(m, imMessages, router.pos)
      <3>1. /\ commands' = commands \o batch /\ consumer'[i] = consumer[i] /\ outq' = outq
            /\ imMessages' = imMessages /\ router'.done = router.pos
        BY <1>0, <2>1, <2>2
      <3> QED
        BY <1>b, <3>1
    <2>6. Copies(i, m)' <= Copies(i, m) /\ Copies(i, m)' \in Nat
      <3> DEFINE t == Times(m, imMessages, (router.done + 1)..router.pos)
                 w == Waiting(m, imMessages, router.pos)
                 b == Waiting(m, batch, 0)
      <3>1. /\ t \in Nat /\ w \in Nat /\ b \in Nat /\ b <= t
            /\ Waiting(m, imMessages, router.done) = t + w
            /\ Waiting(m, imMessages', router'.done) = w
            /\ Waiting(m, commands', consumer'[i]) = Waiting(m, commands, consumer[i]) + b
        BY <1>w, <2>3, <2>4, <2>5
      <3> HIDE DEF t, w, b
      <3> QED
        BY <1>p, <1>s, <2>5, <3>1 DEF Copies
    <2> QED
      BY <1>p, <2>1, <2>6
  <1>5. CASE TxOffsetsFail
    <2>1. /\ commands' = commands \o batch /\ UNCHANGED <<outq, router>>
          /\ Spare(Again(batch, DOMAIN batch))
      BY <1>5 DEF TxOffsetsFail
    <2>2. spare'[m] = spare[m] + Waiting(m, batch, 0)
      <3>1. DOMAIN batch = 1..Len(batch) /\ 1 \in Int /\ Len(batch) \in Int /\ 0 + 1 = 1
        BY <1>0
      <3>2. spare'[m] = spare[m] + Again(batch, 1..Len(batch))[m]
        BY <2>1, <3>1, SpareAdds, OnceAgain
      <3> QED
        BY <3>1, <3>2 DEF Again, Waiting
    <2>3. /\ Waiting(m, commands', consumer'[i])
               = Waiting(m, commands, consumer[i]) + Waiting(m, batch, 0)
          /\ Waiting(m, outq', 0) = Waiting(m, outq, 0)
          /\ Waiting(m, imMessages', router'.done) = Waiting(m, imMessages, router.done)
      BY <1>0, <1>s, <1>b, <2>1
    <2>4. Copies(i, m)' = Copies(i, m) + Waiting(m, batch, 0)
      BY <1>p, <1>s, <1>w, <2>3 DEF Copies
    <2> QED
      BY <1>p, <1>w, <2>2, <2>4
  <1>6. CASE RouterRestarts
    <2>1. PICK n : /\ n \in (IF mode = "once" THEN Reread(router.done) ELSE {router.done})
                   /\ router' = [pos |-> n, done |-> n]
                   /\ Spare(Again(imMessages, (n + 1)..router.done))
      BY <1>6 DEF RouterRestarts
    <2>2. commands' = commands /\ outq' = <<>>
      BY <1>6 DEF RouterRestarts
    <2>3. /\ n \in Nat /\ n <= router.done /\ router'.done = n /\ n + 1 \in Int
          /\ router.done \in Nat /\ router.done \in Int /\ router.done <= Len(imMessages)
      BY <1>0, <2>1 DEF Reread
    <2>4. /\ spare'[m] = spare[m] + Times(m, imMessages, (n + 1)..router.done)
          /\ Times(m, imMessages, (n + 1)..router.done) \in Nat
      <3>1. /\ Again(imMessages, (n + 1)..router.done) \in [Private -> Nat]
            /\ Times(m, imMessages, (n + 1)..router.done) \in Nat
        BY <2>3, OnceAgain, TimesNat
      <3>2. spare'[m] = spare[m] + Again(imMessages, (n + 1)..router.done)[m]
        BY <2>1, <3>1, SpareAdds
      <3> QED
        BY <3>1, <3>2 DEF Again
    <2>5. Waiting(m, imMessages, n)
            = Times(m, imMessages, (n + 1)..router.done) + Waiting(m, imMessages, router.done)
      BY <1>0, <2>3, WaitingAgain
    <2>6. /\ Waiting(m, commands', consumer'[i]) = Waiting(m, commands, consumer[i])
          /\ Waiting(m, outq', 0) = 0
          /\ Waiting(m, imMessages', router'.done) = Waiting(m, imMessages, n)
      BY <1>0, <1>s, <2>2, <2>3, NothingWaits
    <2>7. /\ Waiting(m, imMessages', router'.done)
               = Times(m, imMessages, (n + 1)..router.done) + Waiting(m, imMessages, router.done)
      BY <2>5, <2>6
    <2>8. /\ Copies(i, m)' <= Copies(i, m) + Times(m, imMessages, (n + 1)..router.done)
          /\ Copies(i, m)' \in Nat
      <3> DEFINE t == Times(m, imMessages, (n + 1)..router.done)
      <3>1. /\ t \in Nat
            /\ Waiting(m, imMessages', router'.done) = t + Waiting(m, imMessages, router.done)
        BY <2>4, <2>7
      <3> HIDE DEF t
      <3>2. /\ Copies(i, m)' <= Copies(i, m) + t
            /\ Copies(i, m)' \in Nat
        BY <1>p, <1>s, <2>6, <3>1 DEF Copies
      <3> QED
        BY <3>2 DEF t
    <2> QED
      BY <1>p, <2>4, <2>8
  <1>7. CASE ProduceFails
    <2>1. outq # <<>> /\ outq' = Tail(outq) /\ UNCHANGED <<commands, router, spare>>
      BY <1>7 DEF ProduceFails
    <2>2. Waiting(m, outq, 0) = One(Head(outq), {m}) + Waiting(m, Tail(outq), 0)
      BY <1>0, <2>1, WaitingTail
    <2>3. Tail(outq) \in Seq(Private) /\ 0 \in Nat
      BY <1>0, <2>1
    <2>4. One(Head(outq), {m}) \in Nat /\ Waiting(m, Tail(outq), 0) \in Nat
      BY <2>3, WaitingNat DEF One
    <2>5. /\ Waiting(m, commands', consumer'[i]) = Waiting(m, commands, consumer[i])
          /\ Waiting(m, outq', 0) = Waiting(m, Tail(outq), 0)
          /\ Waiting(m, imMessages', router'.done) = Waiting(m, imMessages, router.done)
      BY <1>0, <1>s, <2>1
    <2>6. Copies(i, m)' <= Copies(i, m) /\ Copies(i, m)' \in Nat
      BY <1>p, <1>s, <2>2, <2>4, <2>5 DEF Copies
    <2> QED
      BY <1>p, <2>1, <2>6
  <1> QED
    BY <1>1, <1>2, <1>3, <1>4, <1>5, <1>6, <1>7 DEF RouterStep

\* An instance: what it shows it has read or taken from its channel, and what it reads
\* again is paid for.
LEMMA InstanceCopies ==
  ASSUME PipeTypeOK, Offsets, InstanceStep,
         NEW i \in Instances, NEW m \in Private, Copies(i, m) <= 1 + spare[m]
  PROVE  Copies(i, m)' <= 1 + spare'[m]
  <1>0. /\ UNCHANGED <<stage, imMessages, commands, outq, router>>
        /\ commands \in Seq(Private) /\ consumer \in [Instances -> Nat]
        /\ \A j \in Instances : consumer[j] \in Nat /\ consumer[j] <= Len(commands)
        /\ channel \in [Instances -> SUBSET Private]
    BY StepsLeave DEF routing, PipeTypeOK, Offsets
  <1>p. /\ shown[i][m] \in Nat /\ spare[m] \in Nat
        /\ One(m, channel[i]) \in Nat /\ One(stage[m], {"new", "outbox"}) \in Nat
        /\ Waiting(m, commands, consumer[i]) \in Nat
        /\ Waiting(m, outq, 0) \in Nat
        /\ Waiting(m, imMessages, router.done) \in Nat
        /\ Copies(i, m) \in Nat
    BY CopiesParts
  <1>s. /\ One(stage'[m], {"new", "outbox"}) = One(stage[m], {"new", "outbox"})
        /\ Waiting(m, outq', 0) = Waiting(m, outq, 0)
        /\ Waiting(m, imMessages', router'.done) = Waiting(m, imMessages, router.done)
    BY <1>0
  <1>1. ASSUME NEW j \in Instances, PushCommand(j) PROVE Copies(i, m)' <= 1 + spare'[m]
    <2> DEFINE x == commands[consumer[j] + 1]
    <2>1. /\ Show(j, x) /\ consumer[j] < Len(commands)
          /\ consumer' = [consumer EXCEPT ![j] = @ + 1]
          /\ channel' = channel /\ spare' = spare
      BY <1>1 DEF PushCommand, Push
    <2>2. x \in Private
      BY <1>0, <2>1
    <2>3. Waiting(m, commands, consumer[j])
            = One(x, {m}) + Waiting(m, commands, consumer[j] + 1)
      BY <1>0, <2>1, WaitingNext
    <2>4. One(x, {m}) \in Nat /\ Waiting(m, commands, consumer[j] + 1) \in Nat
      BY <1>0, consumer[j] + 1 \in Nat, WaitingNat DEF One
    <2> HIDE DEF x
    <2>5. shown'[i][m] = shown[i][m] + IF i = j /\ m = x /\ j \in online THEN 1 ELSE 0
      BY <2>1, <2>2, ShowAdds
    <2>6. One(m, channel'[i]) = One(m, channel[i])
      BY <2>1
    <2>7. CASE i = j
      <3>1. Waiting(m, commands', consumer'[i]) = Waiting(m, commands, consumer[j] + 1)
        BY <1>0, <2>1, <2>7
      <3>2. shown'[i][m] \in Nat /\ shown'[i][m] <= shown[i][m] + One(x, {m})
        BY <1>p, <2>5 DEF One
      <3>3. Copies(i, m)' <= Copies(i, m) /\ Copies(i, m)' \in Nat
        BY <1>p, <1>s, <2>3, <2>4, <2>6, <2>7, <3>1, <3>2 DEF Copies
      <3> QED
        BY <1>p, <2>1, <3>3
    <2>8. CASE i # j
      <3>1. /\ Waiting(m, commands', consumer'[i]) = Waiting(m, commands, consumer[i])
            /\ shown'[i][m] = shown[i][m]
        BY <1>0, <1>p, <2>1, <2>5, <2>8
      <3>2. Copies(i, m)' = Copies(i, m)
        BY <1>s, <2>6, <3>1 DEF Copies
      <3> QED
        BY <2>1, <3>2
    <2> QED
      BY <2>7, <2>8
  <1>2. ASSUME NEW j \in Instances, InstanceRestarts(j) PROVE Copies(i, m)' <= 1 + spare'[m]
    <2>1. PICK n \in Reread(consumer[j]) :
            /\ consumer' = [consumer EXCEPT ![j] = n]
            /\ Spare(Again(commands, (n + 1)..consumer[j]))
      BY <1>2 DEF InstanceRestarts
    <2>2. channel' = [channel EXCEPT ![j] = {}] /\ shown' = shown
      BY <1>2 DEF InstanceRestarts, Deafen
    <2>3. /\ n \in Nat /\ n <= consumer[j] /\ n + 1 \in Int /\ consumer[j] \in Int
          /\ consumer[j] \in Nat
      BY <1>0, <2>1 DEF Reread
    <2>4. /\ spare'[m] = spare[m] + Times(m, commands, (n + 1)..consumer[j])
          /\ Times(m, commands, (n + 1)..consumer[j]) \in Nat
      <3>1. /\ Again(commands, (n + 1)..consumer[j]) \in [Private -> Nat]
            /\ Times(m, commands, (n + 1)..consumer[j]) \in Nat
        BY <2>3, OnceAgain, TimesNat
      <3>2. spare'[m] = spare[m] + Again(commands, (n + 1)..consumer[j])[m]
        BY <2>1, <3>1, SpareAdds
      <3> QED
        BY <3>1, <3>2 DEF Again
    <2>5. Waiting(m, commands, n)
            = Times(m, commands, (n + 1)..consumer[j]) + Waiting(m, commands, consumer[j])
      BY <1>0, <2>3, WaitingAgain
    <2>6. One(m, channel'[i]) \in Nat /\ One(m, channel'[i]) <= One(m, channel[i])
      BY <1>0, <2>2 DEF One
    <2>7. \/ Waiting(m, commands', consumer'[i]) = Waiting(m, commands, consumer[i])
          \/ /\ Waiting(m, commands', consumer'[i]) = Waiting(m, commands, n)
             /\ i = j
      BY <1>0, <2>1
    <2>8. /\ Waiting(m, commands', consumer'[i]) \in Nat
          /\ Waiting(m, commands', consumer'[i])
               <= Waiting(m, commands, consumer[i]) + Times(m, commands, (n + 1)..consumer[j])
      BY <1>p, <2>4, <2>5, <2>7
    <2>9. /\ Copies(i, m)' <= Copies(i, m) + Times(m, commands, (n + 1)..consumer[j])
          /\ Copies(i, m)' \in Nat
      <3> DEFINE t == Times(m, commands, (n + 1)..consumer[j])
      <3>1. shown'[i][m] = shown[i][m]
        BY <2>2
      <3>2. /\ t \in Nat /\ Waiting(m, commands', consumer'[i]) \in Nat
            /\ Waiting(m, commands', consumer'[i]) <= Waiting(m, commands, consumer[i]) + t
        BY <2>4, <2>8
      <3> HIDE DEF t
      <3>3. Copies(i, m)' <= Copies(i, m) + t /\ Copies(i, m)' \in Nat
        BY <1>p, <1>s, <2>6, <3>1, <3>2 DEF Copies
      <3> QED
        BY <3>3 DEF t
    <2> QED
      BY <1>p, <2>4, <2>9
  <1>5. ASSUME NEW j \in Instances, Unsubscribe(j) PROVE Copies(i, m)' <= 1 + spare'[m]
    <2>1. channel' = [channel EXCEPT ![j] = {}] /\ UNCHANGED <<shown, consumer, spare>>
      BY <1>5 DEF Unsubscribe, Deafen
    <2>2. One(m, channel'[i]) \in Nat /\ One(m, channel'[i]) <= One(m, channel[i])
      BY <1>0, <2>1 DEF One
    <2>3. /\ shown'[i][m] = shown[i][m]
          /\ Waiting(m, commands', consumer'[i]) = Waiting(m, commands, consumer[i])
      BY <1>0, <2>1
    <2>4. Copies(i, m)' <= Copies(i, m) /\ Copies(i, m)' \in Nat
      BY <1>p, <1>s, <2>2, <2>3 DEF Copies
    <2> QED
      BY <1>p, <2>1, <2>4
  <1>3. ASSUME NEW j \in Instances, Subscribe(j) \/ SessionStep(j)
        PROVE  Copies(i, m)' <= 1 + spare'[m]
    <2>1. UNCHANGED <<shown, channel, consumer, spare>>
      BY <1>3 DEF Subscribe, SessionStep, Connect, Disconnect, delivery
    <2> QED
      BY <1>0, <1>s, <2>1 DEF Copies
  <1>4. ASSUME NEW j \in Instances, NEW x \in Private, Deliver(j, x)
        PROVE  Copies(i, m)' <= 1 + spare'[m]
    <2>1. /\ x \in channel[j] /\ channel' = [channel EXCEPT ![j] = @ \ {x}] /\ Show(j, x)
          /\ consumer' = consumer /\ spare' = spare
      BY <1>4 DEF Deliver
    <2>2. shown'[i][m] = shown[i][m] + IF i = j /\ m = x /\ j \in online THEN 1 ELSE 0
      BY <2>1, ShowAdds
    <2>3. /\ One(m, channel'[i]) \in Nat /\ shown'[i][m] \in Nat
          /\ shown'[i][m] + One(m, channel'[i]) <= shown[i][m] + One(m, channel[i])
      BY <1>0, <1>p, <2>1, <2>2 DEF One
    <2>4. Waiting(m, commands', consumer'[i]) = Waiting(m, commands, consumer[i])
      BY <1>0, <2>1
    <2>5. Copies(i, m)' <= Copies(i, m) /\ Copies(i, m)' \in Nat
      BY <1>p, <1>s, <2>3, <2>4 DEF Copies
    <2> QED
      BY <1>p, <2>1, <2>5
  <1> QED
    BY <1>1, <1>2, <1>3, <1>4, <1>5 DEF InstanceStep

\* The initial state: empty logs, and for every message one copy to come.
LEMMA PipeInitInv == PipeInit => PipeInv
  <1> SUFFICES ASSUME PipeInit PROVE PipeInv
    OBVIOUS
  <1> USE PipelineAssumption DEF PipelineAssumption
  <1>1. /\ imMessages = <<>> /\ commands = <<>> /\ outq = <<>> /\ batch = <<>>
        /\ router = [pos |-> 0, done |-> 0] /\ consumer = [i \in Instances |-> 0]
        /\ stage = [m \in Msgs |-> "new"] /\ rows = [m \in Msgs |-> "none"]
        /\ channel = [i \in Instances |-> {}]
        /\ shown = [i \in Instances |-> [m \in Private |-> 0]]
        /\ spare = [m \in Private |-> 0]
    BY DEF PipeInit
  <1>2. PipeTypeOK
    <2>1. <<>> \in Seq(Msgs) /\ <<>> \in Seq(Private)
      OBVIOUS
    <2>2. [m \in Private |-> 0] \in [Private -> Nat]
      OBVIOUS
    <2> QED
      BY <2>1, <2>2 DEF PipeInit, PipeTypeOK
  <1>3. Offsets /\ SkipsExplained /\ ReadExplained /\ CommandsExplained
    BY <1>1 DEF Offsets, SkipsExplained, ReadExplained, CommandsExplained
  <1>4. Sent
    BY <1>1 DEF Sent
  <1>5. InlineExplained
    <2>1. \A m \in Private : m \in Msgs /\ stage[m] = "new"
      BY <1>1 DEF Msgs
    <2> QED
      BY <2>1 DEF InlineExplained
  <1>6. BatchIsUncommitted
    <2> SUFFICES ASSUME NEW m \in Private
                 PROVE Waiting(m, batch, 0)
                         <= Times(m, imMessages, (router.done + 1)..router.pos)
      BY DEF BatchIsUncommitted
    <2>1. router.done + 1 \in Int /\ router.pos \in Int
      BY <1>1
    <2>2. Times(m, imMessages, (router.done + 1)..router.pos) \in Nat
      BY <2>1, TimesNat
    <2> QED
      BY <1>1, <2>2, NothingWaits
  <1>7. CopiesPaid
    <2> SUFFICES ASSUME NEW i \in Instances, NEW m \in Private
                 PROVE Copies(i, m) <= 1 + spare[m]
      BY DEF CopiesPaid
    <2>1. /\ shown[i][m] = 0 /\ spare[m] = 0 /\ consumer[i] = 0 /\ router.done = 0
          /\ channel[i] = {}
      BY <1>1
    <2>2. /\ Waiting(m, commands, consumer[i]) = 0 /\ Waiting(m, outq, 0) = 0
          /\ Waiting(m, imMessages, router.done) = 0
      BY <1>1, <2>1, NothingWaits
    <2>3. One(m, channel[i]) = 0 /\ One(stage[m], {"new", "outbox"}) \in {0, 1}
      BY <2>1 DEF One
    <2> QED
      BY <2>1, <2>2, <2>3 DEF Copies
  <1> QED
    BY <1>2, <1>3, <1>4, <1>5, <1>6, <1>7 DEF PipeInv

\* Every step preserves the invariant.
LEMMA PipeNextInv == PipeInv /\ [PipeNext]_pipeVars => PipeInv'
  <1> SUFFICES ASSUME PipeInv, [PipeNext]_pipeVars PROVE PipeInv'
    OBVIOUS
  <1>1. PipeTypeOK /\ Offsets /\ Sent /\ SkipsExplained /\ ReadExplained /\ InlineExplained
        /\ CommandsExplained /\ BatchIsUncommitted /\ CopiesPaid
    BY DEF PipeInv
  <1>2. PipeTypeOK' /\ Offsets' /\ Sent' /\ SkipsExplained' /\ ReadExplained' /\ InlineExplained'
        /\ CommandsExplained' /\ BatchIsUncommitted'
    BY <1>1, PipeNextTypeOK, NextOffsets, NextSent, NextRead, NextInline, NextCommands, NextBatch
  <1>3. CopiesPaid'
    <2> SUFFICES ASSUME NEW i \in Instances, NEW m \in Private
                 PROVE Copies(i, m)' <= 1 + spare'[m]
      BY DEF CopiesPaid
    <2>1. Copies(i, m) <= 1 + spare[m]
      BY <1>1 DEF CopiesPaid
    <2>2. CASE UNCHANGED pipeVars
      <3>1. UNCHANGED <<shown, channel, commands, consumer, outq, imMessages, router, stage, spare>>
        BY <2>2 DEF pipeVars, intake, routing, delivery
      <3> QED
        BY <2>1, <3>1 DEF Copies
    <2>3. CASE IntakeStep \/ RouterStep \/ InstanceStep
      BY <1>1, <2>1, <2>3, IntakeCopies, RouterCopies, InstanceCopies
    <2> QED
      BY <2>2, <2>3, StepsLeave
  <1> QED
    BY <1>2, <1>3 DEF PipeInv

\* The invariant of the pipeline, for any messages, instances and sizes of a batch, and
\* any number of failures, in both modes of the push router.
THEOREM PipelineSafety == PipeSpec => []PipeInv
  BY PipeInitInv, PipeNextInv, PTL DEF PipeSpec

\* The variables of the pipeline keep their types.
THEOREM PipelineTypes == PipeSpec => []PipeTypeOK
  <1>1. PipeInv => PipeTypeOK
    BY DEF PipeInv
  <1> QED
    BY <1>1, PipelineSafety, PTL

\* A session gets a message at most once and once more for every copy that a second
\* relay, a record read again, a transaction without its offsets or a commit in doubt
\* may add (push_router/main.cpp:12, 16).
THEOREM CopiesAreExplained == PipeSpec => []CopiesExplained
  <1>1. PipeInv => CopiesExplained
    <2> SUFFICES ASSUME PipeInv, NEW i \in Instances, NEW m \in Private
                 PROVE shown[i][m] <= 1 + spare[m]
      BY DEF CopiesExplained
    <2>1. /\ Copies(i, m) <= 1 + spare[m]
          /\ shown[i][m] \in Nat /\ spare[m] \in Nat
          /\ One(m, channel[i]) \in Nat /\ One(stage[m], {"new", "outbox"}) \in Nat
          /\ Waiting(m, commands, consumer[i]) \in Nat
          /\ Waiting(m, outq, 0) \in Nat
          /\ Waiting(m, imMessages, router.done) \in Nat
      BY CopiesParts DEF PipeInv, CopiesPaid
    <2> QED
      BY <2>1 DEF Copies
  <1> QED
    BY <1>1, PipelineSafety, PTL

\* No message is lost without a cause: the router's offset passes only what is on the
\* way or dropped, an instance is done only with what it showed or what came while the
\* recipient was not there, and an inline message is shown, on a channel, counted, or
\* lost with Redis or on a channel that nobody reads (push_router/main.cpp:109, 112, 163,
\* ChatServer.h:234, InstanceRouter.h:84, 107).
THEOREM LossesAreExplained == PipeSpec => []LossExplained
  <1>1. PipeInv => LossExplained
    BY DEF PipeInv, LossExplained
  <1> QED
    BY <1>1, PipelineSafety, PTL

\* A replay never takes a row back to the text it was sent with: the persister leaves
\* a row alone, and a message that has a row is not saved again (persister/main.cpp:44).
THEOREM ReplaysKeepEdits == PipeSpec => ReplayKeepsEdit
  <1>1. PipeInv /\ [PipeNext]_pipeVars
          => [\A m \in Msgs : rows[m] = "edited" => rows'[m] = "edited"]_pipeVars
    <2> SUFFICES ASSUME PipeInv, [PipeNext]_pipeVars, NEW m \in Msgs, rows[m] = "edited"
                 PROVE  rows'[m] = "edited"
      OBVIOUS
    <2>0. /\ rows \in [Msgs -> {"none", "saved", "edited"}] /\ stage[m] # "new"
          /\ imMessages \in Seq(Msgs)
      BY DEF PipeInv, PipeTypeOK, Sent
    <2>1. ASSUME NEW x \in Msgs, Save(x) \/ SaveFails(x) \/ Relay(x) \/ Edit(x)
          PROVE  rows'[m] = "edited"
      BY <2>0, <2>1 DEF Save, SaveFails, Relay, Edit
    <2>2. ASSUME NEW k \in DOMAIN imMessages, Persist(k) PROVE rows'[m] = "edited"
      BY <2>0, <2>2 DEF Persist, Insert
    <2>3. CASE RouterStep \/ InstanceStep \/ UNCHANGED pipeVars
      BY <2>3, StepsLeave DEF pipeVars, intake
    <2> QED
      BY <2>1, <2>2, <2>3, StepsLeave DEF IntakeStep
  <1> QED
    BY <1>1, PipelineSafety, PTL DEF PipeSpec, ReplayKeepsEdit
===============================================================================
