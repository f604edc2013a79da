----------------------------- MODULE GatewayProofs -----------------------------
(***************************************************************************)
(* The two things a gateway relies on for the way up: that its pool knows  *)
(* the logic servers (Discovery), and what the answer to a call says       *)
(* (LogicCall).                                                            *)
(*                                                                         *)
(* Discovery, for any number of processes, ids and addresses, any TTL and  *)
(* any pace of keep-alives: the maps of the registry agree, the maps of    *)
(* the pool agree and the expiry of leases does not hit a process whose    *)
(* keep-alives get through often enough; and what is under way on the      *)
(* stream of Watch tells, event by event, how the pool becomes what the    *)
(* registry is.                                                            *)
(*                                                                         *)
(* LogicCall, for any servers, zones, messages and thresholds of the       *)
(* breakers: what the answer to a client says about the rows that its      *)
(* message has.                                                            *)
(***************************************************************************)
EXTENDS Discovery, LogicCall, TLAPS, FiniteSetTheorems

\* A process that has been started has a name, and one that does not send
\* keep-alives has lost none.
Named ==
  \A p \in Procs : /\ pc[p] # "new" => name[p] \in Ids \X Addrs
                   /\ pc[p] # "serving" => lost[p] = 0

\* The age of p's entry and the time until p's next keep-alive are within what
\* the keep-alives it lost account for.
OnTime(p) == age[IdOf(p)] + timer[p] <= (lost[p] + 1) * Period

\* What a registered process can rely on: the number of its lease was given out,
\* and if the registry knows it, it is p's own; p is registered while it is on time.
Holds(p) ==
  /\ lease[p] \in 1..leaseSeq
  /\ \A i \in Ids : <<lease[p], i>> \in leaseTo => i = IdOf(p) /\ endpoints[i] = AddrOf(p)
  /\ Tolerates(lost[p]) =>
       /\ endpoints[IdOf(p)] = AddrOf(p) /\ leaseOf[IdOf(p)] = lease[p]
       /\ OnTime(p)

Kept == \A p \in Procs : pc[p] = "serving" /\ p \notin orphans => Holds(p)

Inv == TypeOK /\ Named /\ LeasesAgree /\ PoolMapsAgree /\ Kept

\* Nothing is registered and nothing known at first.
LEMMA InitInv == Init => Inv
  <1> SUFFICES ASSUME Init PROVE Inv
    OBVIOUS
  <1> USE DiscoveryAssumption DEF DiscoveryAssumption, Init
  <1>1. TypeOK
    BY DEF TypeOK, NoName
  <1>2. Named /\ LeasesAgree /\ PoolMapsAgree /\ Kept
    BY DEF Named, LeasesAgree, PoolMapsAgree, Kept, Known
  <1> QED
    BY <1>1, <1>2 DEF Inv

\* Endpoints in any order, as events of one type, are a sequence of events.
LEMMA EventsInOrder ==
  ASSUME TypeOK, NEW S \in SUBSET Ids, \A i \in S : Known(i),
         NEW o \in Orders(S), NEW t \in {"ADDED", "REMOVED"}
  PROVE  [k \in DOMAIN o |-> [type |-> t, id |-> o[k], addr |-> endpoints[o[k]]]]
           \in Seq(Events)
  <1>1. IsFiniteSet(S)
    BY DiscoveryAssumption, FS_Subset DEF DiscoveryAssumption
  <1>2. Cardinality(S) \in Nat
    BY <1>1, FS_CardinalityType
  <1>3. o \in [1..Cardinality(S) -> S]
    BY DEF Orders
  <1>4. \A i \in S : endpoints[i] \in Addrs
    BY DEF Known, TypeOK
  <1>5. \A k \in 1..Cardinality(S) :
          [type |-> t, id |-> o[k], addr |-> endpoints[o[k]]] \in Events
    BY <1>3, <1>4 DEF Events
  <1>6. DOMAIN o = 1..Cardinality(S)
    BY <1>3
  <1> QED
    BY <1>2, <1>5, <1>6

\* What goes to the pool's queue is a sequence of events again.
LEMMA BroadcastType ==
  ASSUME TypeOK, NEW e \in Seq(Events), Broadcast(e)
  PROVE  queue' \in Seq(Events)
  BY DEF TypeOK, Broadcast

\* Removal of instances keeps the types.
LEMMA RemovalType ==
  ASSUME TypeOK, NEW S \in SUBSET Ids, RemoveInstances(S)
  PROVE  /\ endpoints' \in [Ids -> Addrs \cup {None}] /\ age' \in [Ids -> 0..(Ttl + 1)]
         /\ leaseTo' \subseteq (Nat \X Ids) /\ leaseOf' \in [Ids -> Nat]
         /\ queue' \in Seq(Events)
         /\ UNCHANGED <<up, leaseSeq, unsure, clients, instAddr, feed>>
  <1> USE DiscoveryAssumption DEF DiscoveryAssumption
  <1>1. PICK o \in Orders({i \in S : Known(i)}) : Broadcast(Removals(o))
    BY DEF RemoveInstances
  <1>2. Removals(o) \in Seq(Events)
    BY EventsInOrder DEF Removals
  <1>3. queue' \in Seq(Events)
    BY <1>1, <1>2, BroadcastType
  <1> QED
    BY <1>3 DEF RemoveInstances, TypeOK, poolVars

\* Every action keeps the variables in their types.
LEMMA NextTypeOK == Inv /\ [Next]_vars => TypeOK'
  <1> SUFFICES ASSUME Inv, [Next]_vars PROVE TypeOK'
    OBVIOUS
  <1> TypeOK /\ Named
    BY DEF Inv
  <1> USE DiscoveryAssumption DEF DiscoveryAssumption, Fault, CallFails
  <1> USE DEF logicVars, regVars, streamVars, poolVars
  <1>1. ASSUME NEW p \in Procs, Start(p) PROVE TypeOK'
    BY <1>1, SMTT(60) DEF Start, TypeOK
  <1>2. ASSUME NEW p \in Procs, Register(p) PROVE TypeOK'
    <2>1. IdOf(p) \in Ids /\ AddrOf(p) \in Addrs
      BY <1>2 DEF Register, Named, IdOf, AddrOf
    <2>2. queue' \in Seq(Events)
      <3>1. [type |-> "ADDED", id |-> IdOf(p), addr |-> AddrOf(p)] \in Events
        BY <2>1 DEF Events
      <3>2. <<[type |-> "ADDED", id |-> IdOf(p), addr |-> AddrOf(p)]>> \in Seq(Events)
        BY <3>1
      <3> QED
        BY <1>2, <3>2, BroadcastType DEF Register, ExecRegister
    <2>3. /\ endpoints' \in [Ids -> Addrs \cup {None}] /\ age' \in [Ids -> 0..(Ttl + 1)]
          /\ leaseTo' \subseteq (Nat \X Ids) /\ leaseOf' \in [Ids -> Nat] /\ leaseSeq' \in Nat
      BY <1>2, <2>1 DEF Register, ExecRegister, NewLease, TypeOK
    <2>4. orphans' \subseteq Procs
      BY <1>2 DEF Register, ExecRegister, Rivals, TypeOK
    <2>5. unsure' \subseteq Addrs
      BY <1>2, <2>1 DEF Register, ExecRegister, Shared, TypeOK
    <2>6. UNCHANGED <<up, clients, instAddr, feed, name, srv>>
      BY <1>2 DEF Register, ExecRegister
    <2>7. /\ pc' \in [Procs -> {"new", "joining", "serving", "leaving", "left", "gone"}]
          /\ lease' \in [Procs -> Nat] /\ timer' \in [Procs -> 0..Period]
          /\ lost' \in [Procs -> Nat] /\ faults' \in 0..MaxFaults
      <3>1. CASE /\ pc' = [pc EXCEPT ![p] = "serving"]
                 /\ lease' = [lease EXCEPT ![p] = leaseSeq']
                 /\ \E t \in 1..Period : timer' = [timer EXCEPT ![p] = t]
                 /\ UNCHANGED <<name, srv, lost, faults>>
        <4>1. PICK t \in 1..Period : timer' = [timer EXCEPT ![p] = t]
          BY <3>1
        <4> QED
          BY <2>3, <3>1, <4>1 DEF TypeOK
      <3>2. CASE Fault /\ UNCHANGED logicVars
        BY <3>2 DEF TypeOK
      <3> QED
        BY <1>2, <3>1, <3>2 DEF Register
    <2> QED
      BY <2>2, <2>3, <2>4, <2>5, <2>6, <2>7 DEF TypeOK
  <1>3. ASSUME NEW p \in Procs, KeepAlive(p) PROVE TypeOK'
    <2>1. timer' \in [Procs -> 0..Period]
      BY <1>3 DEF KeepAlive, TypeOK
    <2>2. age' \in [Ids -> 0..(Ttl + 1)] /\ lost' \in [Procs -> Nat] /\ faults' \in 0..MaxFaults
      <3>1. CASE up /\ Refresh(p) /\ UNCHANGED faults
        <4>1. age' \in [Ids -> 0..(Ttl + 1)]
          BY <3>1 DEF Refresh, TypeOK
        <4>2. lost' \in [Procs -> Nat]
          BY <3>1 DEF Refresh, TypeOK
        <4> QED
          BY <3>1, <4>1, <4>2 DEF TypeOK
      <3>2. CASE /\ CallFails /\ UNCHANGED age
                 /\ lost' = [lost EXCEPT ![p] = IF Tolerates(@) THEN @ + 1 ELSE @]
        BY <3>2 DEF TypeOK
      <3> QED
        BY <1>3, <3>1, <3>2 DEF KeepAlive
    <2> QED
      BY <1>3, <2>1, <2>2 DEF KeepAlive, TypeOK
  <1>4. ASSUME NEW p \in Procs, Stop(p) PROVE TypeOK'
    BY <1>4, SMTT(60) DEF Stop, Forget, TypeOK
  <1>5. ASSUME NEW p \in Procs, Deregister(p) PROVE TypeOK'
    <2>1. IdOf(p) \in Ids
      BY <1>5 DEF Deregister, Named, IdOf
    <2>2. CASE ExecDeregister(p) /\ UNCHANGED faults
      <3>1. RemoveInstances({IdOf(p)}) /\ orphans' \subseteq Procs
        BY <2>2 DEF ExecDeregister, Rivals, TypeOK
      <3> QED
        BY <1>5, <2>1, <2>2, <3>1, RemovalType DEF Deregister, TypeOK
    <2>3. CASE CallFails /\ UNCHANGED <<orphans, regVars, poolVars, streamVars>>
      BY <1>5, <2>3, SMTT(60) DEF Deregister, TypeOK
    <2> QED
      BY <1>5, <2>2, <2>3 DEF Deregister
  <1>6. ASSUME NEW p \in Procs, Shutdown(p) PROVE TypeOK'
    BY <1>6 DEF Shutdown, TypeOK
  <1>7. ASSUME NEW p \in Procs, Crash(p) PROVE TypeOK'
    BY <1>7, SMTT(60) DEF Crash, Forget, TypeOK
  <1>8. CASE Gc
    BY <1>8, RemovalType DEF Gc, TypeOK
  <1>9. CASE RegistryCrash
    <2>1. feed' \in {"new", "list", "off", "on"} /\ queue' \in Seq(Events) /\ unsure' \subseteq Addrs
      <3>1. CASE StreamEnds
        BY <3>1 DEF StreamEnds
      <3>2. CASE UNCHANGED streamVars
        BY <3>2 DEF TypeOK
      <3> QED
        BY <1>9, <3>1, <3>2 DEF RegistryCrash
    <2>2. /\ endpoints' \in [Ids -> Addrs \cup {None}] /\ age' \in [Ids -> 0..(Ttl + 1)]
          /\ leaseOf' \in [Ids -> Nat] /\ leaseTo' = {} /\ leaseSeq' = 0
      BY <1>9 DEF RegistryCrash
    <2>3. faults' \in 0..MaxFaults /\ orphans' \subseteq Procs
      BY <1>9 DEF RegistryCrash, TypeOK
    <2>5. up' \in BOOLEAN
      BY <1>9, Zenon DEF RegistryCrash
    <2>4. UNCHANGED <<logicVars, poolVars>>
      BY <1>9 DEF RegistryCrash
    <2> QED
      BY <2>1, <2>2, <2>3, <2>4, <2>5 DEF TypeOK
  <1>10. CASE RegistryBoot
    BY <1>10 DEF RegistryBoot, TypeOK
  <1>11. CASE Tick
    <2>1. timer' \in [Procs -> 0..Period]
      BY <1>11 DEF Tick, TypeOK
    <2>2. age' \in [Ids -> 0..(Ttl + 1)]
      BY <1>11 DEF Tick, TypeOK
    <2> QED
      BY <1>11, <2>1, <2>2 DEF Tick, TypeOK
  <1>12. ASSUME queue' \in Snapshots PROVE queue' \in Seq(Events)
    <2>1. PICK o \in Orders({i \in Ids : Known(i)}) :
            queue' = [k \in DOMAIN o |->
                        [type |-> "ADDED", id |-> o[k], addr |-> endpoints[o[k]]]]
      BY <1>12 DEF Snapshots
    <2> QED
      BY <2>1, EventsInOrder
  <1>13. CASE Bootstrap
    <2>1. /\ feed' \in {"new", "list", "off", "on"} /\ queue' \in Seq(Events)
          /\ faults' \in 0..MaxFaults
      <3>1. CASE up /\ feed' = "list" /\ queue' \in Snapshots /\ UNCHANGED faults
        BY <1>12, <3>1 DEF TypeOK
      <3>2. CASE CallFails /\ feed' = "off" /\ UNCHANGED queue
        BY <3>2 DEF TypeOK
      <3> QED
        BY <1>13, <3>1, <3>2 DEF Bootstrap
    <2>2. UNCHANGED <<logicVars, orphans, regVars, poolVars, unsure>>
      BY <1>13 DEF Bootstrap
    <2> QED
      BY <2>1, <2>2 DEF TypeOK
  <1>14. CASE Watch
    <2>1. queue' \in Seq(Events)
      BY <1>12, <1>14 DEF Watch, WatchSnapshot
    <2>2. unsure' \subseteq Addrs
      BY <1>14 DEF Watch, Shared, TypeOK
    <2> QED
      BY <1>14, <2>1, <2>2 DEF Watch, TypeOK
  <1>15. CASE Read
    <2>1. Head(queue) \in Events /\ queue' \in Seq(Events)
      BY <1>15 DEF Read, TypeOK
    <2>2. Head(queue).id \in Ids /\ Head(queue).addr \in Addrs
      BY <2>1 DEF Events
    <2>3. clients' \subseteq Addrs /\ instAddr' \in [Ids -> Addrs \cup {None}]
      BY <1>15, <2>2, ZenonT(60) DEF Read, AddEndpoint, RemoveEndpoint, TypeOK
    <2> QED
      BY <1>15, <2>1, <2>3 DEF Read, TypeOK
  <1>16. CASE Disconnect
    BY <1>16 DEF Disconnect, StreamEnds, TypeOK
  <1>17. CASE UNCHANGED vars
    BY <1>17 DEF vars, TypeOK
  <1> QED
    BY <1>1, <1>2, <1>3, <1>4, <1>5, <1>6, <1>7, <1>8, <1>9, <1>10, <1>11, <1>13, <1>14,
       <1>15, <1>16, <1>17 DEF Next

\* The names of started processes stay, and lost keep-alives are counted only
\* while a process serves.
LEMMA NextNamed == Inv /\ [Next]_vars => Named'
  <1> SUFFICES ASSUME Inv, [Next]_vars PROVE Named'
    OBVIOUS
  <1> TypeOK /\ Named
    BY DEF Inv
  <1> USE DEF logicVars, Named
  <1>1. ASSUME NEW p \in Procs, Start(p) PROVE Named'
    <2>1. PICK n \in Names[p] : name' = [name EXCEPT ![p] = n]
      BY <1>1 DEF Start
    <2>2. n \in Ids \X Addrs
      BY DiscoveryAssumption DEF DiscoveryAssumption
    <2> QED
      BY <1>1, <2>1, <2>2 DEF Start, TypeOK
  <1>2. ASSUME NEW p \in Procs, Register(p) PROVE Named'
    BY <1>2 DEF Register, TypeOK
  <1>3. ASSUME NEW p \in Procs, KeepAlive(p) PROVE Named'
    BY <1>3 DEF KeepAlive, Refresh, TypeOK
  <1>4. ASSUME NEW p \in Procs, Stop(p) PROVE Named'
    BY <1>4 DEF Stop, Forget, TypeOK
  <1>5. ASSUME NEW p \in Procs, Deregister(p) PROVE Named'
    BY <1>5 DEF Deregister, TypeOK
  <1>6. ASSUME NEW p \in Procs, Shutdown(p) PROVE Named'
    BY <1>6 DEF Shutdown
  <1>7. ASSUME NEW p \in Procs, Crash(p) PROVE Named'
    BY <1>7 DEF Crash, Forget, TypeOK
  <1>8. CASE UNCHANGED logicVars
    BY <1>8
  <1>9. CASE Tick
    BY <1>9 DEF Tick
  <1> QED
    BY <1>1, <1>2, <1>3, <1>4, <1>5, <1>6, <1>7, <1>8, <1>9
    DEF Next, vars, Gc, RegistryCrash, RegistryBoot, Bootstrap, Watch, Read, Disconnect

\* Removal of instances takes their leases out of both maps and no other.
LEMMA RemovalAgrees ==
  ASSUME TypeOK, LeasesAgree, NEW S \in SUBSET Ids, RemoveInstances(S)
  PROVE  /\ LeasesAgree'
         /\ leaseTo' \subseteq leaseTo
         /\ \A i \in Ids \ S : endpoints'[i] = endpoints[i] /\ leaseOf'[i] = leaseOf[i]
                             /\ age'[i] = age[i]
         /\ leaseSeq' = leaseSeq
  <1> USE DEF RemoveInstances, TypeOK
  <1>1. /\ leaseTo' \subseteq leaseTo /\ leaseSeq' = leaseSeq
        /\ \A i \in Ids \ S : endpoints'[i] = endpoints[i] /\ leaseOf'[i] = leaseOf[i]
                            /\ age'[i] = age[i]
        /\ \A i \in S : endpoints'[i] = None /\ leaseOf'[i] = 0
    OBVIOUS
  <1>2. \A i \in Ids : (Known(i)' <=> leaseOf'[i] # 0) /\ leaseOf'[i] <= leaseSeq'
    BY <1>1 DEF LeasesAgree, Known
  <1>3. ASSUME NEW i \in Ids, Known(i)' PROVE <<leaseOf'[i], i>> \in leaseTo'
    <2>1. i \notin S /\ Known(i) /\ leaseOf'[i] = leaseOf[i] /\ leaseOf[i] # 0
      BY <1>1, <1>3 DEF Known, LeasesAgree
    <2>2. \A j \in S : leaseOf[j] # leaseOf[i]
      BY <2>1 DEF LeasesAgree
    <2>3. <<leaseOf[i], i>> \in leaseTo
      BY <2>1 DEF LeasesAgree
    <2> QED
      BY <2>1, <2>2, <2>3
  <1>4. ASSUME NEW l \in leaseTo' PROVE Known(l[2])' /\ l[1] = leaseOf'[l[2]]
    <2>1. l \in leaseTo /\ l[2] \in Ids /\ \A j \in S : l[1] # leaseOf[j]
      OBVIOUS
    <2>2. Known(l[2]) /\ l[1] = leaseOf[l[2]]
      BY <2>1 DEF LeasesAgree
    <2> QED
      BY <1>1, <2>1, <2>2 DEF Known
  <1>5. \A i, j \in Ids : Known(i)' /\ leaseOf'[i] = leaseOf'[j] => i = j
    BY <1>1 DEF LeasesAgree, Known
  <1> QED
    BY <1>1, <1>2, <1>3, <1>4, <1>5 DEF LeasesAgree

\* A registration replaces the lease of its id by a number never given out.
LEMMA RegisterAgrees ==
  ASSUME TypeOK, Named, LeasesAgree, NEW p \in Procs, Register(p)
  PROVE  /\ LeasesAgree'
         /\ IdOf(p) \in Ids /\ AddrOf(p) \in Addrs
         /\ leaseTo' \subseteq leaseTo \cup {<<leaseSeq + 1, IdOf(p)>>}
         /\ endpoints'[IdOf(p)] = AddrOf(p) /\ leaseOf'[IdOf(p)] = leaseSeq + 1
         /\ age'[IdOf(p)] = 0 /\ leaseSeq' = leaseSeq + 1
         /\ \A i \in Ids \ {IdOf(p)} : endpoints'[i] = endpoints[i]
                                     /\ leaseOf'[i] = leaseOf[i] /\ age'[i] = age[i]
  <1>1. IdOf(p) \in Ids /\ AddrOf(p) \in Addrs
    BY DEF Register, Named, IdOf, AddrOf
  <1>2. AddrOf(p) # None
    BY <1>1, DiscoveryAssumption DEF DiscoveryAssumption
  <1> DEFINE i == IdOf(p)
  <1>3. /\ endpoints' = [endpoints EXCEPT ![i] = AddrOf(p)]
        /\ age' = [age EXCEPT ![i] = 0]
        /\ leaseSeq' = leaseSeq + 1
        /\ leaseTo' = {l \in leaseTo : l[1] # leaseOf[i]} \cup {<<leaseSeq + 1, i>>}
        /\ leaseOf' = [leaseOf EXCEPT ![i] = leaseSeq + 1]
    BY DEF Register, ExecRegister, NewLease
  <1> i \in Ids
    BY <1>1
  <1> HIDE DEF i
  <1> USE DEF TypeOK
  <1>4. /\ endpoints'[i] = AddrOf(p) /\ leaseOf'[i] = leaseSeq + 1 /\ age'[i] = 0
        /\ \A j \in Ids \ {i} : endpoints'[j] = endpoints[j] /\ leaseOf'[j] = leaseOf[j]
                              /\ age'[j] = age[j]
        /\ leaseTo' \subseteq leaseTo \cup {<<leaseSeq + 1, i>>}
    BY <1>3
  <1>5. \A j \in Ids : (Known(j)' <=> leaseOf'[j] # 0) /\ leaseOf'[j] <= leaseSeq'
    BY <1>2, <1>3, <1>4 DEF LeasesAgree, Known
  <1>6. ASSUME NEW j \in Ids, Known(j)' PROVE <<leaseOf'[j], j>> \in leaseTo'
    <2>1. CASE j = i
      BY <1>3, <1>4, <2>1
    <2>2. CASE j # i
      <3>1. Known(j) /\ leaseOf'[j] = leaseOf[j]
        BY <1>4, <1>6, <2>2 DEF Known
      <3>2. <<leaseOf[j], j>> \in leaseTo /\ leaseOf[j] # leaseOf[i]
        BY <2>2, <3>1 DEF LeasesAgree
      <3> QED
        BY <1>3, <3>1, <3>2
    <2> QED
      BY <2>1, <2>2
  <1>7. ASSUME NEW l \in leaseTo' PROVE Known(l[2])' /\ l[1] = leaseOf'[l[2]]
    <2>1. CASE l = <<leaseSeq + 1, i>>
      BY <1>2, <1>4, <2>1 DEF Known
    <2>2. CASE l # <<leaseSeq + 1, i>>
      <3>1. l \in leaseTo /\ l[1] # leaseOf[i] /\ l[2] \in Ids
        BY <1>3, <2>2
      <3>2. Known(l[2]) /\ l[1] = leaseOf[l[2]] /\ l[2] # i
        BY <3>1 DEF LeasesAgree
      <3> QED
        BY <1>4, <3>1, <3>2 DEF Known
    <2> QED
      BY <2>1, <2>2
  <1>8. ASSUME NEW j \in Ids, NEW k \in Ids, Known(j)', leaseOf'[j] = leaseOf'[k]
        PROVE  j = k
    <2>1. \A m \in Ids : leaseOf[m] # leaseSeq + 1
      BY DEF LeasesAgree
    <2>2. CASE j = i \/ k = i
      BY <1>4, <1>8, <2>1, <2>2
    <2>3. CASE j # i /\ k # i
      BY <1>4, <1>8, <2>3 DEF LeasesAgree, Known
    <2> QED
      BY <2>2, <2>3
  <1> QED
    BY <1>1, <1>3, <1>4, <1>5, <1>6, <1>7, <1>8 DEF LeasesAgree, i

\* Every action leaves the maps of the registry in agreement.
LEMMA NextLeases == Inv /\ [Next]_vars => LeasesAgree'
  <1> SUFFICES ASSUME Inv, [Next]_vars PROVE LeasesAgree'
    OBVIOUS
  <1> TypeOK /\ Named /\ LeasesAgree
    BY DEF Inv
  <1>1. ASSUME UNCHANGED <<endpoints, leaseTo, leaseOf, leaseSeq>> PROVE LeasesAgree'
    BY <1>1 DEF LeasesAgree, Known
  <1>2. ASSUME NEW p \in Procs, Register(p) PROVE LeasesAgree'
    BY <1>2, RegisterAgrees
  <1>3. ASSUME NEW p \in Procs, Deregister(p) PROVE LeasesAgree'
    <2>1. CASE ExecDeregister(p)
      <3>1. IdOf(p) \in Ids
        BY <1>3 DEF Deregister, Named, IdOf
      <3> QED
        BY <2>1, <3>1, RemovalAgrees DEF ExecDeregister
    <2>2. CASE UNCHANGED <<orphans, regVars, poolVars, streamVars>>
      BY <1>1, <2>2 DEF regVars
    <2> QED
      BY <1>3, <2>1, <2>2 DEF Deregister
  <1>4. CASE Gc
    BY <1>4, RemovalAgrees DEF Gc
  <1>5. CASE RegistryCrash
    BY <1>5 DEF RegistryCrash, LeasesAgree, Known
  <1>6. ASSUME NEW p \in Procs,
               Start(p) \/ KeepAlive(p) \/ Stop(p) \/ Shutdown(p) \/ Crash(p)
        PROVE  LeasesAgree'
    BY <1>1, <1>6 DEF Start, KeepAlive, Stop, Shutdown, Crash, regVars
  <1>7. CASE RegistryBoot \/ Tick \/ Bootstrap \/ Watch \/ Read \/ Disconnect
    BY <1>1, <1>7 DEF RegistryBoot, Tick, Bootstrap, Watch, Read, Disconnect, regVars
  <1>8. CASE UNCHANGED vars
    BY <1>1, <1>8 DEF vars, regVars
  <1> QED
    BY <1>2, <1>3, <1>4, <1>5, <1>6, <1>7, <1>8 DEF Next

\* Only Read touches the pool's maps, and it keeps them in agreement.
LEMMA NextPool == Inv /\ [Next]_vars => PoolMapsAgree'
  <1> SUFFICES ASSUME Inv, [Next]_vars PROVE PoolMapsAgree'
    OBVIOUS
  <1> TypeOK /\ PoolMapsAgree
    BY DEF Inv
  <1>1. ASSUME UNCHANGED poolVars PROVE PoolMapsAgree'
    BY <1>1 DEF PoolMapsAgree, poolVars
  <1>2. CASE Read
    <2>1. Head(queue) \in Events
      BY <1>2 DEF Read, TypeOK
    <2>2. Head(queue).id \in Ids /\ Head(queue).addr \in Addrs
      BY <2>1 DEF Events
    <2> DEFINE i == Head(queue).id
    <2>3. CASE AddEndpoint(i, Head(queue).addr)
      BY <2>2, <2>3 DEF AddEndpoint, PoolMapsAgree, TypeOK, poolVars
    <2>4. CASE RemoveEndpoint(i)
      BY <2>2, <2>4 DEF RemoveEndpoint, PoolMapsAgree, TypeOK
    <2> QED
      BY <1>2, <2>3, <2>4 DEF Read
  <1>3. ASSUME NEW p \in Procs,
               \/ Start(p) \/ Register(p) \/ KeepAlive(p) \/ Stop(p)
               \/ Deregister(p) \/ Shutdown(p) \/ Crash(p)
        PROVE  UNCHANGED poolVars
    BY <1>3 DEF Start, Register, ExecRegister, KeepAlive, Stop, Deregister, ExecDeregister,
                RemoveInstances, Shutdown, Crash, poolVars
  <1>4. ASSUME Gc \/ RegistryCrash \/ RegistryBoot \/ Tick \/ Bootstrap \/ Watch \/ Disconnect
        PROVE  UNCHANGED poolVars
    BY <1>4 DEF Gc, RemoveInstances, RegistryCrash, RegistryBoot, Tick, Bootstrap, Watch,
                Disconnect, poolVars
  <1>5. CASE UNCHANGED vars
    BY <1>1, <1>5 DEF vars
  <1> QED
    BY <1>1, <1>2, <1>3, <1>4, <1>5 DEF Next

\* One more lost keep-alive accounts for one more period.
LEMMA OneMorePeriod ==
  ASSUME NEW n \in Nat
  PROVE  /\ (n + 2) * Period = (n + 1) * Period + Period
         /\ (0 + 1) * Period = Period
         /\ (n + 1) * Period \in Nat
  BY DiscoveryAssumption DEF DiscoveryAssumption

\* A lease that the registry knows keeps its process registered when nothing but
\* its age, its time to the next keep-alive and its losses change, within limits.
LEMMA FrameHolds ==
  ASSUME NEW p \in Procs, Holds(p), IdOf(p) \in Ids,
         name'[p] = name[p], lease'[p] = lease[p], leaseSeq \in Nat, leaseSeq' \in Nat,
         leaseSeq' >= leaseSeq, lost'[p] = lost[p],
         \A i \in Ids : <<lease[p], i>> \in leaseTo' => <<lease[p], i>> \in leaseTo,
         \A i \in Ids : i = IdOf(p) \/ <<lease[p], i>> \in leaseTo' =>
                          endpoints'[i] = endpoints[i],
         Tolerates(lost[p]) => leaseOf'[IdOf(p)] = leaseOf[IdOf(p)] /\ OnTime(p)'
  PROVE  Holds(p)'
  <1>1. IdOf(p)' = IdOf(p) /\ AddrOf(p)' = AddrOf(p)
    BY DEF IdOf, AddrOf
  <1>2. Tolerates(lost[p])' <=> Tolerates(lost[p])
    BY DEF Tolerates
  <1>3. lease'[p] \in 1..leaseSeq'
    BY DEF Holds
  <1>4. ASSUME NEW i \in Ids, <<lease'[p], i>> \in leaseTo'
        PROVE  i = IdOf(p)' /\ endpoints'[i] = AddrOf(p)'
    BY <1>1, <1>4 DEF Holds
  <1>5. ASSUME Tolerates(lost[p])'
        PROVE  /\ endpoints'[IdOf(p)'] = AddrOf(p)' /\ leaseOf'[IdOf(p)'] = lease'[p]
               /\ OnTime(p)'
    BY <1>1, <1>2, <1>5 DEF Holds
  <1> QED
    BY <1>3, <1>4, <1>5 DEF Holds

\* A step that leaves p, and whatever the registry knows by p's lease and p's id,
\* alone does not take p's registration away.
LEMMA NextKept == Inv /\ [Next]_vars => Kept'
  <1> SUFFICES ASSUME Inv, [Next]_vars, NEW p \in Procs, (pc[p] = "serving")', (p \notin orphans)'
               PROVE  Holds(p)'
    BY DEF Kept
  <1> TypeOK /\ Named /\ LeasesAgree /\ Kept
    BY DEF Inv
  <1> USE DiscoveryAssumption DEF DiscoveryAssumption
  <1> USE DEF logicVars, regVars
  <1>1. ASSUME Holds(p), pc[p] = "serving",
               UNCHANGED <<regVars, name>>, lease'[p] = lease[p], timer'[p] = timer[p],
               lost'[p] = lost[p]
        PROVE  Holds(p)'
    <2>1. OnTime(p)' <=> OnTime(p)
      BY <1>1 DEF OnTime, IdOf
    <2>2. IdOf(p) \in Ids
      BY <1>1 DEF Named, IdOf
    <2>3. leaseSeq \in Nat /\ (Tolerates(lost[p]) => OnTime(p))
      BY <1>1 DEF TypeOK, Holds
    <2> QED
      BY <1>1, <2>1, <2>2, <2>3, FrameHolds
  <1>2. ASSUME pc[p] = "serving", p \notin orphans PROVE Holds(p) /\ IdOf(p) \in Ids
    BY <1>2 DEF Kept, Named, IdOf
  <1>3. ASSUME NEW q \in Procs, Start(q) PROVE Holds(p)'
    <2>1. pc[p] = "serving" /\ p # q /\ p \notin orphans
      BY <1>3 DEF Start, TypeOK
    <2>2. name'[p] = name[p] /\ UNCHANGED <<regVars, lease, timer, lost>>
      BY <1>3, <2>1 DEF Start, TypeOK
    <2>3. OnTime(p)' <=> OnTime(p)
      BY <2>2 DEF OnTime, IdOf
    <2>4. leaseSeq \in Nat /\ (Tolerates(lost[p]) => OnTime(p))
      BY <1>2, <2>1 DEF TypeOK, Holds
    <2> QED
      BY <1>2, <2>1, <2>2, <2>3, <2>4, FrameHolds
  <1>4. ASSUME NEW q \in Procs, Register(q) PROVE Holds(p)'
    <2>0. /\ IdOf(q) \in Ids /\ AddrOf(q) \in Addrs
          /\ leaseTo' \subseteq leaseTo \cup {<<leaseSeq + 1, IdOf(q)>>}
          /\ endpoints'[IdOf(q)] = AddrOf(q) /\ leaseOf'[IdOf(q)] = leaseSeq + 1
          /\ age'[IdOf(q)] = 0 /\ leaseSeq' = leaseSeq + 1
          /\ \A i \in Ids \ {IdOf(q)} : endpoints'[i] = endpoints[i]
                                      /\ leaseOf'[i] = leaseOf[i] /\ age'[i] = age[i]
      BY <1>4, RegisterAgrees
    <2>1. UNCHANGED <<name, lost>> /\ leaseSeq \in Nat
      BY <1>4 DEF Register, TypeOK
    <2>2. CASE p = q
      <3>1. /\ lease'[p] = leaseSeq + 1
            /\ \E t \in 1..Period : timer' = [timer EXCEPT ![p] = t]
        BY <1>4, <2>0, <2>2 DEF Register, TypeOK
      <3>2. lost'[p] = 0 /\ timer'[p] \in 1..Period
        BY <1>4, <2>1, <2>2, <3>1 DEF Register, Named, TypeOK
      <3>3. \A l \in leaseTo : l[1] # leaseSeq + 1
        BY <2>1 DEF LeasesAgree, TypeOK
      <3>4. IdOf(p)' = IdOf(q) /\ AddrOf(p)' = AddrOf(q)
        BY <2>1, <2>2 DEF IdOf, AddrOf
      <3>5. OnTime(p)'
        BY <2>0, <3>2, <3>4, OneMorePeriod DEF OnTime
      <3>6. \A i \in Ids : <<lease'[p], i>> \in leaseTo' => i = IdOf(q)
        BY <2>0, <3>1, <3>3
      <3> QED
        BY <2>0, <2>1, <3>1, <3>4, <3>5, <3>6 DEF Holds
    <2>3. CASE p # q
      <3>1. pc[p] = "serving" /\ p \notin orphans /\ lease'[p] = lease[p] /\ timer'[p] = timer[p]
        BY <1>4, <2>3 DEF Register, ExecRegister, TypeOK
      <3>2. IdOf(p) # IdOf(q)
        BY <1>4, <2>3, <3>1 DEF Register, ExecRegister, Rivals
      <3>3. Holds(p) /\ IdOf(p) \in Ids
        BY <1>2, <3>1
      <3>4. lease[p] # leaseSeq + 1
        BY <2>1, <3>3 DEF Holds
      <3>5. \A i \in Ids : <<lease[p], i>> \in leaseTo' => <<lease[p], i>> \in leaseTo /\ i = IdOf(p)
        BY <2>0, <3>3, <3>4 DEF Holds
      <3>6. /\ endpoints'[IdOf(p)] = endpoints[IdOf(p)]
            /\ leaseOf'[IdOf(p)] = leaseOf[IdOf(p)] /\ age'[IdOf(p)] = age[IdOf(p)]
        BY <2>0, <3>2, <3>3
      <3>7. OnTime(p)' <=> OnTime(p)
        BY <2>1, <3>1, <3>6 DEF OnTime, IdOf
      <3> QED
        BY <2>0, <2>1, <3>1, <3>3, <3>5, <3>6, <3>7, FrameHolds DEF Holds
    <2> QED
      BY <2>2, <2>3
  <1>5. ASSUME NEW q \in Procs, KeepAlive(q) PROVE Holds(p)'
    <2>0. /\ pc[p] = "serving" /\ p \notin orphans
          /\ UNCHANGED <<name, lease, endpoints, leaseTo, leaseOf, leaseSeq>>
      BY <1>5 DEF KeepAlive
    <2>1. Holds(p) /\ IdOf(p) \in Ids
      BY <1>2, <2>0
    <2>2. PICK t \in 1..Period : timer' = [timer EXCEPT ![q] = t]
      BY <1>5 DEF KeepAlive
    <2>3. IdOf(p)' = IdOf(p) /\ AddrOf(p)' = AddrOf(p)
      BY <2>0 DEF IdOf, AddrOf
    <2>4. ASSUME Tolerates(lost'[p])
          PROVE  endpoints[IdOf(p)] = AddrOf(p) /\ leaseOf[IdOf(p)] = lease[p] /\ OnTime(p)'
      <3>1. CASE p # q
        <4>1. lost'[p] = lost[p] /\ timer'[p] = timer[p]
          BY <1>5, <2>2, <3>1, ZenonT(60) DEF KeepAlive, Refresh, TypeOK
        <4>2. age'[IdOf(p)] \in {0, age[IdOf(p)]}
          BY <1>5, <2>1, ZenonT(60) DEF KeepAlive, Refresh, TypeOK
        <4>3. endpoints[IdOf(p)] = AddrOf(p) /\ leaseOf[IdOf(p)] = lease[p] /\ OnTime(p)
          BY <2>1, <2>4, <4>1 DEF Holds
        <4>4. age[IdOf(p)] \in Nat /\ timer[p] \in Nat /\ lost[p] \in Nat
          BY <2>1 DEF TypeOK
        <4>6. (lost[p] + 1) * Period \in Nat
          BY <4>4, OneMorePeriod
        <4>5. age'[IdOf(p)] + timer[p] <= (lost[p] + 1) * Period
          BY <4>2, <4>3, <4>4, <4>6 DEF OnTime
        <4> QED
          BY <2>3, <4>1, <4>3, <4>5 DEF OnTime
      <3>2. CASE p = q /\ up /\ Refresh(p)
        <4>0. timer'[p] = t
          BY <2>2, <3>2 DEF TypeOK
        <4>1. CASE \E i \in Ids : <<lease[p], i>> \in leaseTo
          <5>1. <<lease[p], IdOf(p)>> \in leaseTo /\ endpoints[IdOf(p)] = AddrOf(p)
            BY <2>1, <4>1 DEF Holds
          <5>2. leaseOf[IdOf(p)] = lease[p]
            BY <5>1 DEF LeasesAgree
          <5>3. age'[IdOf(p)] = 0 /\ lost'[p] = 0
            BY <2>1, <3>2, <4>1, <5>1 DEF Refresh, TypeOK
          <5>4. OnTime(p)'
            BY <2>3, <4>0, <5>3, OneMorePeriod DEF OnTime
          <5> QED
            BY <5>1, <5>2, <5>4
        <4>2. CASE ~ \E i \in Ids : <<lease[p], i>> \in leaseTo
          <5>1. lost'[p] = lost[p]
            BY <3>2, <4>2 DEF Refresh
          <5>2. leaseOf[IdOf(p)] = lease[p] /\ lease[p] # 0
            BY <2>1, <2>4, <5>1 DEF Holds
          <5>3. <<lease[p], IdOf(p)>> \in leaseTo
            BY <2>1, <5>2 DEF LeasesAgree
          <5> QED
            BY <2>1, <4>2, <5>3
        <4> QED
          BY <4>1, <4>2
      <3>3. CASE /\ p = q /\ UNCHANGED age
                 /\ lost' = [lost EXCEPT ![p] = IF Tolerates(@) THEN @ + 1 ELSE @]
        <4>0. timer'[p] = t /\ timer[p] = 0 /\ lost[p] \in Nat
          BY <1>5, <2>2, <3>3 DEF KeepAlive, TypeOK
        <4>1. Tolerates(lost[p]) /\ lost'[p] = lost[p] + 1
          <5>1. CASE Tolerates(lost[p])
            BY <3>3, <5>1 DEF TypeOK
          <5>2. CASE ~Tolerates(lost[p])
            <6>1. lost'[p] = lost[p]
              BY <3>3, <5>2 DEF TypeOK
            <6> QED
              BY <2>4, <5>2, <6>1
          <5> QED
            BY <5>1, <5>2
        <4>2. endpoints[IdOf(p)] = AddrOf(p) /\ leaseOf[IdOf(p)] = lease[p] /\ OnTime(p)
          BY <2>1, <4>1 DEF Holds
        <4>3. age[IdOf(p)] \in Nat /\ age[IdOf(p)] <= (lost[p] + 1) * Period
          BY <2>1, <4>0, <4>2 DEF OnTime, TypeOK
        <4>4. (lost'[p] + 1) * Period = (lost[p] + 1) * Period + Period
          BY <4>0, <4>1, OneMorePeriod
        <4>5. age[IdOf(p)] + t <= (lost[p] + 1) * Period + Period
          BY <4>0, <4>3, OneMorePeriod
        <4>6. OnTime(p)'
          BY <2>3, <3>3, <4>0, <4>4, <4>5 DEF OnTime
        <4> QED
          BY <4>2, <4>6
      <3> QED
        BY <1>5, <3>1, <3>2, <3>3 DEF KeepAlive
    <2>5. Tolerates(lost[p])' <=> Tolerates(lost'[p])
      BY DEF Tolerates
    <2> QED
      BY <2>0, <2>1, <2>3, <2>4, <2>5 DEF Holds
  <1>6. ASSUME NEW q \in Procs, Stop(q) \/ Crash(q) PROVE Holds(p)'
    <2>1. p # q /\ pc[p] = "serving" /\ p \notin orphans
      BY <1>6 DEF Stop, Crash, Forget, TypeOK
    <2>2. /\ lease'[p] = lease[p] /\ timer'[p] = timer[p] /\ lost'[p] = lost[p]
          /\ UNCHANGED <<regVars, name>>
      BY <1>6, <2>1 DEF Stop, Crash, Forget, TypeOK
    <2> QED
      BY <1>1, <1>2, <2>1, <2>2
  <1>7. ASSUME NEW S \in SUBSET Ids, RemoveInstances(S), pc[p] = "serving", p \notin orphans,
               Tolerates(lost[p]) => IdOf(p) \notin S,
               UNCHANGED <<name, lease, timer, lost>>
        PROVE  Holds(p)'
    <2>0. Holds(p) /\ IdOf(p) \in Ids
      BY <1>2, <1>7
    <2>1. /\ LeasesAgree' /\ leaseTo' \subseteq leaseTo /\ leaseSeq' = leaseSeq
          /\ \A i \in Ids \ S : endpoints'[i] = endpoints[i] /\ leaseOf'[i] = leaseOf[i]
                              /\ age'[i] = age[i]
          /\ \A i \in S : endpoints'[i] = None
      BY <1>7, RemovalAgrees DEF RemoveInstances
    <2>2. IdOf(p)' = IdOf(p) /\ AddrOf(p)' = AddrOf(p)
      BY <1>7 DEF IdOf, AddrOf
    <2>3. lease'[p] \in 1..leaseSeq'
      BY <1>7, <2>0, <2>1 DEF Holds
    <2>4. ASSUME NEW i \in Ids, <<lease'[p], i>> \in leaseTo'
          PROVE  i = IdOf(p)' /\ endpoints'[i] = AddrOf(p)'
      <3>1. <<lease[p], i>> \in leaseTo
        BY <1>7, <2>1, <2>4
      <3>2. endpoints'[i] # None
        BY <2>1, <2>4 DEF LeasesAgree, Known
      <3> QED
        BY <2>0, <2>1, <2>2, <3>1, <3>2 DEF Holds
    <2>5. ASSUME Tolerates(lost[p])'
          PROVE  /\ endpoints'[IdOf(p)'] = AddrOf(p)' /\ leaseOf'[IdOf(p)'] = lease'[p]
                 /\ OnTime(p)'
      <3>1. Tolerates(lost[p])
        BY <1>7, <2>5 DEF Tolerates
      <3>2. /\ endpoints[IdOf(p)] = AddrOf(p) /\ leaseOf[IdOf(p)] = lease[p] /\ OnTime(p)
            /\ IdOf(p) \in Ids \ S
        BY <1>7, <2>0, <3>1 DEF Holds
      <3> QED
        BY <1>7, <2>1, <2>2, <3>2 DEF OnTime
    <2> QED
      BY <2>3, <2>4, <2>5 DEF Holds
  <1>8. ASSUME NEW q \in Procs, Deregister(q) PROVE Holds(p)'
    <2>1. /\ p # q /\ pc[p] = "serving" /\ p \notin orphans
          /\ UNCHANGED <<name, lease, timer, lost>> /\ IdOf(q) \in Ids
      BY <1>8 DEF Deregister, ExecDeregister, TypeOK, Named, IdOf
    <2>2. CASE ExecDeregister(q)
      <3>1. IdOf(p) # IdOf(q)
        BY <2>1, <2>2 DEF ExecDeregister, Rivals
      <3> QED
        BY <1>7, <2>1, <2>2, <3>1 DEF ExecDeregister
    <2>3. CASE UNCHANGED <<orphans, regVars, poolVars, streamVars>>
      BY <1>1, <1>2, <2>1, <2>3
    <2> QED
      BY <1>8, <2>2, <2>3 DEF Deregister
  <1>9. CASE Gc
    <2>1. /\ pc[p] = "serving" /\ p \notin orphans /\ UNCHANGED <<name, lease, timer, lost>>
          /\ RemoveInstances({i \in Ids : Expired(i)})
      BY <1>9 DEF Gc
    <2>2. ASSUME Tolerates(lost[p]) PROVE ~Expired(IdOf(p))
      <3>1. OnTime(p) /\ IdOf(p) \in Ids
        BY <1>2, <2>1, <2>2 DEF Holds
      <3>2. age[IdOf(p)] \in Nat /\ timer[p] \in Nat /\ (lost[p] + 1) * Period \in Nat
        <4>1. age[IdOf(p)] \in Nat /\ timer[p] \in Nat /\ lost[p] \in Nat
          BY <3>1 DEF TypeOK
        <4> QED
          BY <4>1, OneMorePeriod
      <3> QED
        BY <2>2, <3>1, <3>2 DEF OnTime, Tolerates, Expired
    <2> QED
      BY <1>7, <2>1, <2>2
  <1>10. CASE RegistryCrash
    BY <1>10 DEF RegistryCrash
  <1>11. CASE Tick
    <2>1. /\ pc[p] = "serving" /\ p \notin orphans
          /\ UNCHANGED <<name, lease, lost, endpoints, leaseTo, leaseOf, leaseSeq>>
      BY <1>11 DEF Tick
    <2>2. Holds(p) /\ IdOf(p) \in Ids
      BY <1>2, <2>1
    <2>3. timer[p] \in Nat \ {0} /\ timer'[p] = timer[p] - 1
      BY <1>11, <2>1 DEF Tick, TypeOK
    <2>4. age[IdOf(p)] \in Nat /\ age'[IdOf(p)] \in {age[IdOf(p)], age[IdOf(p)] + 1}
      BY <1>11, <2>2 DEF Tick, TypeOK
    <2>5. ASSUME OnTime(p) PROVE OnTime(p)'
      <3>1. (lost[p] + 1) * Period \in Nat
        BY OneMorePeriod DEF TypeOK
      <3>2. IdOf(p)' = IdOf(p)
        BY <2>1 DEF IdOf
      <3> QED
        BY <2>1, <2>3, <2>4, <2>5, <3>1, <3>2 DEF OnTime
    <2>6. Tolerates(lost[p]) => leaseOf'[IdOf(p)] = leaseOf[IdOf(p)] /\ OnTime(p)'
      BY <2>1, <2>2, <2>5 DEF Holds
    <2> QED
      BY <2>1, <2>2, <2>6, FrameHolds DEF TypeOK
  <1>12. ASSUME UNCHANGED <<logicVars, orphans, endpoints, age, leaseTo, leaseOf, leaseSeq>>
         PROVE  Holds(p)'
    <2>1. Holds(p) /\ IdOf(p) \in Ids
      BY <1>2, <1>12
    <2>2. OnTime(p)' <=> OnTime(p)
      BY <1>12 DEF OnTime, IdOf
    <2>3. leaseSeq \in Nat /\ (Tolerates(lost[p]) => OnTime(p))
      BY <2>1 DEF TypeOK, Holds
    <2> QED
      BY <1>12, <2>1, <2>2, <2>3, FrameHolds
  <1>13. ASSUME NEW q \in Procs, Shutdown(q) PROVE Holds(p)'
    BY <1>1, <1>2, <1>13 DEF Shutdown
  <1>14. CASE RegistryBoot \/ Bootstrap \/ Watch \/ Read \/ Disconnect
    BY <1>12, <1>14 DEF RegistryBoot, Bootstrap, Watch, Read, Disconnect
  <1>15. CASE UNCHANGED vars
    BY <1>12, <1>15 DEF vars
  <1> QED
    BY <1>3, <1>4, <1>5, <1>6, <1>8, <1>9, <1>10, <1>11, <1>13, <1>14, <1>15 DEF Next

\* The invariant holds in every reachable state.
LEMMA Invariance == Spec => []Inv
  <1>1. Inv /\ [Next]_vars => Inv'
    BY NextTypeOK, NextNamed, NextLeases, NextPool, NextKept DEF Inv
  <1> QED
    BY InitInv, <1>1, PTL DEF Spec

\* endpoints_, leaseToInstance_ and instanceToLease_ of RegistryServiceImpl agree,
\* whatever registrations, repetitions, removals and expiries they went through,
\* and every variable keeps its type.
THEOREM RegistryConsistent == Spec => [](TypeOK /\ LeasesAgree)
  <1>1. Inv => TypeOK /\ LeasesAgree
    BY DEF Inv
  <1> QED
    BY Invariance, <1>1, PTL

\* clients_ and instanceToAddr_ of LogicClientPool agree for every sequence of
\* events, lost and repeated ones included.
THEOREM PoolConsistent == Spec => []PoolMapsAgree
  <1>1. Inv => PoolMapsAgree
    BY DEF Inv
  <1> QED
    BY Invariance, <1>1, PTL

\* A process that loses no more keep-alives in a row than kTtlSec leaves room for
\* stays registered under its lease: gcLoop does not remove the living.
THEOREM LivingAreKept == Spec => []KeptWhileAlive
  <1>1. Inv => KeptWhileAlive
    BY DEF Inv, Kept, Holds, KeptWhileAlive
  <1> QED
    BY Invariance, <1>1, PTL

-------------------------------------------------------------------------------
(* What the pool has after the events that are still on their way.         *)

\* The registry's map after one event.
Applied(e, ev) == [e EXCEPT ![ev.id] = IF ev.type = "ADDED" THEN ev.addr ELSE None]

\* Outside U, m gives an address to one id only.
Unshared(m, U) == \A i, j \in Ids : m[i] \notin U /\ m[i] # None /\ m[i] = m[j] => i = j

\* Outside U, an id that has an address in m keeps it in n or is not in n at all.
Stays(m, n, U) == \A i \in Ids : m[i] \notin U /\ m[i] # None => n[i] \in {m[i], None}

\* h are maps of the registry as the events of q change one into the next; no two
\* ids share an address in one of them, and none goes from one address to another,
\* except for the addresses in U.
Maps == [Ids -> Addrs \cup {None}]
Tells(h, q, U) ==
  /\ h \in [0..Len(q) -> Maps]
  /\ \A k \in 1..Len(q) : h[k] = Applied(h[k - 1], q[k]) /\ Stays(h[k - 1], h[k], U)
  /\ \A k \in 0..Len(q) : Unshared(h[k], U)

\* The pool has what the map m says, but for the addresses in unsure.
Agrees(m) ==
  \A a \in Addrs \ unsure : /\ \A i \in Ids : instAddr[i] = a <=> m[i] = a
                            /\ a \in clients <=> \E i \in Ids : m[i] = a

\* While the stream is open, the queue leads from what the pool has to what is
\* registered.
Leads ==
  feed = "on" => \E h \in [0..Len(queue) -> Maps] :
    Tells(h, queue, unsure) /\ Agrees(h[0]) /\ h[Len(queue)] = endpoints

\* Maps that agree on all ids are the same.
LEMMA SameMap ==
  ASSUME NEW m \in Maps, NEW n \in Maps, \A i \in Ids : m[i] = n[i]
  PROVE  m = n
  BY DEF Maps

\* Events that continue where others ended make one story with them.
LEMMA TellOn ==
  ASSUME NEW q \in Seq(Events), NEW r \in Seq(Events), NEW U, NEW V, U \subseteq V,
         NEW h, Tells(h, q, U), NEW g, Tells(g, r, V), g[0] = h[Len(q)]
  PROVE  \E f \in [0..Len(q \o r) -> Maps] :
           Tells(f, q \o r, V) /\ f[0] = h[0] /\ f[Len(q \o r)] = g[Len(r)]
  <1> DEFINE n == Len(q)
             f == [k \in 0..Len(q \o r) |-> IF k <= n THEN h[k] ELSE g[k - n]]
  <1>0. n \in Nat /\ Len(r) \in Nat /\ Len(q \o r) = n + Len(r)
    OBVIOUS
  <1>h. /\ h \in [0..n -> Maps] /\ g \in [0..Len(r) -> Maps]
    BY DEF Tells
  <1>1. \A k \in 0..n : f[k] = h[k]
    BY <1>0
  <1>2. \A k \in 0..Len(r) : f[n + k] = g[k]
    <2> SUFFICES ASSUME NEW k \in 0..Len(r) PROVE f[n + k] = g[k]
      OBVIOUS
    <2>1. CASE k = 0
      BY <1>0, <2>1
    <2>2. CASE k # 0
      <3>1. n + k \in 0..Len(q \o r) /\ ~(n + k <= n) /\ (n + k) - n = k
        BY <1>0, <2>2
      <3> QED
        BY <3>1
    <2> QED
      BY <2>1, <2>2
  <1>3. f \in [0..Len(q \o r) -> Maps]
    <2>1. ASSUME NEW k \in 0..Len(q \o r) PROVE (IF k <= n THEN h[k] ELSE g[k - n]) \in Maps
      <3>1. CASE k <= n
        <4>1. k \in 0..n
          BY <1>0, <3>1
        <4>2. h[k] \in Maps
          BY <1>h, <4>1
        <4> QED
          BY <3>1, <4>2
      <3>2. CASE ~(k <= n)
        <4>1. k - n \in 0..Len(r)
          BY <1>0, <3>2
        <4> QED
          BY <1>h, <3>2, <4>1
      <3> QED
        BY <3>1, <3>2
    <2> QED
      BY <2>1
  <1>4. ASSUME NEW k \in 1..Len(q \o r)
        PROVE  f[k] = Applied(f[k - 1], (q \o r)[k]) /\ Stays(f[k - 1], f[k], V)
    <2>1. CASE k <= n
      <3>1. k \in 1..n /\ f[k] = h[k] /\ f[k - 1] = h[k - 1] /\ (q \o r)[k] = q[k]
        BY <1>0, <1>1, <2>1
      <3>2. h[k] = Applied(h[k - 1], q[k]) /\ Stays(h[k - 1], h[k], U)
        BY <3>1 DEF Tells
      <3> QED
        BY <3>1, <3>2 DEF Stays
    <2>2. CASE ~(k <= n)
      <3> DEFINE l == k - n
      <3>1. l \in 1..Len(r) /\ l - 1 \in 0..Len(r) /\ k = n + l /\ k - 1 = n + (l - 1)
        BY <1>0, <2>2
      <3>2. (q \o r)[k] = r[l]
        BY <1>0, <2>2
      <3>3. f[k] = g[l] /\ f[k - 1] = g[l - 1]
        BY <1>2, <3>1
      <3>4. g[l] = Applied(g[l - 1], r[l]) /\ Stays(g[l - 1], g[l], V)
        BY <3>1 DEF Tells
      <3> QED
        BY <3>2, <3>3, <3>4
    <2> QED
      BY <2>1, <2>2
  <1>5. ASSUME NEW k \in 0..Len(q \o r) PROVE Unshared(f[k], V)
    <2>1. CASE k <= n
      <3>1. k \in 0..n /\ f[k] = h[k]
        BY <1>0, <1>1, <2>1
      <3> QED
        BY <3>1 DEF Tells, Unshared
    <2>2. CASE ~(k <= n)
      <3>1. k - n \in 0..Len(r) /\ k = n + (k - n)
        BY <1>0, <2>2
      <3> QED
        BY <1>2, <3>1 DEF Tells
    <2> QED
      BY <2>1, <2>2
  <1>6. f[0] = h[0] /\ f[Len(q \o r)] = g[Len(r)]
    BY <1>0, <1>1, <1>2
  <1>7. Tells(f, q \o r, V)
    BY <1>3, <1>4, <1>5 DEF Tells
  <1> QED
    BY <1>3, <1>6, <1>7

\* What is left of the events after the first one tells the rest of the story.
LEMMA TellRest ==
  ASSUME NEW q \in Seq(Events), q # <<>>, NEW U, NEW h, Tells(h, q, U)
  PROVE  \E f \in [0..Len(Tail(q)) -> Maps] :
           Tells(f, Tail(q), U) /\ f[0] = h[1] /\ f[Len(Tail(q))] = h[Len(q)]
  <1> DEFINE m == Len(Tail(q))
             f == [k \in 0..m |-> h[k + 1]]
  <1>0. m \in Nat /\ Len(q) = m + 1 /\ \A k \in 1..m : Tail(q)[k] = q[k + 1]
    OBVIOUS
  <1>1. f \in [0..m -> Maps]
    BY <1>0 DEF Tells
  <1>2. ASSUME NEW k \in 1..m
        PROVE  f[k] = Applied(f[k - 1], Tail(q)[k]) /\ Stays(f[k - 1], f[k], U)
    <2>1. k + 1 \in 1..Len(q) /\ (k + 1) - 1 = k /\ f[k] = h[k + 1] /\ f[k - 1] = h[k]
      BY <1>0
    <2>2. h[k + 1] = Applied(h[k], q[k + 1]) /\ Stays(h[k], h[k + 1], U)
      BY <2>1 DEF Tells
    <2> QED
      BY <1>0, <2>1, <2>2
  <1>3. ASSUME NEW k \in 0..m PROVE Unshared(f[k], U)
    <2>1. k + 1 \in 0..Len(q) /\ f[k] = h[k + 1]
      BY <1>0
    <2> QED
      BY <2>1 DEF Tells
  <1>4. f[0] = h[1] /\ f[m] = h[Len(q)]
    BY <1>0
  <1>5. Tells(f, Tail(q), U)
    BY <1>1, <1>2, <1>3 DEF Tells
  <1> QED
    BY <1>1, <1>4, <1>5

\* The maps of one event: before it and after it.
LEMMA TellOne ==
  ASSUME NEW m \in Maps, NEW n \in Maps, NEW ev \in Events, NEW U,
         n = Applied(m, ev), Stays(m, n, U), Unshared(m, U), Unshared(n, U)
  PROVE  \E g : Tells(g, <<ev>>, U) /\ g[0] = m /\ g[Len(<<ev>>)] = n
  <1> DEFINE g == [k \in 0..1 |-> IF k = 0 THEN m ELSE n]
  <1>1. Len(<<ev>>) = 1 /\ <<ev>>[1] = ev
    OBVIOUS
  <1>2. g \in [0..1 -> Maps] /\ g[0] = m /\ g[1] = n
    OBVIOUS
  <1>3. \A k \in 1..1 : g[k] = Applied(g[k - 1], <<ev>>[k]) /\ Stays(g[k - 1], g[k], U)
    BY <1>1, <1>2
  <1>4. \A k \in 0..1 : Unshared(g[k], U)
    BY <1>2
  <1>5. Tells(g, <<ev>>, U)
    BY <1>1, <1>2, <1>3, <1>4 DEF Tells
  <1> QED
    BY <1>1, <1>2, <1>5

\* Between m and n, when the first k ids of the order o have moved.
Part(m, n, o, k) == [i \in Ids |-> IF \E l \in 1..k : o[l] = i THEN n[i] ELSE m[i]]

\* Events for the ids S, one after the other in any order, tell how the map m becomes
\* n, if m and n differ in S only and the events carry what is in n, or remove.
LEMMA TellMany ==
  ASSUME NEW m \in Maps, NEW n \in Maps, NEW S \in SUBSET Ids, NEW o \in Orders(S),
         NEW q \in Seq(Events), NEW U,
         DOMAIN q = DOMAIN o,
         \A k \in DOMAIN o : q[k].id = o[k] /\ n[o[k]] = IF q[k].type = "ADDED" THEN q[k].addr ELSE None,
         \A i \in Ids \ S : n[i] = m[i],
         \A i \in Ids : m[i] \notin U /\ m[i] # None => n[i] \in {m[i], None},
         \E b \in Maps : Unshared(b, U) /\ \A i \in Ids : m[i] \in {b[i], None} /\ n[i] \in {b[i], None}
  PROVE  \E g : Tells(g, q, U) /\ g[0] = m /\ g[Len(q)] = n
  <1> DEFINE N == Len(q)
             g == [k \in 0..N |-> Part(m, n, o, k)]
  <1>0. N \in Nat /\ DOMAIN o = 1..N /\ o \in [1..N -> S]
    <2>1. o \in [1..Cardinality(S) -> S] /\ DOMAIN q = 1..N /\ N \in Nat
      BY DEF Orders
    <2> QED
      BY <2>1
  <1>1. \A k \in 0..N : Part(m, n, o, k) \in Maps
    BY DEF Part, Maps
  <1>2. g \in [0..N -> Maps]
    BY <1>1
  <1>3. ASSUME NEW k \in 0..N PROVE Unshared(g[k], U)
    <2>0. PICK b \in Maps : /\ Unshared(b, U)
                            /\ \A i \in Ids : m[i] \in {b[i], None} /\ n[i] \in {b[i], None}
      OBVIOUS
    <2>1. \A i \in Ids : g[k][i] \in {b[i], None}
      BY <2>0 DEF Part
    <2> QED
      BY <2>0, <2>1 DEF Unshared
  <1>4. ASSUME NEW k \in 1..N
        PROVE  g[k] = Applied(g[k - 1], q[k]) /\ Stays(g[k - 1], g[k], U)
    <2>1. k - 1 \in 0..N /\ k \in 0..N /\ k \in DOMAIN o /\ o[k] \in Ids
      BY <1>0
    <2>2. \A i \in Ids : g[k][i] = IF i = o[k] THEN n[o[k]] ELSE g[k - 1][i]
      <3> SUFFICES ASSUME NEW i \in Ids
                   PROVE  g[k][i] = IF i = o[k] THEN n[o[k]] ELSE g[k - 1][i]
        OBVIOUS
      <3>1. (\E l \in 1..k : o[l] = i) <=> i = o[k] \/ \E l \in 1..(k - 1) : o[l] = i
        BY <1>0
      <3> QED
        BY <2>1, <3>1 DEF Part
    <2>3. g[k] \in Maps /\ g[k - 1] \in Maps
      BY <1>1, <2>1
    <2>4. g[k] = Applied(g[k - 1], q[k])
      <3>1. q[k].id = o[k] /\ n[o[k]] = IF q[k].type = "ADDED" THEN q[k].addr ELSE None
        BY <2>1
      <3>2. Applied(g[k - 1], q[k]) \in Maps
        <4>1. n[o[k]] \in Addrs \cup {None}
          BY <2>1 DEF Maps
        <4>2. Applied(g[k - 1], q[k]) = [g[k - 1] EXCEPT ![o[k]] = n[o[k]]]
          BY <3>1 DEF Applied
        <4>3. \A f \in Maps : [f EXCEPT ![o[k]] = n[o[k]]] \in Maps
          BY <2>1, <4>1 DEF Maps
        <4> QED
          BY <2>3, <4>2, <4>3
      <3>3. \A i \in Ids : Applied(g[k - 1], q[k])[i] = g[k][i]
        BY <2>1, <2>2, <2>3, <3>1 DEF Applied, Maps
      <3> HIDE DEF g
      <3> QED
        BY <2>3, <3>2, <3>3, SameMap
    <2>5. Stays(g[k - 1], g[k], U)
      <3> SUFFICES ASSUME NEW i \in Ids, g[k - 1][i] \notin U, g[k - 1][i] # None
                   PROVE  g[k][i] \in {g[k - 1][i], None}
        BY DEF Stays
      <3>1. CASE i # o[k]
        BY <2>2, <3>1
      <3>2. CASE i = o[k]
        <4>1. g[k - 1][i] \in {m[i], n[i]} /\ g[k][i] = n[i]
          BY <2>1, <2>2, <3>2 DEF Part
        <4> QED
          BY <4>1
      <3> QED
        BY <3>1, <3>2
    <2> QED
      BY <2>4, <2>5
  <1>5. g[0] = m
    <2>1. g[0] = Part(m, n, o, 0) /\ Part(m, n, o, 0) \in Maps
      BY <1>0, <1>1
    <2>2. \A i \in Ids : Part(m, n, o, 0)[i] = m[i]
      BY DEF Part
    <2> QED
      BY <2>1, <2>2 DEF Maps
  <1>6. g[N] = n
    <2>1. g[N] = Part(m, n, o, N) /\ Part(m, n, o, N) \in Maps
      BY <1>0, <1>1
    <2>2. \A i \in S : \E l \in 1..N : o[l] = i
      BY <1>0 DEF Orders
    <2>3. \A i \in Ids : Part(m, n, o, N)[i] = n[i]
      BY <2>2 DEF Part
    <2> QED
      BY <2>1, <2>3 DEF Maps
  <1>7. Tells(g, q, U)
    BY <1>2, <1>3, <1>4 DEF Tells
  <1> QED
    BY <1>5, <1>6, <1>7

\* The pool follows one event when no address outside unsure is shared or left.
LEMMA ReadAgrees ==
  ASSUME TypeOK, PoolMapsAgree, Read, NEW m \in Maps, NEW n \in Maps, Agrees(m),
         n = Applied(m, Head(queue)), Stays(m, n, unsure), Unshared(m, unsure),
         Unshared(n, unsure)
  PROVE  Agrees(n)'
  <1> DEFINE e == Head(queue)
  <1>0. e \in Events /\ e.id \in Ids /\ e.addr \in Addrs /\ e.type \in {"ADDED", "REMOVED"}
    <2>1. e \in Events
      BY DEF Read, TypeOK
    <2> QED
      BY <2>1 DEF Events
  <1>1. unsure' = unsure /\ None \notin Addrs
    BY DiscoveryAssumption DEF Read, DiscoveryAssumption
  <1> SUFFICES ASSUME NEW a \in Addrs \ unsure
               PROVE  /\ \A i \in Ids : instAddr'[i] = a <=> n[i] = a
                      /\ a \in clients' <=> \E i \in Ids : n[i] = a
    BY <1>1 DEF Agrees
  <1>2. /\ \A i \in Ids : instAddr[i] = a <=> m[i] = a
        /\ a \in clients <=> \E i \in Ids : m[i] = a
    BY DEF Agrees
  <1>3. \A i \in Ids : n[i] = IF i = e.id THEN (IF e.type = "ADDED" THEN e.addr ELSE None)
                              ELSE m[i]
    BY <1>0 DEF Applied, Maps
  <1>4. CASE e.type = "ADDED"
    <2>0. AddEndpoint(e.id, e.addr)
      BY <1>4 DEF Read
    <2>1. CASE e.addr = a
      <3>1. \A j \in Ids : j # e.id => m[j] # a
        BY <1>0, <1>1, <1>3, <1>4, <2>1 DEF Unshared
      <3>2. CASE a \in clients
        BY <1>0, <1>2, <1>3, <1>4, <2>0, <2>1, <3>1, <3>2 DEF AddEndpoint, poolVars
      <3>3. CASE a \notin clients
        BY <1>0, <1>2, <1>3, <1>4, <2>0, <2>1, <3>1, <3>3 DEF AddEndpoint, TypeOK
      <3> QED
        BY <3>2, <3>3
    <2>2. CASE e.addr # a
      <3>1. m[e.id] # a
        BY <1>0, <1>1, <1>3, <1>4, <2>2 DEF Stays
      <3>2. CASE e.addr \in clients
        BY <1>0, <1>2, <1>3, <1>4, <2>0, <2>2, <3>1, <3>2 DEF AddEndpoint, poolVars
      <3>3. CASE e.addr \notin clients
        <4>1. clients' = clients \cup {e.addr} /\ instAddr' = [instAddr EXCEPT ![e.id] = e.addr]
          BY <2>0, <3>3 DEF AddEndpoint
        <4>2. \A i \in Ids : instAddr'[i] = IF i = e.id THEN e.addr ELSE instAddr[i]
          BY <1>0, <4>1 DEF TypeOK
        <4>3. \A i \in Ids : n[i] = a <=> m[i] = a
          BY <1>3, <1>4, <2>2, <3>1
        <4> QED
          BY <1>2, <2>2, <3>1, <4>1, <4>2, <4>3
      <3> QED
        BY <3>2, <3>3
    <2> QED
      BY <2>1, <2>2
  <1>5. CASE e.type = "REMOVED"
    <2>0. RemoveEndpoint(e.id)
      BY <1>5 DEF Read
    <2>3. /\ clients' = clients \ {instAddr[e.id]}
          /\ \A i \in Ids : instAddr'[i] = IF i = e.id THEN None ELSE instAddr[i]
      BY <1>0, <2>0 DEF RemoveEndpoint, TypeOK
    <2>1. CASE m[e.id] = a
      <3>1. \A j \in Ids : j # e.id => m[j] # a
        BY <1>0, <1>1, <2>1 DEF Unshared
      <3>2. \A i \in Ids : n[i] # a /\ instAddr'[i] # a
        BY <1>1, <1>2, <1>3, <1>5, <2>3, <3>1
      <3>3. a \notin clients'
        BY <1>0, <1>2, <2>1, <2>3
      <3> QED
        BY <3>2, <3>3
    <2>2. CASE m[e.id] # a
      <3>1. \A i \in Ids : n[i] = a <=> m[i] = a
        BY <1>1, <1>3, <1>5, <2>2
      <3>2. instAddr[e.id] # a
        BY <1>0, <1>2, <2>2
      <3> QED
        BY <1>1, <1>2, <2>3, <3>1, <3>2
    <2> QED
      BY <2>1, <2>2
  <1> QED
    BY <1>0, <1>4, <1>5

\* A stream that goes on with more events still leads from the pool to the registry.
LEMMA BroadcastLeads ==
  ASSUME TypeOK, TypeOK', Leads, NEW r \in Seq(Events), Broadcast(r),
         UNCHANGED <<feed, clients, instAddr>>, unsure \subseteq unsure',
         feed = "on" => \E g : /\ Tells(g, r, unsure')
                               /\ g[0] = endpoints /\ g[Len(r)] = endpoints'
  PROVE  Leads'
  <1> SUFFICES ASSUME feed = "on"
               PROVE  \E h \in [0..Len(queue') -> Maps] :
                        Tells(h, queue', unsure') /\ Agrees(h[0])' /\ h[Len(queue')] = endpoints'
    BY DEF Leads
  <1>1. PICK h \in [0..Len(queue) -> Maps] :
          Tells(h, queue, unsure) /\ Agrees(h[0]) /\ h[Len(queue)] = endpoints
    BY DEF Leads
  <1>2. PICK g : Tells(g, r, unsure') /\ g[0] = endpoints /\ g[Len(r)] = endpoints'
    OBVIOUS
  <1>3. queue \in Seq(Events) /\ queue' = queue \o r
    BY DEF TypeOK, Broadcast
  <1>4. \E f \in [0..Len(queue \o r) -> Maps] :
          Tells(f, queue \o r, unsure') /\ f[0] = h[0] /\ f[Len(queue \o r)] = g[Len(r)]
    BY <1>1, <1>2, <1>3, TellOn
  <1>5. PICK f \in [0..Len(queue \o r) -> Maps] :
          Tells(f, queue \o r, unsure') /\ f[0] = h[0] /\ f[Len(queue \o r)] = g[Len(r)]
    BY <1>4
  <1>6. \A m : Agrees(m) => Agrees(m)'
    BY DEF Agrees
  <1>7. Agrees(f[0])'
    BY <1>1, <1>5, <1>6
  <1> QED
    BY <1>2, <1>3, <1>5, <1>7

\* While the stream is open, no address outside unsure is shared in endpoints_.
LEMMA EndpointsUnshared ==
  ASSUME TypeOK, Leads, feed = "on"
  PROVE  Unshared(endpoints, unsure)
  <1>1. PICK h \in [0..Len(queue) -> Maps] :
          Tells(h, queue, unsure) /\ Agrees(h[0]) /\ h[Len(queue)] = endpoints
    BY DEF Leads
  <1>2. Len(queue) \in 0..Len(queue)
    BY DEF TypeOK
  <1> QED
    BY <1>1, <1>2 DEF Tells

\* The removal of instances is told by its events, in whichever order.
LEMMA RemovalLeads ==
  ASSUME TypeOK, TypeOK', Leads, NEW S \in SUBSET Ids, RemoveInstances(S)
  PROVE  Leads'
  <1> DEFINE T == {i \in S : Known(i)}
  <1>1. PICK o \in Orders(T) : Broadcast(Removals(o))
    BY DEF RemoveInstances
  <1>2. Removals(o) \in Seq(Events)
    BY EventsInOrder DEF Removals
  <1>3. UNCHANGED <<feed, clients, instAddr, unsure>>
    BY DEF RemoveInstances, poolVars
  <1>4. ASSUME feed = "on"
        PROVE  \E g : /\ Tells(g, Removals(o), unsure')
                      /\ g[0] = endpoints /\ g[Len(Removals(o))] = endpoints'
    <2>1. endpoints \in Maps /\ endpoints' \in Maps /\ T \in SUBSET Ids
      BY DEF TypeOK, Maps
    <2>2. \A i \in Ids : endpoints'[i] = IF i \in S THEN None ELSE endpoints[i]
      BY DEF RemoveInstances
    <2>3. /\ DOMAIN Removals(o) = DOMAIN o
          /\ \A k \in DOMAIN o : Removals(o)[k].id = o[k] /\ Removals(o)[k].type = "REMOVED"
      BY DEF Removals
    <2>4. \A k \in DOMAIN o : o[k] \in S
      BY DEF Orders
    <2>5. \A k \in DOMAIN o : /\ Removals(o)[k].id = o[k]
                              /\ endpoints'[o[k]] = IF Removals(o)[k].type = "ADDED"
                                                    THEN Removals(o)[k].addr ELSE None
      BY <2>2, <2>3, <2>4
    <2>6. \A i \in Ids \ T : endpoints'[i] = endpoints[i]
      BY <2>2 DEF Known
    <2>7. \A i \in Ids : endpoints[i] \notin unsure' /\ endpoints[i] # None =>
                           endpoints'[i] \in {endpoints[i], None}
      BY <2>2
    <2>8. /\ Unshared(endpoints, unsure')
          /\ \A i \in Ids : endpoints[i] \in {endpoints[i], None}
                            /\ endpoints'[i] \in {endpoints[i], None}
      BY <1>3, <1>4, <2>2, EndpointsUnshared
    <2> HIDE DEF T
    <2> QED
      BY <1>2, <2>1, <2>3, <2>5, <2>6, <2>7, <2>8, TellMany
  <1> QED
    BY <1>1, <1>2, <1>3, <1>4, BroadcastLeads

\* A registration is told by its event; the address its id leaves, and one that is
\* now shared, become unsure.
LEMMA RegisterLeads ==
  ASSUME TypeOK, TypeOK', Named, Leads, NEW p \in Procs, Register(p)
  PROVE  Leads'
  <1> DEFINE i == IdOf(p)
             a == AddrOf(p)
             ev == [type |-> "ADDED", id |-> i, addr |-> a]
  <1>0. i \in Ids /\ a \in Addrs /\ ev \in Events
    BY DEF Register, Named, IdOf, AddrOf, Events
  <1>1. <<ev>> \in Seq(Events) /\ Broadcast(<<ev>>)
    BY <1>0 DEF Register, ExecRegister
  <1>2. UNCHANGED <<feed, clients, instAddr>> /\ unsure \subseteq unsure'
    BY DEF Register, ExecRegister, poolVars
  <1>3. ASSUME feed = "on"
        PROVE  \E g : /\ Tells(g, <<ev>>, unsure')
                      /\ g[0] = endpoints /\ g[Len(<<ev>>)] = endpoints'
    <2>1. endpoints \in Maps /\ endpoints' \in Maps
      BY DEF TypeOK, Maps
    <2>2. endpoints' = Applied(endpoints, ev)
      BY DEF Register, ExecRegister, Applied
    <2>3. /\ \A b \in Shared(endpoints') : b \in unsure'
          /\ endpoints[i] \in {a, None} \/ endpoints[i] \in unsure'
      BY <1>3 DEF Register, ExecRegister
    <2>4. Stays(endpoints, endpoints', unsure')
      <3>1. \A j \in Ids : endpoints'[j] = IF j = i THEN a ELSE endpoints[j]
        BY <1>0 DEF Register, ExecRegister, TypeOK
      <3> QED
        BY <1>0, <2>3, <3>1 DEF Stays
    <2>5. Unshared(endpoints, unsure')
      BY <1>2, <1>3, EndpointsUnshared DEF Unshared
    <2>6. Unshared(endpoints', unsure')
      <3> SUFFICES ASSUME NEW j \in Ids, NEW k \in Ids, endpoints'[j] # None,
                          endpoints'[j] = endpoints'[k], j # k
                   PROVE  endpoints'[j] \in unsure'
        BY DEF Unshared
      <3>1. endpoints'[j] \in Addrs
        BY DEF TypeOK
      <3>2. endpoints'[j] \in Shared(endpoints')
        BY <3>1 DEF Shared
      <3> QED
        BY <2>3, <3>2
    <2> HIDE DEF ev
    <2> QED
      BY <1>0, <2>1, <2>2, <2>4, <2>5, <2>6, TellOne
  <1> HIDE DEF ev
  <1> QED
    BY <1>1, <1>2, <1>3, BroadcastLeads

\* The answer to Watch leads the pool to what is registered, but for the addresses
\* that it has wrong now.
LEMMA WatchLeads ==
  ASSUME TypeOK, TypeOK', PoolMapsAgree, Watch
  PROVE  Leads'
  <1> USE DiscoveryAssumption DEF DiscoveryAssumption
  <1> DEFINE S == {i \in Ids : Known(i)}
             base == [i \in Ids |-> IF instAddr[i] = endpoints[i] THEN endpoints[i] ELSE None]
  <1>1. PICK o \in Orders(S) :
          queue' = [k \in DOMAIN o |-> [type |-> "ADDED", id |-> o[k], addr |-> endpoints[o[k]]]]
    BY DEF Watch, WatchSnapshot, Snapshots
  <1>2. /\ UNCHANGED <<clients, instAddr, endpoints>>
        /\ unsure' = Shared(endpoints) \cup
             {a \in clients : \A i \in Ids : ~(instAddr[i] = a /\ endpoints[i] = a)}
    BY DEF Watch, regVars, poolVars
  <1>3. endpoints \in Maps /\ base \in Maps
    BY DEF TypeOK, Maps
  <1>4. Unshared(endpoints, unsure')
    BY <1>2 DEF Unshared, Shared, TypeOK
  <1>5. queue' \in Seq(Events) /\ DOMAIN queue' = DOMAIN o
    BY <1>1 DEF TypeOK
  <1>6. \A k \in DOMAIN o : /\ queue'[k].id = o[k]
                            /\ endpoints[o[k]] = IF queue'[k].type = "ADDED"
                                                 THEN queue'[k].addr ELSE None
    BY <1>1
  <1>7. \A i \in Ids \ S : endpoints[i] = base[i]
    BY DEF Known
  <1>8. \A i \in Ids : base[i] \in {endpoints[i], None}
    OBVIOUS
  <1>9. \E g : Tells(g, queue', unsure') /\ g[0] = base /\ g[Len(queue')] = endpoints
    <2> HIDE DEF S, base
    <2>1. \A i \in Ids : base[i] \notin unsure' /\ base[i] # None =>
                           endpoints[i] \in {base[i], None}
      BY <1>8
    <2>2. S \in SUBSET Ids
      BY DEF S
    <2> QED
      BY <1>3, <1>4, <1>5, <1>6, <1>7, <1>8, <2>1, <2>2, TellMany
  <1>10. Agrees(base)'
    <2> SUFFICES ASSUME NEW a \in Addrs \ unsure'
                 PROVE  /\ \A i \in Ids : instAddr[i] = a <=> base[i] = a
                        /\ a \in clients <=> \E i \in Ids : base[i] = a
      BY <1>2 DEF Agrees
    <2>1. ASSUME a \in clients PROVE \E i \in Ids : instAddr[i] = a /\ endpoints[i] = a
      BY <1>2, <2>1
    <2>2. ASSUME NEW i \in Ids, instAddr[i] = a PROVE endpoints[i] = a
      <3>1. a \in clients /\ \A j \in Ids : instAddr[j] = a => j = i
        BY <2>2 DEF PoolMapsAgree
      <3> QED
        BY <2>1, <3>1
    <2>3. \A i \in Ids : instAddr[i] = a <=> base[i] = a
      BY <2>2
    <2>4. \A i \in Ids : instAddr[i] = a => a \in clients
      BY DEF PoolMapsAgree
    <2> QED
      BY <2>1, <2>3, <2>4
  <1>b. base' = base
    BY <1>2
  <1> HIDE DEF base
  <1>11. PICK g : Tells(g, queue', unsure') /\ g[0] = base /\ g[Len(queue')] = endpoints
    BY <1>9
  <1>12. g \in [0..Len(queue') -> Maps] /\ Agrees(g[0])'
    <2>1. g[0] = base'
      BY <1>11, <1>b
    <2>2. Agrees(g[0])'
      BY <1>10, <2>1 DEF Agrees
    <2> QED
      BY <1>11, <2>2 DEF Tells
  <1> QED
    BY <1>2, <1>11, <1>12 DEF Leads

\* Every step keeps the queue a way from the pool to the registry.
LEMMA NextLeads == Inv /\ Inv' /\ Leads /\ [Next]_vars => Leads'
  <1> SUFFICES ASSUME Inv, Inv', Leads, [Next]_vars PROVE Leads'
    OBVIOUS
  <1> TypeOK /\ TypeOK' /\ Named /\ PoolMapsAgree
    BY DEF Inv
  <1> USE DEF logicVars, regVars, streamVars, poolVars
  <1>1. ASSUME UNCHANGED <<feed, queue, unsure, clients, instAddr, endpoints>> PROVE Leads'
    BY <1>1 DEF Leads, Agrees
  <1>2. ASSUME NEW p \in Procs,
               Start(p) \/ KeepAlive(p) \/ Stop(p) \/ Shutdown(p) \/ Crash(p)
        PROVE  Leads'
    BY <1>1, <1>2 DEF Start, KeepAlive, Stop, Shutdown, Crash
  <1>3. ASSUME NEW p \in Procs, Register(p) PROVE Leads'
    BY <1>3, RegisterLeads
  <1>4. ASSUME NEW p \in Procs, Deregister(p) PROVE Leads'
    <2>1. IdOf(p) \in Ids
      BY <1>4 DEF Deregister, Named, IdOf
    <2>2. CASE ExecDeregister(p)
      BY <2>1, <2>2, RemovalLeads DEF ExecDeregister
    <2>3. CASE UNCHANGED <<orphans, regVars, poolVars, streamVars>>
      BY <1>1, <2>3
    <2> QED
      BY <1>4, <2>2, <2>3 DEF Deregister
  <1>5. CASE Gc
    <2>1. {i \in Ids : Expired(i)} \in SUBSET Ids
      OBVIOUS
    <2> QED
      BY <1>5, <2>1, RemovalLeads DEF Gc
  <1>6. CASE RegistryCrash \/ Disconnect
    <2>1. CASE feed' = "off"
      BY <2>1 DEF Leads
    <2>2. CASE feed' # "off"
      <3>1. feed' # "on"
        BY <1>6, <2>2 DEF RegistryCrash, Disconnect, StreamEnds
      <3> QED
        BY <3>1 DEF Leads
    <2> QED
      BY <2>1, <2>2
  <1>7. CASE RegistryBoot \/ Tick
    BY <1>1, <1>7 DEF RegistryBoot, Tick
  <1>8. CASE Bootstrap
    BY <1>8 DEF Bootstrap, Leads
  <1>9. CASE Watch
    BY <1>9, WatchLeads
  <1>10. CASE Read
    <2> SUFFICES ASSUME feed = "on"
                 PROVE  \E f \in [0..Len(queue') -> Maps] :
                          Tells(f, queue', unsure) /\ Agrees(f[0])' /\ f[Len(queue')] = endpoints
      BY <1>10 DEF Leads, Read
    <2>1. PICK h \in [0..Len(queue) -> Maps] :
            Tells(h, queue, unsure) /\ Agrees(h[0]) /\ h[Len(queue)] = endpoints
      BY DEF Leads
    <2>2. queue \in Seq(Events) /\ queue # <<>> /\ queue' = Tail(queue)
      BY <1>10 DEF Read, TypeOK
    <2>3. PICK f \in [0..Len(Tail(queue)) -> Maps] :
            Tells(f, Tail(queue), unsure) /\ f[0] = h[1] /\ f[Len(Tail(queue))] = h[Len(queue)]
      BY <2>1, <2>2, TellRest
    <2>4. 0 \in 0..Len(queue) /\ 1 \in 1..Len(queue) /\ 1 \in 0..Len(queue) /\ 1 - 1 = 0
          /\ Head(queue) = queue[1]
      BY <2>2
    <2>5. /\ h[0] \in Maps /\ h[1] \in Maps /\ h[1] = Applied(h[0], Head(queue))
          /\ Stays(h[0], h[1], unsure) /\ Unshared(h[0], unsure) /\ Unshared(h[1], unsure)
      <3>1. h[1] = Applied(h[1 - 1], queue[1]) /\ Stays(h[1 - 1], h[1], unsure)
        BY <2>1, <2>4 DEF Tells
      <3> QED
        BY <2>1, <2>4, <3>1 DEF Tells
    <2>6. Agrees(h[1])'
      BY <1>10, <2>1, <2>5, ReadAgrees
    <2> QED
      BY <2>1, <2>2, <2>3, <2>6
  <1>11. CASE UNCHANGED vars
    BY <1>1, <1>11 DEF vars
  <1> QED
    BY <1>2, <1>3, <1>4, <1>5, <1>6, <1>7, <1>8, <1>9, <1>10, <1>11 DEF Next

\* When LogicClientPool has read all that Watch sent, it has a client for exactly
\* the registered addresses, but for those it had wrong when the stream began and
\* those that were shared or left by an instance meanwhile.
THEOREM PoolCatchesUp == Spec => []PoolFollows
  <1> DEFINE IInv == Inv /\ Leads
  <1>1. Init => IInv
    BY InitInv DEF Init, Leads
  <1>2. IInv /\ [Next]_vars => IInv'
    <2> SUFFICES ASSUME IInv, [Next]_vars PROVE IInv'
      OBVIOUS
    <2>1. Inv'
      BY NextTypeOK, NextNamed, NextLeases, NextPool, NextKept DEF Inv
    <2> QED
      BY <2>1, NextLeads
  <1>3. IInv => PoolFollows
    <2> SUFFICES ASSUME IInv, feed = "on", queue = <<>>, NEW a \in Addrs \ unsure
                 PROVE  a \in clients <=> Registered(a)
      BY DEF PoolFollows
    <2>1. PICK h \in [0..Len(queue) -> Maps] :
            Tells(h, queue, unsure) /\ Agrees(h[0]) /\ h[Len(queue)] = endpoints
      BY DEF Leads
    <2>2. h[0] = endpoints
      BY <2>1
    <2> QED
      BY <2>1, <2>2 DEF Agrees, Registered
  <1> QED
    BY <1>1, <1>2, <1>3, PTL DEF Spec

-------------------------------------------------------------------------------
(* LogicCall.                                                              *)

InCall(m) == call # Idle /\ call.m = m
Asked(m) == Tried(m) \cup skipped[m]

\* Where a call is in its two attempts: the first one is at the server of the
\* ring, and the second one at another server, when the first was asked.
Placed ==
  \A m \in Msgs : InCall(m) =>
    /\ answer[m] = "none"
    /\ Home[m] \in Asked(m)
    /\ (call.at = "backup") = (call.l # Home[m])
    /\ call.at # "choose" => call.l \in Tried(m)

\* Nothing happened yet to a message that is not in a call and has no answer.
Untouched ==
  \A m \in Msgs : answer[m] = "none" /\ ~InCall(m) => Tried(m) = {}

\* What the request at l may have added to the rows of m.
Weight(m, l) == IF req[m][l] \in {"none", "sent"} THEN 0 ELSE 1

\* Two servers were asked at most, and each of them has saved m once at most.
Counted ==
  \A m \in Msgs : \E b \in Logics :
    /\ Tried(m) \subseteq {Home[m], b}
    /\ InCall(m) => call.l \in {Home[m], b} /\ (call.at # "backup" => Tried(m) \subseteq {Home[m]})
    /\ rows[m] <= Weight(m, Home[m]) + (IF b = Home[m] THEN 0 ELSE Weight(m, b))

\* What an ack of a server stands for.
AckedIsSaved ==
  \A m \in Msgs :
    /\ \A l \in Logics : req[m][l] = "acked" => rows[m] > 0
    /\ answer[m] = "ack" => rows[m] > 0

\* A message that is not in doubt has the rows that the gateway knows of: no
\* request is left behind at a server that could still save it.
Certain(m) ==
  IF InCall(m)
  THEN /\ \A l \in Logics : l # call.l \/ call.at = "choose" => req[m][l] \in {"none", "lost"}
       /\ rows[m] = IF (call.at # "choose" /\ req[m][call.l] = "acked") \/ m \in muted THEN 1 ELSE 0
       /\ m \in muted => call.at # "choose" /\ req[m][call.l] \in {"silent", "threw"}
  ELSE /\ \A l \in Logics : req[m][l] # "sent"
       /\ rows[m] = IF answer[m] = "ack" \/ m \in muted THEN 1 ELSE 0
       /\ m \in muted => answer[m] \in {"nothing", "refused"}

Sure == \A m \in Msgs : m \notin doubt => Certain(m)

\* An error was reported after every server was asked, or two of them.
Refused ==
  \A m \in Msgs : answer[m] = "error" =>
    Asked(m) = Logics \/ (Tried(m) # {} /\ \E k, l \in Asked(m) : k # l)

CallInv == CallTypeOK /\ Placed /\ Untouched /\ Counted /\ AckedIsSaved /\ Sure /\ Refused

\* The ring names a server that the pool has a client for.
LEMMA HomeType == ASSUME NEW m \in Msgs PROVE Home[m] \in Logics
  BY CallAssumption DEF CallAssumption

\* No call is under way and nothing is stored at first, whatever the breakers say.
LEMMA CallInitInv == CallInit => CallInv
  <1> SUFFICES ASSUME CallInit PROVE CallInv
    OBVIOUS
  <1> USE DEF CallInit
  <1>1. CallTypeOK
    BY CallAssumption DEF CallAssumption, CallTypeOK, Idle, BreakerStates, Closed, Open
  <1>2. Placed /\ Untouched /\ Sure
    BY DEF Placed, Untouched, Sure, Certain, InCall, Tried
  <1>4. AckedIsSaved /\ Refused
    BY DEF AckedIsSaved, Refused
  <1>3. Counted
    <2> SUFFICES ASSUME NEW m \in Msgs
                 PROVE  /\ Tried(m) \subseteq {Home[m], Home[m]}
                        /\ ~InCall(m)
                        /\ rows[m] = 0
      BY HomeType DEF Counted, Weight
    <2> QED
      BY DEF Tried, InCall
  <1> QED
    BY <1>1, <1>2, <1>3, <1>4 DEF CallInv

\* What a breaker learns keeps it within its states.
LEMMA BreakerType ==
  ASSUME NEW r \in BreakerStates
  PROVE  Success(r) \in BreakerStates /\ Failure(r) \in BreakerStates
  BY CallAssumption DEF CallAssumption, BreakerStates, Success, Failure, Closed, Open

Calls == [at : {"primary", "choose", "backup"}, m : Msgs, l : Logics]

\* A call that is under way has a message and a server.
LEMMA CallType ==
  ASSUME CallTypeOK, call.at # "idle"
  PROVE  call # Idle /\ call \in Calls
  BY DEF CallTypeOK, Idle, Calls

\* The end of a failed attempt is a call again, or none.
LEMMA FailedType ==
  ASSUME CallTypeOK, Waiting, CallFailed
  PROVE  /\ call' \in {Idle} \cup Calls
         /\ answer' \in [Msgs -> {"none", "ack", "nothing", "refused", "error"}]
         /\ breaker' \in [Logics -> BreakerStates]
  <1>1. call \in Calls
    BY CallType DEF Waiting
  <1>2. [call EXCEPT !.at = "choose"] \in Calls
    BY <1>1 DEF Calls
  <1>3. breaker' \in [Logics -> BreakerStates]
    BY <1>1, BreakerType DEF CallFailed, CallTypeOK, Calls
  <1> QED
    BY <1>1, <1>2, <1>3 DEF CallFailed, CallTypeOK, Calls

\* Every action keeps the variables in their types.
LEMMA CallNextTypeOK == CallTypeOK /\ [CallNext]_callVars => CallTypeOK'
  <1> SUFFICES ASSUME CallTypeOK, [CallNext]_callVars PROVE CallTypeOK'
    OBVIOUS
  <1>1. ASSUME NEW m \in Msgs, Send(m) PROVE CallTypeOK'
    <2>1. Home[m] \in Logics
      BY HomeType
    <2>2. call' \in Calls
      BY <1>1, <2>1 DEF Send, Calls
    <2>3. req' \in [Msgs -> [Logics -> {"none", "sent", "acked", "silent", "threw", "lost"}]]
      <3>1. req' = req \/ req' = [req EXCEPT ![m][Home[m]] = "sent"]
        BY <1>1 DEF Send
      <3> QED
        BY <2>1, <3>1 DEF CallTypeOK
    <2>4. skipped' \in [Msgs -> SUBSET Logics]
      BY <1>1, <2>1 DEF Send, CallTypeOK
    <2> QED
      BY <1>1, <2>2, <2>3, <2>4 DEF Send, CallTypeOK, Calls
  <1>2. ASSUME Return PROVE CallTypeOK'
    BY <1>2, BreakerType DEF Return, CallTypeOK, Waiting, Idle, Answered
  <1>3. ASSUME Unavailable PROVE CallTypeOK'
    <2>1. call \in Calls
      BY <1>3, CallType DEF Unavailable, Waiting
    <2> QED
      BY <1>3, <2>1, FailedType DEF Unavailable, CallTypeOK, Calls
  <1>4. ASSUME Deadline PROVE CallTypeOK'
    <2>1. call \in Calls
      BY <1>4, CallType DEF Deadline, Waiting
    <2> QED
      BY <1>4, <2>1, FailedType DEF Deadline, CallTypeOK, Calls
  <1>5. ASSUME Retry PROVE CallTypeOK'
    <2>1. call \in Calls
      BY <1>5, CallType DEF Retry
    <2>2. PICK b \in Backups(call.l) : /\ call' = [call EXCEPT !.at = "backup", !.l = b]
                                       /\ req' = [req EXCEPT ![call.m][b] = "sent"]
      BY <1>5 DEF Retry
    <2>3. b \in Logics
      BY <2>2 DEF Backups, Healthy
    <2> QED
      BY <1>5, <2>1, <2>2, <2>3 DEF Retry, CallTypeOK, Calls
  <1>6. ASSUME NoBackup PROVE CallTypeOK'
    BY <1>6, BreakerType DEF NoBackup, CallTypeOK, Idle
  <1>7. ASSUME NEW l \in Logics, BreakerTimeout(l) PROVE CallTypeOK'
    <2>1. Half \in BreakerStates
      BY CallAssumption DEF CallAssumption, Half, Closed, BreakerStates
    <2> QED
      BY <1>7, <2>1 DEF BreakerTimeout, CallTypeOK
  <1>8. ASSUME NEW l \in Logics, Restart(l) PROVE CallTypeOK'
    <2>1. crashes' \in 0..MaxCrashes
      BY <1>8, CallAssumption DEF CallAssumption, Restart, CallTypeOK
    <2>2. Waiting => call \in Calls
      BY CallType DEF Waiting
    <2>3. doubt' \subseteq Msgs
      BY <1>8, <2>2 DEF Restart, Unheard, CallTypeOK, Calls
    <2>4. req' \in [Msgs -> [Logics -> {"none", "sent", "acked", "silent", "threw", "lost"}]]
      BY <1>8 DEF Restart, CallTypeOK
    <2> QED
      BY <1>8, <2>1, <2>3, <2>4 DEF Restart, CallTypeOK
  <1>9. ASSUME NEW m \in Msgs, NEW l \in Logics, HandleMessage(m, l) PROVE CallTypeOK'
    BY <1>9 DEF HandleMessage, Reply, CallTypeOK
  <1>10. ASSUME NEW m \in Msgs, NEW l \in Logics, HandleFails(m, l) PROVE CallTypeOK'
    BY <1>10 DEF HandleFails, Reply, CallTypeOK
  <1>11. CASE UNCHANGED callVars
    BY <1>11 DEF callVars, CallTypeOK
  <1> QED
    BY <1>1, <1>2, <1>3, <1>4, <1>5, <1>6, <1>7, <1>8, <1>9, <1>10, <1>11 DEF CallNext

\* Servers that were asked stay asked, so a reported error stays explained.
LEMMA RefusedStays ==
  ASSUME Refused, CallTypeOK', NEW n \in Msgs, answer[n] = "error",
         Tried(n) \subseteq Tried(n)', Asked(n) \subseteq Asked(n)'
  PROVE  Asked(n)' = Logics \/ (Tried(n)' # {} /\ \E k, l \in Asked(n)' : k # l)
  <1>1. Asked(n)' \subseteq Logics
    BY DEF Asked, Tried, CallTypeOK
  <1> QED
    BY <1>1 DEF Refused

\* What Counted says of one message, with the second server named.
Pair(m, b) ==
  /\ Tried(m) \subseteq {Home[m], b}
  /\ InCall(m) => call.l \in {Home[m], b} /\ (call.at # "backup" => Tried(m) \subseteq {Home[m]})
  /\ rows[m] <= Weight(m, Home[m]) + (IF b = Home[m] THEN 0 ELSE Weight(m, b))

\* The first attempt is at the server of the ring: it is asked, or skipped.
LEMMA SendInv == ASSUME CallInv, NEW m \in Msgs, Send(m), CallTypeOK' PROVE CallInv'
  <1> USE HomeType DEF CallInv, Send
  <1>1. Placed'
    BY DEF Placed, InCall, Asked, Tried, CallTypeOK, Idle
  <1>2. Untouched'
    BY DEF Untouched, InCall, Tried, CallTypeOK, Idle
  <1>3. Counted'
    <2> SUFFICES ASSUME NEW n \in Msgs PROVE \E b \in Logics : Pair(n, b)'
      BY DEF Counted, Pair
    <2>1. PICK b \in Logics : Pair(n, b)
      BY DEF Counted, Pair
    <2>2. CASE n = m
      BY <2>1, <2>2 DEF Pair, InCall, Tried, Weight, CallTypeOK, Idle
    <2>3. CASE n # m
      BY <2>1, <2>3 DEF Pair, InCall, Tried, Weight, CallTypeOK, Idle
    <2> QED
      BY <2>2, <2>3
  <1>4. AckedIsSaved'
    BY DEF AckedIsSaved, CallTypeOK
  <1>5. Sure'
    BY DEF Sure, Certain, InCall, Tried, CallTypeOK, Idle
  <1>6. Refused'
    <2> SUFFICES ASSUME NEW n \in Msgs, answer'[n] = "error"
                 PROVE  Asked(n)' = Logics \/ (Tried(n)' # {} /\ \E k, l \in Asked(n)' : k # l)
      BY DEF Refused
    <2>1. n # m /\ answer[n] = "error"
      OBVIOUS
    <2> QED
      BY <2>1, RefusedStays DEF Asked, Tried, CallTypeOK
  <1> QED
    BY <1>1, <1>2, <1>3, <1>4, <1>5, <1>6

\* An answer ends the call: it says what the server did with the request.
LEMMA ReturnInv == ASSUME CallInv, Return, CallTypeOK' PROVE CallInv'
  <1> USE HomeType DEF CallInv
  <1>0. call # Idle /\ call \in Calls
    BY CallType DEF Return, Waiting
  <1>1. Placed' /\ Untouched'
    BY <1>0 DEF Return, Answered, Placed, Untouched, InCall, Tried, CallTypeOK, Calls
  <1>3. Counted'
    BY <1>0 DEF Return, Counted, InCall, Tried, Weight
  <1>4. AckedIsSaved'
    BY <1>0 DEF Return, Answered, AckedIsSaved, CallTypeOK, Calls
  <1>5. Sure'
    <2> SUFFICES ASSUME NEW n \in Msgs, n \notin doubt PROVE Certain(n)'
      BY DEF Return, Sure
    <2>1. Certain(n)
      BY DEF Sure
    <2>2. CASE n = call.m
      BY <1>0, <2>1, <2>2, SMTT(60) DEF Return, Waiting, Answered, Certain, InCall, CallTypeOK, Calls
    <2>3. CASE n # call.m
      BY <1>0, <2>1, <2>3 DEF Return, Certain, InCall, CallTypeOK
    <2> QED
      BY <2>2, <2>3
  <1>6. Refused'
    <2> SUFFICES ASSUME NEW n \in Msgs, answer'[n] = "error"
                 PROVE  Asked(n)' = Logics \/ (Tried(n)' # {} /\ \E k, l \in Asked(n)' : k # l)
      BY DEF Refused
    <2>1. answer[n] = "error"
      BY <1>0 DEF Return, Answered, CallTypeOK, Calls
    <2> QED
      BY <2>1, RefusedStays DEF Return, Asked, Tried, CallTypeOK
  <1> QED
    BY <1>1, <1>3, <1>4, <1>5, <1>6

\* An attempt that fails leaves a request that is over, or a message in doubt.
LEMMA FailedInv ==
  ASSUME CallInv, Unavailable \/ Deadline, CallTypeOK'
  PROVE  CallInv'
  <1> USE HomeType DEF CallInv
  <1>0. Waiting /\ CallFailed /\ call # Idle /\ call \in Calls
    BY CallType DEF Unavailable, Deadline, Waiting
  <1>a. /\ \/ /\ req[call.m][call.l] \in {"sent", "lost"} /\ doubt' = doubt
              /\ req' = [req EXCEPT ![call.m][call.l] = "lost"]
           \/ /\ doubt' = doubt \cup {call.m}
              /\ \/ req' = req
                 \/ req' = [req EXCEPT ![call.m][call.l] = "lost"]
        /\ rows' = rows /\ skipped' = skipped /\ muted' = muted
    <2>1. CASE Unavailable
      BY <2>1 DEF Unavailable
    <2>2. CASE Deadline
      <3>1. CASE req[call.m][call.l] = "sent"
        <4>1. req' = req BY <1>0, <2>2, <3>1 DEF Deadline, CallTypeOK, Calls
        <4> QED BY <2>2, <4>1 DEF Deadline
      <3>2. CASE req[call.m][call.l] # "sent"
        <4>1. req' = [req EXCEPT ![call.m][call.l] = "lost"] BY <2>2, <3>2 DEF Deadline
        <4> QED BY <2>2, <4>1 DEF Deadline
      <3> QED BY <3>1, <3>2
    <2> QED BY <2>1, <2>2
  <1>r. req[call.m][call.l] # "none"
    BY <1>0 DEF Placed, InCall, Tried, Waiting, Calls
  <1>b. \A n \in Msgs : Tried(n)' = Tried(n)
    BY <1>0, <1>a, <1>r, SMTT(30) DEF Tried, CallTypeOK, Calls
  <1>c. \A n \in Msgs : Asked(n)' = Asked(n)
    BY <1>b, <1>a DEF Asked
  <1>d. \/ call.at = "primary" /\ call' = [call EXCEPT !.at = "choose"] /\ answer' = answer
        \/ call.at = "backup" /\ call' = Idle /\ answer' = [answer EXCEPT ![call.m] = "error"]
    BY <1>0 DEF Waiting, CallFailed
  <1>1. Placed'
    BY <1>0, <1>b, <1>c, <1>d DEF Placed, InCall, Calls, Idle
  <1>2. Untouched'
    BY <1>0, <1>b, <1>d DEF Untouched, InCall, CallTypeOK, Calls, Idle
  <1>3. Counted'
    <2> SUFFICES ASSUME NEW n \in Msgs PROVE \E b \in Logics : Pair(n, b)'
      BY DEF Counted, Pair
    <2>1. PICK b \in Logics : Pair(n, b)
      BY DEF Counted, Pair
    <2>2. \A l \in Logics : Weight(n, l)' \in {0, 1} /\ Weight(n, l) \in {0, 1} /\ Weight(n, l)' >= Weight(n, l)
      BY <1>0, <1>a DEF Weight, CallTypeOK, Calls
    <2>3. rows'[n] <= Weight(n, Home[n])' + (IF b = Home[n] THEN 0 ELSE Weight(n, b)')
      BY <1>a, <2>1, <2>2, SMTT(30) DEF Pair, CallTypeOK
    <2> QED
      BY <1>0, <1>b, <1>d, <2>1, <2>3 DEF Pair, InCall, Calls, Idle
  <1>4. AckedIsSaved'
    <2>1. \A n \in Msgs, l \in Logics : req'[n][l] = "acked" => req[n][l] = "acked"
      BY <1>0, <1>a DEF CallTypeOK, Calls
    <2>2. \A n \in Msgs : answer'[n] = "ack" => answer[n] = "ack"
      BY <1>0, <1>d DEF CallTypeOK, Calls
    <2> QED
      BY <1>a, <2>1, <2>2 DEF AckedIsSaved
  <1>5. Sure'
    <2> SUFFICES ASSUME NEW n \in Msgs, n \notin doubt' PROVE Certain(n)'
      BY DEF Sure
    <2>1. Certain(n)
      BY <1>a DEF Sure
    <2>2. CASE n # call.m
      BY <1>0, <1>a, <1>d, <2>1, <2>2 DEF Certain, InCall, CallTypeOK, Calls, Idle
    <2>3. CASE n = call.m
      <3>1. /\ req[n][call.l] \in {"sent", "lost"}
            /\ req' = [req EXCEPT ![n][call.l] = "lost"]
        BY <1>a, <2>3
      <3>2. /\ \A l \in Logics : req'[n][l] \in {"none", "lost"}
            /\ rows'[n] = 0 /\ n \notin muted'
        BY <1>0, <1>a, <2>1, <2>3, <3>1 DEF Certain, InCall, Waiting, CallTypeOK, Calls
      <3>3. CASE InCall(n)'
        <4>1. call'.at = "choose"
          BY <1>0, <1>d, <3>3 DEF InCall, Calls
        <4> QED
          BY <3>2, <3>3, <4>1 DEF Certain
      <3>4. CASE ~InCall(n)'
        <4>1. answer'[n] = "error"
          BY <1>0, <1>d, <2>3, <3>4 DEF InCall, Calls, CallTypeOK, Idle
        <4> QED
          BY <3>2, <3>4, <4>1 DEF Certain
      <3> QED
        BY <3>3, <3>4
    <2> QED
      BY <2>2, <2>3
  <1>6. Refused'
    <2> SUFFICES ASSUME NEW n \in Msgs, answer'[n] = "error"
                 PROVE  Asked(n)' = Logics \/ (Tried(n)' # {} /\ \E k, l \in Asked(n)' : k # l)
      BY DEF Refused
    <2>1. CASE answer[n] = "error"
      BY <2>1, <1>b, <1>c, RefusedStays
    <2>2. CASE answer[n] # "error"
      <3>1. call.m = n /\ call.at = "backup"
        BY <1>0, <1>d, <2>2 DEF CallTypeOK, Calls
      <3>2. call.l \in Tried(n) /\ Home[n] \in Asked(n) /\ call.l # Home[n]
        BY <1>0, <3>1 DEF Placed, InCall
      <3> QED
        BY <3>2, <1>b, <1>c DEF Asked
    <2> QED
      BY <2>1, <2>2
  <1> QED
    BY <1>1, <1>2, <1>3, <1>4, <1>5, <1>6

\* A second server is asked once the first attempt is over.
LEMMA RetryInv == ASSUME CallInv, Retry, CallTypeOK' PROVE CallInv'
  <1> USE HomeType DEF CallInv
  <1>0. call.at = "choose" /\ call # Idle /\ call \in Calls
    BY CallType DEF Retry
  <1>h. PICK m \in Msgs : m = call.m
    BY <1>0 DEF Calls
  <1>a. PICK b \in Logics : /\ b # call.l
                            /\ call' = [call EXCEPT !.at = "backup", !.l = b]
                            /\ req' = [req EXCEPT ![m][b] = "sent"]
    BY <1>h DEF Retry, Backups, Healthy
  <1>b. /\ rows' = rows /\ answer' = answer /\ doubt' = doubt /\ skipped' = skipped
        /\ muted' = muted
    BY DEF Retry
  <1>c. InCall(m) /\ call.l = Home[m]
    BY <1>0, <1>h DEF Placed, InCall, Calls
  <1>d. Tried(m)' = Tried(m) \cup {b} /\ \A n \in Msgs : n # m => Tried(n)' = Tried(n)
    BY <1>a, <1>c DEF Tried, CallTypeOK
  <1>e. call'.m = m /\ call'.l = b /\ call'.at = "backup" /\ call' # Idle
    BY <1>0, <1>a, <1>h DEF Calls, Idle
  <1>f. \A n \in Msgs : InCall(n)' <=> InCall(n)
    BY <1>0, <1>e, <1>h DEF InCall
  <1>g. \A n \in Msgs : n # m => ~InCall(n)
    BY <1>h DEF InCall
  <1>1. Placed'
    BY <1>a, <1>b, <1>c, <1>d, <1>e, <1>f, <1>g DEF Placed, Asked
  <1>2. Untouched'
    BY <1>b, <1>c, <1>d, <1>f DEF Untouched
  <1>3. Counted'
    <2> SUFFICES ASSUME NEW n \in Msgs PROVE \E c \in Logics : Pair(n, c)'
      BY DEF Counted, Pair
    <2>1. PICK c \in Logics : Pair(n, c)
      BY DEF Counted, Pair
    <2>2. CASE n # m
      <3>1. \A l \in Logics : Weight(n, l)' = Weight(n, l)
        BY <1>a, <1>c, <2>2 DEF Weight, CallTypeOK
      <3> QED
        BY <1>b, <1>d, <1>f, <1>g, <2>1, <2>2, <3>1 DEF Pair
    <2>3. CASE n = m
      <3>1. Tried(m) \subseteq {Home[m]}
        BY <1>0, <1>c, <2>1, <2>3 DEF Pair
      <3>2. \A l \in Logics : l # Home[m] => req[m][l] = "none"
        BY <3>1 DEF Tried
      <3>3. rows[m] <= Weight(m, Home[m])
        BY <1>c, <2>1, <2>3, <3>2 DEF Pair, Weight, CallTypeOK
      <3>4. Weight(m, Home[m])' = Weight(m, Home[m]) /\ Weight(m, b)' = 0
        BY <1>a, <1>c DEF Weight, CallTypeOK
      <3>5. rows'[m] <= Weight(m, Home[m])' + (IF b = Home[m] THEN 0 ELSE Weight(m, b)')
        BY <1>b, <1>c, <3>3, <3>4 DEF CallTypeOK, Weight
      <3>6. Tried(m)' \subseteq {Home[m], b}
        BY <1>d, <3>1
      <3>7. Pair(m, b)'
        BY <1>e, <3>5, <3>6 DEF Pair
      <3> QED
        BY <2>3, <3>7
    <2> QED
      BY <2>2, <2>3
  <1>4. AckedIsSaved'
    BY <1>a, <1>b, <1>c DEF AckedIsSaved, CallTypeOK
  <1>5. Sure'
    <2> SUFFICES ASSUME NEW n \in Msgs, n \notin doubt PROVE Certain(n)'
      BY <1>b DEF Sure
    <2>1. Certain(n)
      BY DEF Sure
    <2>2. CASE n = m
      BY <1>0, <1>a, <1>b, <1>c, <1>e, <1>f, <2>1, <2>2 DEF Certain, CallTypeOK
    <2>3. CASE n # m
      BY <1>a, <1>b, <1>c, <1>f, <1>g, <2>1, <2>3 DEF Certain, CallTypeOK
    <2> QED
      BY <2>2, <2>3
  <1>6. Refused'
    <2> SUFFICES ASSUME NEW n \in Msgs, answer'[n] = "error"
                 PROVE  Asked(n)' = Logics \/ (Tried(n)' # {} /\ \E k, l \in Asked(n)' : k # l)
      BY DEF Refused
    <2>1. answer[n] = "error" /\ Tried(n) \subseteq Tried(n)'
      BY <1>b, <1>d
    <2> QED
      BY <1>b, <2>1, RefusedStays DEF Asked
  <1> QED
    BY <1>1, <1>2, <1>3, <1>4, <1>5, <1>6

\* Without a server to retry on, every one was asked or has an open breaker.
LEMMA NoBackupInv == ASSUME CallInv, NoBackup, CallTypeOK' PROVE CallInv'
  <1> USE HomeType DEF CallInv
  <1>0. call # Idle /\ call \in Calls /\ call.at = "choose"
    BY CallType DEF NoBackup
  <1>c. call.m \in Msgs /\ InCall(call.m) /\ call.l = Home[call.m]
    BY <1>0 DEF Placed, InCall, Calls
  <1>1. Placed' /\ Untouched'
    BY <1>0 DEF NoBackup, Placed, Untouched, InCall, Tried, CallTypeOK, Calls
  <1>3. Counted'
    BY <1>0 DEF NoBackup, Counted, InCall, Tried, Weight
  <1>4. AckedIsSaved'
    BY <1>0 DEF NoBackup, AckedIsSaved, CallTypeOK, Calls
  <1>5. Sure'
    <2> SUFFICES ASSUME NEW n \in Msgs, n \notin doubt PROVE Certain(n)'
      BY DEF NoBackup, Sure
    <2>1. Certain(n)
      BY DEF Sure
    <2>2. CASE n = call.m
      BY <1>0, <2>1, <2>2 DEF NoBackup, Certain, InCall, CallTypeOK, Calls
    <2>3. CASE n # call.m
      BY <1>0, <2>1, <2>3 DEF NoBackup, Certain, InCall, CallTypeOK
    <2> QED
      BY <2>2, <2>3
  <1>6. Refused'
    <2> SUFFICES ASSUME NEW n \in Msgs, answer'[n] = "error"
                 PROVE  Asked(n)' = Logics \/ (Tried(n)' # {} /\ \E k, l \in Asked(n)' : k # l)
      BY DEF Refused
    <2>1. CASE n # call.m
      <3>1. answer[n] = "error" /\ skipped'[n] = skipped[n] /\ Tried(n)' = Tried(n)
        BY <1>c, <2>1 DEF NoBackup, CallTypeOK, Tried
      <3> QED
        BY <3>1, RefusedStays DEF Asked
    <2>2. CASE n = call.m
      <3>1. \A k \in Logics : k # Home[n] => ~Allow(k)
        BY <1>c, <2>2 DEF NoBackup, Backups, Healthy
      <3>2. skipped'[n] = skipped[n] \cup {k \in Logics : ~Allow(k)} /\ Tried(n)' = Tried(n)
        BY <1>c, <2>2 DEF NoBackup, CallTypeOK, Tried
      <3>3. Home[n] \in Asked(n)
        BY <1>c, <2>2 DEF Placed
      <3>4. Asked(n)' \subseteq Logics
        BY DEF Asked, Tried, CallTypeOK
      <3> QED
        BY <3>1, <3>2, <3>3, <3>4 DEF Asked
    <2> QED
      BY <2>1, <2>2
  <1> QED
    BY <1>1, <1>3, <1>4, <1>5, <1>6

\* A restart ends the requests at a server; only the call that waits for one
\* of them can lose an ack by it.
LEMMA RestartInv == ASSUME CallInv, NEW l \in Logics, Restart(l), CallTypeOK' PROVE CallInv'
  <1> USE HomeType DEF CallInv
  <1>a. call' = call /\ rows' = rows /\ answer' = answer /\ skipped' = skipped /\ muted' = muted
    BY DEF Restart
  <1>b. \A n \in Msgs, k \in Logics :
          req'[n][k] = IF k = l /\ req[n][k] # "none" THEN "lost" ELSE req[n][k]
    BY DEF Restart, CallTypeOK
  <1>c. \A n \in Msgs : Tried(n)' = Tried(n) /\ Asked(n)' = Asked(n) /\ InCall(n)' = InCall(n)
    BY <1>a, <1>b DEF Tried, Asked, InCall
  <1>1. Placed' /\ Untouched'
    BY <1>a, <1>c DEF Placed, Untouched
  <1>3. Counted'
    <2> SUFFICES ASSUME NEW n \in Msgs PROVE \E c \in Logics : Pair(n, c)'
      BY DEF Counted, Pair
    <2>1. PICK c \in Logics : Pair(n, c)
      BY DEF Counted, Pair
    <2>2. \A k \in Logics : Weight(n, k)' \in {0, 1} /\ Weight(n, k) \in {0, 1} /\ Weight(n, k)' >= Weight(n, k)
      BY <1>b DEF Weight
    <2>3. rows'[n] <= Weight(n, Home[n])' + (IF c = Home[n] THEN 0 ELSE Weight(n, c)')
      BY <1>a, <2>1, <2>2 DEF Pair, CallTypeOK
    <2> QED
      BY <1>a, <1>c, <2>1, <2>3 DEF Pair
  <1>4. AckedIsSaved'
    BY <1>a, <1>b DEF AckedIsSaved
  <1>5. Sure'
    <2> SUFFICES ASSUME NEW n \in Msgs, n \notin doubt' PROVE Certain(n)'
      BY DEF Sure
    <2>1. Certain(n)
      BY DEF Restart, Sure
    <2>2. CASE InCall(n)
      <3>1. call \in Calls /\ call.m = n
        BY <2>2 DEF InCall, CallTypeOK, Calls
      <3>2. call.at # "choose" /\ call.l = l => req[n][l] # "acked" /\ n \notin muted
        BY <3>1 DEF Restart, Unheard, Waiting, Calls
      <3> QED
        BY <1>a, <1>b, <1>c, <2>1, <2>2, <3>1, <3>2 DEF Certain, Calls
    <2>3. CASE ~InCall(n)
      BY <1>a, <1>b, <1>c, <2>1, <2>3 DEF Certain
    <2> QED
      BY <2>2, <2>3
  <1>6. Refused'
    BY <1>a, <1>c DEF Refused
  <1> QED
    BY <1>1, <1>3, <1>4, <1>5, <1>6

\* A server handles a request once, and saves one row for it or none, acked or not.
LEMMA HandleInv ==
  ASSUME CallInv, NEW m \in Msgs, NEW l \in Logics,
         HandleMessage(m, l) \/ HandleFails(m, l), CallTypeOK'
  PROVE  CallInv'
  <1> USE HomeType DEF CallInv
  <1>a. call' = call /\ doubt' = doubt /\ answer' = answer /\ skipped' = skipped
    BY DEF HandleMessage, HandleFails
  <1>b. PICK how \in {"acked", "silent", "threw", "lost"} :
          /\ req[m][l] = "sent" /\ req' = [req EXCEPT ![m][l] = how]
          /\ Waiting /\ call.m = m /\ call.l = l => how # "lost"
          /\ \/ how \in {"acked", "lost"} /\ rows' = [rows EXCEPT ![m] = @ + 1] /\ muted' = muted
             \/ how # "acked" /\ rows' = rows /\ muted' = muted
             \/ how # "acked" /\ rows' = [rows EXCEPT ![m] = @ + 1] /\ muted' = muted \cup {m}
    BY DEF HandleMessage, HandleFails, Reply
  <1>c. \A n \in Msgs : Tried(n)' = Tried(n) /\ Asked(n)' = Asked(n) /\ InCall(n)' = InCall(n)
    <2>1. \A n \in Msgs, k \in Logics : req'[n][k] = "none" <=> req[n][k] = "none"
      BY <1>b DEF CallTypeOK
    <2>2. \A n \in Msgs : Tried(n)' = Tried(n)
      BY <2>1 DEF Tried
    <2> QED
      BY <1>a, <2>2 DEF Asked, InCall
  <1>1. Placed' /\ Untouched'
    BY <1>a, <1>c DEF Placed, Untouched
  <1>3. Counted'
    <2> SUFFICES ASSUME NEW n \in Msgs PROVE \E c \in Logics : Pair(n, c)'
      BY DEF Counted, Pair
    <2>1. PICK c \in Logics : Pair(n, c)
      BY DEF Counted, Pair
    <2>2. CASE n # m
      <3>1. rows'[n] = rows[n] /\ \A k \in Logics : Weight(n, k)' = Weight(n, k)
        BY <1>b, <2>2 DEF Weight, CallTypeOK
      <3> QED
        BY <1>a, <1>c, <2>1, <3>1 DEF Pair
    <2>3. CASE n = m
      <3>1. l \in {Home[m], c}
        BY <1>b, <2>1, <2>3 DEF Pair, Tried
      <3>2. /\ Weight(m, l) = 0 /\ Weight(m, l)' = 1
            /\ \A k \in Logics : k # l => Weight(m, k)' = Weight(m, k)
            /\ \A k \in Logics : Weight(m, k) \in {0, 1}
        BY <1>b DEF Weight, CallTypeOK
      <3>3. rows[m] \in Nat /\ (rows'[m] = rows[m] \/ rows'[m] = rows[m] + 1)
        BY <1>b DEF CallTypeOK
      <3>4. rows'[n] <= Weight(n, Home[n])' + (IF c = Home[n] THEN 0 ELSE Weight(n, c)')
        BY <2>1, <2>3, <3>1, <3>2, <3>3 DEF Pair
      <3> QED
        BY <1>a, <1>c, <2>1, <3>4 DEF Pair
    <2> QED
      BY <2>2, <2>3
  <1>4. AckedIsSaved'
    BY <1>a, <1>b DEF AckedIsSaved, CallTypeOK
  <1>5. Sure'
    <2> SUFFICES ASSUME NEW n \in Msgs, n \notin doubt PROVE Certain(n)'
      BY <1>a DEF Sure
    <2>1. Certain(n)
      BY DEF Sure
    <2>2. CASE n # m
      <3>1. /\ rows'[n] = rows[n] /\ \A k \in Logics : req'[n][k] = req[n][k]
            /\ n \in muted' <=> n \in muted
        BY <1>b, <2>2 DEF CallTypeOK
      <3>2. InCall(n) => call.l \in Logics
        BY DEF InCall, CallTypeOK
      <3> QED
        BY <1>a, <1>c, <2>1, <3>1, <3>2 DEF Certain
    <2>3. CASE n = m
      <3>1. InCall(m) /\ call.l = l /\ call.at # "choose" /\ rows[m] = 0 /\ m \notin muted
        BY <1>b, <2>1, <2>3 DEF Certain
      <3>2. how # "lost"
        <4>1. call.m = m /\ call.at \in {"primary", "choose", "backup"}
          BY <3>1 DEF InCall, CallTypeOK
        <4> QED
          BY <1>b, <3>1, <4>1 DEF Waiting
      <3> QED
        BY <1>a, <1>b, <1>c, <2>1, <2>3, <3>1, <3>2 DEF Certain, CallTypeOK
    <2> QED
      BY <2>2, <2>3
  <1>6. Refused'
    BY <1>a, <1>c DEF Refused
  <1> QED
    BY <1>1, <1>3, <1>4, <1>5, <1>6

\* The invariant says nothing about breakers: their timeouts keep it.
LEMMA IdleInv ==
  ASSUME CallInv, CallTypeOK', UNCHANGED <<call, req, rows, answer, doubt, muted, skipped>>
  PROVE  CallInv'
  <1> USE DEF CallInv
  <1>a. \A n \in Msgs : Tried(n)' = Tried(n) /\ Asked(n)' = Asked(n) /\ InCall(n)' = InCall(n)
    BY DEF Tried, Asked, InCall
  <1>1. Placed' /\ Untouched' /\ Refused' /\ AckedIsSaved'
    BY <1>a DEF Placed, Untouched, Refused, AckedIsSaved
  <1>2. Counted'
    BY <1>a DEF Counted, Weight
  <1>3. Sure'
    BY <1>a DEF Sure, Certain
  <1> QED
    BY <1>1, <1>2, <1>3

\* Every step keeps the invariant.
LEMMA CallNextInv == CallInv /\ [CallNext]_callVars => CallInv'
  <1> SUFFICES ASSUME CallInv, [CallNext]_callVars PROVE CallInv'
    OBVIOUS
  <1>1. CallTypeOK'
    BY CallNextTypeOK DEF CallInv
  <1>2. ASSUME NEW m \in Msgs, Send(m) PROVE CallInv'
    BY <1>1, <1>2, SendInv
  <1>3. ASSUME Return PROVE CallInv'
    BY <1>1, <1>3, ReturnInv
  <1>4. ASSUME Unavailable \/ Deadline PROVE CallInv'
    BY <1>1, <1>4, FailedInv
  <1>5. ASSUME Retry PROVE CallInv'
    BY <1>1, <1>5, RetryInv
  <1>6. ASSUME NoBackup PROVE CallInv'
    BY <1>1, <1>6, NoBackupInv
  <1>7. ASSUME NEW l \in Logics, BreakerTimeout(l) PROVE CallInv'
    BY <1>1, <1>7, IdleInv DEF BreakerTimeout
  <1>8. ASSUME NEW l \in Logics, Restart(l) PROVE CallInv'
    BY <1>1, <1>8, RestartInv
  <1>9. ASSUME NEW m \in Msgs, NEW l \in Logics,
               HandleMessage(m, l) \/ HandleFails(m, l)
        PROVE  CallInv'
    BY <1>1, <1>9, HandleInv
  <1>10. CASE UNCHANGED callVars
    BY <1>1, <1>10, IdleInv DEF callVars
  <1> QED
    BY <1>2, <1>3, <1>4, <1>5, <1>6, <1>7, <1>8, <1>9, <1>10 DEF CallNext

\* Two servers that were asked are two in the count.
LEMMA TwoCount ==
  ASSUME NEW S, IsFiniteSet(S), NEW k \in S, NEW l \in S, k # l
  PROVE  Cardinality(S) >= 2
  <1>1. IsFiniteSet({k}) /\ Cardinality({k}) = 1
    BY FS_Singleton
  <1>2. IsFiniteSet({k, l}) /\ Cardinality({k, l}) = 2
    <2>1. {k} \cup {l} = {k, l} /\ l \notin {k}
      OBVIOUS
    <2> QED
      BY <1>1, <2>1, FS_AddElement
  <1>3. {k, l} \subseteq S
    OBVIOUS
  <1>4. Cardinality({k, l}) <= Cardinality(S)
    BY <1>3, FS_Subset
  <1>5. Cardinality(S) \in Nat
    BY FS_CardinalityType
  <1> QED
    BY <1>2, <1>4, <1>5

\* The invariant has what the client may conclude from its answer.
LEMMA InvExplains == CallInv => AnswerExplained
  <1> SUFFICES ASSUME CallInv PROVE AnswerExplained
    OBVIOUS
  <1> USE DEF CallInv
  <1>1. ASSUME NEW m \in Msgs PROVE rows[m] <= 2
    <2>1. PICK b \in Logics :
            rows[m] <= Weight(m, Home[m]) + (IF b = Home[m] THEN 0 ELSE Weight(m, b))
      BY DEF Counted
    <2>2. Weight(m, Home[m]) \in {0, 1} /\ Weight(m, b) \in {0, 1}
      BY DEF Weight
    <2> QED
      BY <2>1, <2>2 DEF CallTypeOK
  <1>2. ASSUME NEW m \in Msgs, m \notin doubt
        PROVE  /\ rows[m] <= 1
               /\ answer[m] = "error" => rows[m] = 0
               /\ answer[m] \in {"refused", "nothing"} => (rows[m] = 0) = (m \notin muted)
    <2>1. Certain(m)
      BY <1>2 DEF Sure
    <2>2. InCall(m) => answer[m] = "none"
      BY DEF Placed
    <2> QED
      BY <2>1, <2>2 DEF Certain
  <1>3. AnswerIsTrue
    BY <1>1, <1>2 DEF AnswerIsTrue, AckedIsSaved
  <1>4. ErrorNeedsTwo
    <2> SUFFICES ASSUME NEW m \in Msgs, answer[m] = "error"
                 PROVE  Asked(m) = Logics \/ (Cardinality(Asked(m)) >= 2 /\ Tried(m) # {})
      BY DEF ErrorNeedsTwo, Asked
    <2>1. Asked(m) = Logics \/ (Tried(m) # {} /\ \E k, l \in Asked(m) : k # l)
      BY DEF Refused
    <2>2. Asked(m) \subseteq Logics
      BY DEF Asked, Tried, CallTypeOK
    <2>3. IsFiniteSet(Asked(m))
      BY <2>2, FS_Subset, CallAssumption DEF CallAssumption
    <2> QED
      BY <2>1, <2>3, TwoCount
  <1> QED
    BY <1>3, <1>4 DEF AnswerExplained

\* The variables keep their types.
THEOREM CallTypeCorrect == CallSpec => []CallTypeOK
  BY CallInitInv, CallNextInv, PTL DEF CallSpec, CallInv

\* Whatever the order of deadlines, restarts, breakers and handled requests:
\* an ack means a row, a message has two rows at most and, as long as no call
\* for it failed after it had reached a server, one row when the answer is an ack
\* and none when it is another, but for a row whose server could not report it;
\* and logic_unavailable means that two servers failed the message or that all of
\* them did (LogicClientPool::handleMessage, HandleMessage).
THEOREM AnswersAreExplained == CallSpec => []AnswerExplained
  BY CallInitInv, CallNextInv, InvExplains, PTL DEF CallSpec
================================================================================
