------------------------------- MODULE Discovery -------------------------------
(***************************************************************************)
(* Service discovery over the gRPC registry: RegistryServiceImpl with its  *)
(* leases and their expiry, the registration thread of every logic process *)
(* with its keep-alives and its graceful end, and the endpoint maps that   *)
(* LogicClientPool of one gateway keeps from List and Watch.               *)
(*                                                                         *)
(* Every operation of the registry runs under its mutex and is one step;   *)
(* so is the handling of one event by the pool, under its own.  A call to  *)
(* the registry may fail before it is executed or after.  Time is counted  *)
(* in any unit.  clients_ and the nodes of the hash ring change        *)
(* together and are one variable.                                          *)
(***************************************************************************)
EXTENDS Naturals, Sequences, FiniteSets

CONSTANTS
  Procs,        \* logic processes, one for every start of the binary
  Ids, Addrs,   \* instance ids and advertised addresses
  Names,        \* of a process: pairs of id and address it may be started with;
                \* a restart may keep either, both or none
  None,
  Ttl,          \* kTtlSec
  Period,       \* the longest time from one keep-alive to the next: the pause of
                \* 10 s and the deadline of 2 s of a call
  MaxFaults     \* bound: crashes of the registry, broken streams, failed calls

ASSUME DiscoveryAssumption ==
  /\ Names \in [Procs -> SUBSET (Ids \X Addrs)]
  /\ None \notin Ids \cup Addrs /\ IsFiniteSet(Ids)
  /\ Ttl \in Nat /\ Period \in Nat \ {0} /\ MaxFaults \in Nat

VARIABLES
  name,         \* id and address of a process
  pc,           \* registration thread of a process
  srv,          \* processes whose gRPC server accepts calls
  lease, timer, \* of a process: lease id (0: none), time until the next keep-alive
  up,           \* the registry runs
  endpoints,    \* endpoints_: address by instance id
  age,          \* time since lastSeen_, up to Ttl + 1
  leaseTo,      \* leaseToInstance_, as pairs
  leaseOf,      \* instanceToLease_, 0: none
  leaseSeq,
  feed,         \* the pool's source: "new", "list" (answer of List), "off", "on" (Watch)
  queue,        \* events on their way to the pool
  clients,      \* keys of clients_, nodes of ring_
  instAddr,     \* instanceToAddr_
  faults,
  lost,         \* ghost: keep-alives in a row that did not reach the registry
  orphans,      \* ghost: processes whose registration a crash of the registry or
                \* another process with their id took away
  unsure        \* ghost: addresses the pool had wrong when the stream began, and
                \* those that two ids shared or an id left since then

logicVars == <<name, pc, srv, lease, timer, lost>>
regVars   == <<up, endpoints, age, leaseTo, leaseOf, leaseSeq>>
streamVars == <<feed, queue, unsure>>
poolVars  == <<clients, instAddr>>
vars == <<logicVars, orphans, regVars, streamVars, poolVars, faults>>

Events == [type : {"ADDED", "REMOVED"}, id : Ids, addr : Addrs]

NoName == <<None, None>>

TypeOK ==
  /\ name \in [Procs -> (Ids \X Addrs) \cup {NoName}]
  /\ pc \in [Procs -> {"new", "joining", "serving", "leaving", "left", "gone"}]
  /\ srv \subseteq Procs
  /\ lease \in [Procs -> Nat] /\ timer \in [Procs -> 0..Period]
  /\ up \in BOOLEAN
  /\ endpoints \in [Ids -> Addrs \cup {None}]
  /\ age \in [Ids -> 0..(Ttl + 1)]
  /\ leaseTo \subseteq (Nat \X Ids) /\ leaseOf \in [Ids -> Nat] /\ leaseSeq \in Nat
  /\ feed \in {"new", "list", "off", "on"}
  /\ queue \in Seq(Events)
  /\ clients \subseteq Addrs /\ instAddr \in [Ids -> Addrs \cup {None}]
  /\ faults \in 0..MaxFaults
  /\ lost \in [Procs -> Nat]
  /\ orphans \subseteq Procs /\ unsure \subseteq Addrs

Init ==
  /\ name = [p \in Procs |-> NoName]
  /\ pc = [p \in Procs |-> "new"] /\ srv = {}
  /\ lease = [p \in Procs |-> 0] /\ timer = [p \in Procs |-> 0]
  /\ up = TRUE
  /\ endpoints = [i \in Ids |-> None] /\ age = [i \in Ids |-> 0]
  /\ leaseTo = {} /\ leaseOf = [i \in Ids |-> 0] /\ leaseSeq = 0
  /\ feed = "new" /\ queue = <<>>
  /\ clients = {} /\ instAddr = [i \in Ids |-> None]
  /\ faults = 0
  /\ lost = [p \in Procs |-> 0] /\ orphans = {} /\ unsure = {}

IdOf(p) == name[p][1]
AddrOf(p) == name[p][2]

Fault == faults < MaxFaults /\ faults' = faults + 1

\* A call to the registry fails: always while it is down.
CallFails == IF up THEN Fault ELSE UNCHANGED faults

\* Lost keep-alives a registration survives.
Tolerates(n) == (n + 1) * Period <= Ttl

Known(i) == endpoints[i] # None
Registered(a) == \E i \in Ids : endpoints[i] = a

\* Addresses that two ids share in e.
Shared(e) == {a \in Addrs : \E i, j \in Ids : i # j /\ e[i] = a /\ e[j] = a}

\* The ids S in any order: an iteration over an unordered_map.
Orders(S) == {f \in [1..Cardinality(S) -> S] : \A i \in S : \E k \in DOMAIN f : f[k] = i}

-------------------------------------------------------------------------------
(* The registry: RegistryServiceImpl.                                      *)

\* broadcastEvent: the pool's watcher is the one that matters here.
Broadcast(evs) == queue' = IF feed = "on" THEN queue \o evs ELSE queue

\* Processes but p that believe in a registration of id i.
Rivals(i, p) == {q \in Procs \ {p} : pc[q] = "serving" /\ IdOf(q) = i}

NewLease(i) ==
  /\ leaseSeq' = leaseSeq + 1
  /\ leaseTo' = {l \in leaseTo : l[1] # leaseOf[i]} \cup {<<leaseSeq + 1, i>>}
  /\ leaseOf' = [leaseOf EXCEPT ![i] = leaseSeq + 1]

\* Register, executed for process p.
ExecRegister(p) ==
  LET i == IdOf(p)  a == AddrOf(p) IN
  /\ up
  /\ endpoints' = [endpoints EXCEPT ![i] = a]
  /\ age' = [age EXCEPT ![i] = 0]
  /\ NewLease(i)
  /\ Broadcast(<<[type |-> "ADDED", id |-> i, addr |-> a]>>)
  /\ orphans' = orphans \cup Rivals(i, p)
  /\ unsure' = IF feed = "on"
               THEN unsure \cup Shared(endpoints') \cup ({endpoints[i]} \ {a, None})
               ELSE unsure
  /\ UNCHANGED <<up, poolVars, feed>>

Removals(o) ==
  [k \in DOMAIN o |-> [type |-> "REMOVED", id |-> o[k], addr |-> endpoints[o[k]]]]

\* removeInstanceLocked for the ids S, one after the other.
RemoveInstances(S) ==
  /\ endpoints' = [i \in Ids |-> IF i \in S THEN None ELSE endpoints[i]]
  /\ age' = [i \in Ids |-> IF i \in S THEN 0 ELSE age[i]]
  /\ leaseTo' = {l \in leaseTo : \A i \in S : l[1] # leaseOf[i]}
  /\ leaseOf' = [i \in Ids |-> IF i \in S THEN 0 ELSE leaseOf[i]]
  /\ \E o \in Orders({i \in S : Known(i)}) :
       Broadcast(Removals(o))
  /\ UNCHANGED <<up, leaseSeq, unsure, poolVars, feed>>

\* Deregister, executed for process p.
ExecDeregister(p) ==
  /\ up
  /\ RemoveInstances({IdOf(p)})
  /\ orphans' = orphans \cup Rivals(IdOf(p), p)

\* Mutation: the time of the last keep-alive is not stored.
RefreshNot(p) == UNCHANGED <<age, lost>>

\* KeepAlive: by the lease.  An unknown lease is answered NOT_FOUND.
Refresh(p) ==
  /\ age' = [i \in Ids |-> IF <<lease[p], i>> \in leaseTo THEN 0 ELSE age[i]]
  /\ lost' = IF \E i \in Ids : <<lease[p], i>> \in leaseTo
             THEN [lost EXCEPT ![p] = 0] ELSE lost

\* Mutation: the oldest age that is told apart is taken for young.
ExpiredNever(i) == age[i] > Ttl + 1

Expired(i) == age[i] > Ttl

\* One round of gcLoop that finds something.
Gc ==
  /\ up /\ \E i \in Ids : Expired(i)
  /\ RemoveInstances({i \in Ids : Expired(i)})
  /\ UNCHANGED <<logicVars, orphans, faults>>

\* The stream to the pool breaks; what was under way is lost.
StreamEnds == feed' = "off" /\ queue' = <<>> /\ unsure' = {}

\* The registry keeps everything in memory, the next lease id too.
RegistryCrash ==
  /\ up /\ Fault /\ up' = FALSE
  /\ endpoints' = [i \in Ids |-> None] /\ age' = [i \in Ids |-> 0]
  /\ leaseTo' = {} /\ leaseOf' = [i \in Ids |-> 0] /\ leaseSeq' = 0
  /\ orphans' = orphans \cup {p \in Procs : pc[p] = "serving"}
  /\ IF feed = "on" THEN StreamEnds ELSE UNCHANGED streamVars
  /\ UNCHANGED <<logicVars, poolVars>>

RegistryBoot ==
  /\ ~up /\ up' = TRUE
  /\ UNCHANGED <<logicVars, poolVars, streamVars, faults>>
  /\ UNCHANGED <<endpoints, age, leaseTo, leaseOf, leaseSeq, orphans>>

-------------------------------------------------------------------------------
(* A logic process: main, its registration thread and shutdownWatcher.     *)

\* The server listens before the thread starts, so the address has to be free.
Start(p) ==
  /\ pc[p] = "new"
  /\ \E n \in Names[p] : /\ \A q \in srv : AddrOf(q) # n[2]
                         /\ name' = [name EXCEPT ![p] = n]
  /\ pc' = [pc EXCEPT ![p] = "joining"] /\ srv' = srv \cup {p}
  /\ UNCHANGED <<orphans, lease, timer, lost, regVars, poolVars, streamVars, faults>>

\* Register is repeated until its answer arrives.
Register(p) ==
  /\ pc[p] = "joining"
  /\ ExecRegister(p)
  /\ \/ /\ pc' = [pc EXCEPT ![p] = "serving"]
        /\ lease' = [lease EXCEPT ![p] = leaseSeq']
        /\ \E t \in 1..Period : timer' = [timer EXCEPT ![p] = t]
        /\ UNCHANGED <<name, srv, lost, faults>>
     \/ Fault /\ UNCHANGED logicVars

\* The answer, NOT_FOUND too, is not looked at; it may take until the deadline.
KeepAlive(p) ==
  /\ pc[p] = "serving" /\ timer[p] = 0
  /\ \E t \in 1..Period : timer' = [timer EXCEPT ![p] = t]
  /\ \/ up /\ Refresh(p) /\ UNCHANGED faults
     \/ /\ CallFails /\ UNCHANGED age
        /\ lost' = [lost EXCEPT ![p] = IF Tolerates(@) THEN @ + 1 ELSE @]
  /\ UNCHANGED <<name, pc, srv, lease, up, endpoints, leaseTo, leaseOf, leaseSeq, orphans>>
  /\ UNCHANGED <<poolVars, streamVars>>

\* The loop of keep-alives is over: its locals are not read again.
Forget(p) ==
  /\ lease' = [lease EXCEPT ![p] = 0] /\ timer' = [timer EXCEPT ![p] = 0]
  /\ lost' = [lost EXCEPT ![p] = 0] /\ orphans' = orphans \ {p}

\* SIGTERM: g_regRunning is cleared and the thread woken.
Stop(p) ==
  /\ pc[p] \in {"joining", "serving"}
  /\ pc' = [pc EXCEPT ![p] = "leaving"]
  /\ Forget(p)
  /\ UNCHANGED <<name, srv, regVars, poolVars, streamVars, faults>>

\* The last call of the thread, whatever becomes of it.
Deregister(p) ==
  /\ pc[p] = "leaving"
  /\ pc' = [pc EXCEPT ![p] = "left"]
  /\ \/ ExecDeregister(p) /\ UNCHANGED faults
     \/ CallFails /\ UNCHANGED <<orphans, regVars, poolVars, streamVars>>
  /\ UNCHANGED <<name, srv, lease, timer, lost>>

\* shutdownWatcher, after the grace period: it does not wait for the thread.
Shutdown(p) ==
  /\ pc[p] \in {"leaving", "left"} /\ p \in srv
  /\ srv' = srv \ {p}
  /\ UNCHANGED <<orphans, name, pc, lease, timer, lost, regVars, poolVars, streamVars, faults>>

Crash(p) ==
  /\ pc[p] \in {"joining", "serving", "leaving"}
  /\ pc' = [pc EXCEPT ![p] = "gone"] /\ srv' = srv \ {p}
  /\ Forget(p)
  /\ UNCHANGED <<name, regVars, poolVars, streamVars, faults>>

\* Time passes, but not past a keep-alive that is due.
Tick ==
  /\ \A p \in Procs : pc[p] = "serving" => timer[p] > 0
  /\ timer' = [p \in Procs |-> IF pc[p] = "serving" THEN timer[p] - 1 ELSE timer[p]]
  /\ age' = [i \in Ids |-> IF Known(i) /\ age[i] <= Ttl THEN age[i] + 1 ELSE age[i]]
  /\ UNCHANGED <<name, pc, srv, lease, lost, up, endpoints, leaseTo, leaseOf, leaseSeq>>
  /\ UNCHANGED <<orphans, poolVars, streamVars, faults>>

-------------------------------------------------------------------------------
(* The gateway's pool: LogicClientPool.                                    *)

\* addEndpoint: nothing happens when the address has a client already.
AddEndpoint(i, a) ==
  IF a \in clients THEN UNCHANGED poolVars
  ELSE /\ clients' = clients \cup {a}
       /\ instAddr' = [instAddr EXCEPT ![i] = a]

\* removeEndpoint: nothing happens when the instance is not in the map.
RemoveEndpoint(i) ==
  /\ clients' = clients \ {instAddr[i]}
  /\ instAddr' = [instAddr EXCEPT ![i] = None]

\* The endpoints as ADDED events.
Snapshots ==
  {[k \in DOMAIN o |-> [type |-> "ADDED", id |-> o[k], addr |-> endpoints[o[k]]]] :
     o \in Orders({i \in Ids : Known(i)})}

\* bootstrap: List; the loop over its answer reads from queue.
Bootstrap ==
  /\ feed = "new"
  /\ \/ up /\ feed' = "list" /\ queue' \in Snapshots /\ UNCHANGED faults
     \/ CallFails /\ feed' = "off" /\ UNCHANGED queue
  /\ UNCHANGED <<logicVars, orphans, regVars, poolVars, unsure>>

\* Mutation: the stream begins with what happens next.
WatchNoSnapshot == queue' = <<>>

\* The watcher joins the list and gets all endpoints under one lock.
WatchSnapshot == queue' \in Snapshots

\* watchLoop opens a stream.
Watch ==
  /\ up /\ feed \in {"list", "off"} /\ queue = <<>>
  /\ feed' = "on"
  /\ WatchSnapshot
  /\ unsure' = Shared(endpoints) \cup
       {a \in clients : \A i \in Ids : ~(instAddr[i] = a /\ endpoints[i] = a)}
  /\ UNCHANGED <<logicVars, orphans, regVars, poolVars, faults>>

\* The pool handles one event.
Read ==
  /\ queue # <<>>
  /\ queue' = Tail(queue)
  /\ LET e == Head(queue) IN
     \/ e.type = "ADDED" /\ AddEndpoint(e.id, e.addr)
     \/ e.type = "REMOVED" /\ RemoveEndpoint(e.id)
  /\ UNCHANGED <<logicVars, orphans, regVars, feed, unsure, faults>>

Disconnect ==
  /\ feed = "on" /\ Fault
  /\ StreamEnds
  /\ UNCHANGED <<logicVars, orphans, regVars, poolVars>>

-------------------------------------------------------------------------------
Next == \/ \E p \in Procs : Start(p) \/ Register(p) \/ KeepAlive(p) \/ Stop(p)
                            \/ Deregister(p) \/ Shutdown(p) \/ Crash(p)
        \/ Gc \/ RegistryCrash \/ RegistryBoot \/ Tick
        \/ Bootstrap \/ Watch \/ Read \/ Disconnect

Spec == Init /\ [][Next]_vars

\* Keep-alives are sent, the GC runs and time passes.  Nothing else has to happen
\* for the dead to leave.
FairSpec ==
  Spec /\ WF_vars(Gc) /\ WF_vars(Tick) /\ \A p \in Procs : WF_vars(KeepAlive(p))

-------------------------------------------------------------------------------
\* The four maps of the registry agree through repeated registrations, removals
\* and expiry: every endpoint has one lease, and no lease leads elsewhere.
LeasesAgree ==
  /\ \A i \in Ids : (Known(i) <=> leaseOf[i] # 0) /\ leaseOf[i] <= leaseSeq
  /\ \A i \in Ids : Known(i) => <<leaseOf[i], i>> \in leaseTo
  /\ \A l \in leaseTo : Known(l[2]) /\ l[1] = leaseOf[l[2]]
  /\ \A i, j \in Ids : Known(i) /\ leaseOf[i] = leaseOf[j] => i = j

\* The pool's maps agree: an instance leads to a client, and no two to the same.
PoolMapsAgree ==
  \A i \in Ids : instAddr[i] # None =>
    instAddr[i] \in clients /\ \A j \in Ids \ {i} : instAddr[j] # instAddr[i]

\* Expiry does not hit the living: a process that serves and lost no more
\* keep-alives in a row than the TTL leaves room for is registered, under its
\* lease, unless the registry crashed or another process used its id.
KeptWhileAlive ==
  \A p \in Procs : pc[p] = "serving" /\ p \notin orphans /\ Tolerates(lost[p]) =>
    endpoints[IdOf(p)] = AddrOf(p) /\ leaseOf[IdOf(p)] = lease[p]

\* Once the pool has read what the stream holds, it has a client for exactly the
\* addresses that are registered, but for those that were wrong when the stream
\* began or that two instances shared or one instance left meanwhile.
PoolFollows ==
  feed = "on" /\ queue = <<>> =>
    \A a \in Addrs \ unsure : a \in clients <=> Registered(a)

\* The entry of a process that is gone disappears, unless the registry restarted
\* its lease ids and a process from before now prolongs it with the same number.
Zombie(i) == Known(i) /\ \A p \in Procs :
  IdOf(p) = i => pc[p] \notin {"joining", "serving", "leaving"}
Propped(i) == \E p \in Procs : pc[p] = "serving" /\ <<lease[p], i>> \in leaseTo
DeadLeaves == \A i \in Ids : Zombie(i) ~> (~Zombie(i) \/ Propped(i))

\* The header of LogicClientPool (lines 5 and 6): it maintains the list of
\* endpoints, and every endpoint has a client.
EndpointHasClient ==
  feed = "on" /\ queue = <<>> => \A i \in Ids : Known(i) => endpoints[i] \in clients
===============================================================================
