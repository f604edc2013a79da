------------------------------- MODULE Presence -------------------------------
(***************************************************************************)
(* The presence of one user: OnlineManager's table of sessions by device   *)
(* on every server instance, the keys online:{uid}:device in Redis with    *)
(* their time to live, the connection and close handlers of setupWebSocket *)
(* and what they tell the user's friends, the kick of a device, and the    *)
(* refresh timer.  One friend stands for all of them: each is told in the  *)
(* same way, through his own sessions on the instance of the handler.      *)
(*                                                                         *)
(* The HTTP server, the WebSocket server and the timers of an instance run *)
(* on its one event loop, so a handler is one step: what it does to the    *)
(* table is ordered by the loop, and it touches Redis once.  A socket may  *)
(* die long before its close handler runs (the idle timeout is 60 s).      *)
(***************************************************************************)
EXTENDS Naturals

CONSTANTS
  Sessions,     \* WebSocket sessions of the user, in any order
  Devices,      \* device ids
  Insts,        \* server instances
  Ears, EarAt,  \* sessions of a friend, and their instances: they are open
                \* while these run, and open again when they have restarted
  None,         \* no session, no device, no instance
  Ttl,          \* kOnlineTtlSec in rounds of kOnlineRefreshSec: 6
  MaxMissed,    \* bound: rounds in a row an instance is too busy to refresh
  MaxFaults     \* bound: crashes, and handlers that Redis or MySQL fails

ASSUME PresenceAssumption ==
  /\ None \notin Sessions \cup Insts
  /\ EarAt \in [Ears -> Insts]
  /\ Ttl \in Nat \ {0} /\ MaxMissed \in 0..(Ttl - 1) /\ MaxFaults \in Nat

VARIABLES
  pc,           \* of a session; "closed": its close handler has not run yet
  dev, inst,    \* device and instance of a session, None while it is new
  table,        \* sessions_[uid] of an instance, by device
  ttl,          \* Redis: rounds that key online:{uid}:device has left, 0: no key;
                \* its value is the same on every instance
  missed,       \* rounds an instance has missed in a row
  up,           \* instances that run
  told,         \* what a session of the friend heard last, "offline" at first
  faults,
  replaced,     \* ghost: sessions whose entry a newer session took over
  evicted       \* ghost: open sessions whose entry or key was removed by the
                \* close of another session or by a kick of another

vars == <<pc, dev, inst, table, ttl, missed, up, told, faults, replaced, evicted>>

TypeOK ==
  /\ pc \in [Sessions -> {"new", "open", "closed", "gone"}]
  /\ dev \in [Sessions -> Devices \cup {None}]
  /\ inst \in [Sessions -> Insts \cup {None}]
  /\ table \in [Insts -> [Devices -> Sessions \cup {None}]]
  /\ ttl \in [Devices -> 0..Ttl]
  /\ missed \in [Insts -> 0..MaxMissed]
  /\ up \subseteq Insts
  /\ told \in [Ears -> {"offline", "online"}]
  /\ faults \in 0..MaxFaults
  /\ replaced \subseteq Sessions /\ evicted \subseteq Sessions

Init ==
  /\ pc = [s \in Sessions |-> "new"]
  /\ dev = [s \in Sessions |-> None] /\ inst = [s \in Sessions |-> None]
  /\ table = [i \in Insts |-> [d \in Devices |-> None]]
  /\ ttl = [d \in Devices |-> 0]
  /\ missed = [i \in Insts |-> 0]
  /\ up = Insts
  /\ told = [e \in Ears |-> "offline"]
  /\ faults = 0
  /\ replaced = {} /\ evicted = {}

Fault == faults < MaxFaults /\ faults' = faults + 1
Entry(s) == table[inst[s]][dev[s]]
IsOpen(s) == pc[s] = "open"

\* isOnline on instance i with table t: an open session.  The key it looks at
\* otherwise, online:{uid} without a device, is never set.
IsOnline(t, i) == \E d \in Devices : t[i][d] # None /\ IsOpen(t[i][d])

\* The open sessions of device d, on any instance, but s.
Others(d, s) == {t \in Sessions \ {s} : dev[t] = d /\ IsOpen(t)}

\* DEL of the key of device d, whichever instance set it.
DelKey(d) == ttl' = [ttl EXCEPT ![d] = 0]

HasKey(d) == ttl[d] > 0

-------------------------------------------------------------------------------
(* Connection handler, close handler, kickDevice.                          *)

\* Mutation: an entry that is there already stays.
AddDeviceKeep(s, d, i) ==
  /\ table' = [table EXCEPT ![i][d] = IF @ = None THEN s ELSE @]
  /\ UNCHANGED replaced

AddDevice(s, d, i) ==
  /\ table' = [table EXCEPT ![i][d] = s]
  /\ replaced' = replaced \cup ({table[i][d]} \ {None})

SetKey(d) == ttl' = [ttl EXCEPT ![d] = Ttl]

\* The sessions of the friend that instance i can reach.
Local(i) == {e \in Ears : EarAt[e] = i}

\* getSession: one session of the friend on this instance hears "online", if he
\* has any there.
TellOnline(i) ==
  \/ \E e \in Local(i) : told' = [told EXCEPT ![e] = "online"]
  \/ Local(i) = {} /\ UNCHANGED told

\* addDevice: the entry, then SET if Redis can be had; then getFriends, which is
\* empty when MySQL cannot be read, and the friends are told.
Open(s, d, i) ==
  /\ pc[s] = "new" /\ i \in up
  /\ pc' = [pc EXCEPT ![s] = "open"]
  /\ dev' = [dev EXCEPT ![s] = d] /\ inst' = [inst EXCEPT ![s] = i]
  /\ AddDevice(s, d, i)
  /\ \/ SetKey(d) /\ TellOnline(i) /\ UNCHANGED faults
     \/ Fault /\ (SetKey(d) \/ UNCHANGED ttl) /\ (TellOnline(i) \/ UNCHANGED told)
  /\ UNCHANGED <<missed, up, evicted>>

\* The peer leaves, the session idles too long, or the network fails.
Drop(s) ==
  /\ pc[s] = "open"
  /\ pc' = [pc EXCEPT ![s] = "closed"]
  /\ UNCHANGED <<dev, inst, table, ttl, missed, up, told, faults, replaced, evicted>>

\* Mutation: the entry stays.
RemoveDeviceNot(s) == UNCHANGED <<table, evicted>>

\* The entry of the device is erased, whichever session it holds.
RemoveDevice(s) ==
  /\ table' = [table EXCEPT ![inst[s]][dev[s]] = None]
  /\ evicted' = evicted \cup Others(dev[s], s)

\* None of the friend's sessions on instance i knows the user as online.
HearOffline(i) == told' = [e \in Ears |-> IF e \in Local(i) THEN "offline" ELSE told[e]]

\* Mutation: the friends are told whenever a session closes.
TellOfflineAlways(s) == HearOffline(inst[s])

\* The friends hear "offline", in all their sessions on this instance, when no
\* device is left in its table.
TellOffline(s) ==
  IF IsOnline(table', inst[s]) THEN UNCHANGED told ELSE HearOffline(inst[s])

\* removeDevice, then isOnline, then getFriends and the friends.
Close(s) ==
  /\ pc[s] = "closed"
  /\ pc' = [pc EXCEPT ![s] = "gone"]
  /\ RemoveDevice(s)
  /\ \/ DelKey(dev[s]) /\ TellOffline(s) /\ UNCHANGED faults
     \/ Fault /\ (DelKey(dev[s]) \/ UNCHANGED ttl) /\ (TellOffline(s) \/ UNCHANGED told)
  /\ UNCHANGED <<dev, inst, missed, up, replaced>>

\* kickDevice: the session is closed, so that its close handler runs too.
Kick(i, d) ==
  /\ i \in up /\ table[i][d] # None
  /\ pc' = [pc EXCEPT ![table[i][d]] = "closed"]
  /\ table' = [table EXCEPT ![i][d] = None]
  /\ \/ DelKey(d) /\ UNCHANGED faults
     \/ Fault /\ UNCHANGED ttl
  /\ evicted' = evicted \cup Others(d, table[i][d])
  /\ UNCHANGED <<dev, inst, missed, up, told, replaced>>

-------------------------------------------------------------------------------
(* Time, crashes and restarts.                                             *)

\* Devices whose key the refreshing instances R prolong.
Prolonged(R) == {d \in Devices : \E i \in R : table[i][d] # None /\ IsOnline(table, i)}

\* Mutation: keys do not expire.
RoundForever(R) == UNCHANGED ttl

\* EXPIRE prolongs keys that are there and creates none; a key that has no time
\* left is gone.
Round(R) ==
  ttl' = [d \in Devices |-> IF ~HasKey(d) THEN 0
                            ELSE IF d \in Prolonged(R) THEN Ttl ELSE ttl[d] - 1]

\* kOnlineRefreshSec pass; the instances R get round to the refresh.
Tick ==
  /\ \E R \in SUBSET up :
       /\ \A i \in up \ R : missed[i] < MaxMissed
       /\ missed' = [i \in Insts |-> IF i \in up \ R THEN missed[i] + 1 ELSE 0]
       /\ Round(R)
  /\ UNCHANGED <<pc, dev, inst, table, up, told, faults, replaced, evicted>>

\* An instance dies with its sessions, those of the friend included.
Crash(i) ==
  /\ i \in up /\ Fault
  /\ up' = up \ {i}
  /\ table' = [table EXCEPT ![i] = [d \in Devices |-> None]]
  /\ pc' = [s \in Sessions |-> IF inst[s] = i THEN "gone" ELSE pc[s]]
  /\ missed' = [missed EXCEPT ![i] = 0]
  /\ HearOffline(i)
  /\ UNCHANGED <<dev, inst, ttl, replaced, evicted>>

Boot(i) ==
  /\ i \in Insts \ up
  /\ up' = up \cup {i}
  /\ UNCHANGED <<pc, dev, inst, table, ttl, missed, told, faults, replaced, evicted>>

-------------------------------------------------------------------------------
Next == \/ \E s \in Sessions, d \in Devices, i \in Insts : Open(s, d, i)
        \/ \E s \in Sessions : Drop(s) \/ Close(s)
        \/ \E i \in Insts : Crash(i) \/ Boot(i) \/ \E d \in Devices : Kick(i, d)
        \/ Tick

Spec == Init /\ [][Next]_vars

\* The close handler of a closed session runs, and time passes.
FairSpec == Spec /\ WF_vars(Tick) /\ \A s \in Sessions : WF_vars(Close(s))

-------------------------------------------------------------------------------
\* The table holds no dead session: what it lists is connected, or its close
\* handler is still to run, and stands under its own device and instance.
ListedIsLive ==
  \A i \in Insts, d \in Devices : table[i][d] # None =>
    /\ pc[table[i][d]] \in {"open", "closed"}
    /\ dev[table[i][d]] = d /\ inst[table[i][d]] = i

\* A connected session can be reached: it is in the table, unless a newer
\* session of its device took its place or the late close of another session of
\* the device took its entry; and while no fault occurs its key is in Redis,
\* unless such a close, on any instance, deleted it.
OpenIsListed ==
  \A s \in Sessions : IsOpen(s) /\ s \notin replaced \cup evicted =>
    Entry(s) = s /\ (faults = 0 => HasKey(dev[s]))

\* The comment at kOnlineTtlSec: an instance that misses a few rounds does not
\* let the keys of its own sessions expire.
RefreshKeepsKey ==
  faults = 0 => \A s \in Sessions :
    IsOpen(s) /\ Entry(s) = s /\ HasKey(dev[s])
    => ttl[dev[s]] + missed[inst[s]] >= Ttl

\* While all sessions are on one instance, none was evicted and no fault
\* occurred, a friend with sessions on that instance knows the truth whenever no
\* close handler is due: one of them at least shows the user online when he is, and
\* none of them when he is not, although "online" reaches one session only.
Quiet == \A s \in Sessions : pc[s] # "closed"
FriendsKnow ==
  \A i \in Insts :
    /\ \A s \in Sessions : inst[s] \in {i, None}
    /\ evicted = {} /\ faults = 0 /\ Quiet /\ Local(i) # {}
    => ((\E e \in Local(i) : told[e] = "online") <=> \E s \in Sessions : IsOpen(s))

\* The comment in the connection handler (line 1618): the friends are told that the
\* user is online.
EveryEarHears ==
  (\E s \in Sessions : IsOpen(s)) => \A e \in Ears : told[e] = "online"

\* A key that no instance lists the device for goes away, whatever became of
\* the one that set it, unless the device connects again.
Unlisted(d) == HasKey(d) /\ \A i \in Insts : table[i][d] = None
StaleKeyExpires == \A d \in Devices : Unlisted(d) ~> ~Unlisted(d)

\* The comment in the close handler (line 1711): the friends hear "offline" only
\* when the user has no device left.
OfflineOnlyWhenGone ==
  [][\A e \in Ears : told[e] = "online" /\ told'[e] = "offline"
       => \A s \in Sessions : ~IsOpen(s)]_vars
===============================================================================
