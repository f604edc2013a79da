------------------------------ MODULE PushRoutes ------------------------------
(***************************************************************************)
(* The way down from a logic server to WebSocket sessions.  Every gateway  *)
(* keeps one RegisterGateway stream to the server (LogicClient::streamLoop):*)
(* conn_open and conn_close events go up on it, PushCommands come down.    *)
(* GatewayRegistry keeps the stream of a gateway and the gateway of a user.*)
(* Streams break with events in flight, and the server's handler of a      *)
(* broken stream may outlive the reconnect: it ends by a TCP reset or by   *)
(* the watchdog after kGatewaySilenceMs.  A gateway has one LogicClient    *)
(* per logic server and tells all of them the same; the servers share      *)
(* nothing, so one of them is modelled.                                    *)
(***************************************************************************)
EXTENDS Naturals, Sequences, FiniteSets

CONSTANTS
  Gateways, Users,
  Sessions,     \* WebSocket connections, each opened and closed once
  GatewayOf, UidOf,
  Msgs, Target, \* messages on their way down at a time, and the user each is for
  None,         \* no gateway, no stream
  Slots,        \* bound: streams of a gateway whose handlers run at a time
  MaxFaults     \* bound: broken streams and restarts

ASSUME RoutesAssumption ==
  /\ GatewayOf \in [Sessions -> Gateways] /\ UidOf \in [Sessions -> Users]
  /\ Target \in [Msgs -> Users] /\ IsFiniteSet(Sessions)
  /\ Slots \subseteq Nat /\ None \notin Gateways \cup Slots
  /\ MaxFaults \in Nat

VARIABLES
  sess,         \* a session: new, open (then it is in LocalPresence) or closed
  eventQueue,   \* events a LogicClient has not yet written
  link,         \* the stream a LogicClient reads from, or None
  stream,       \* of a gateway: free, up, or broken while its handler runs on
  greeted,      \* streams whose handler has read hello and knows its gatewayId
  chan,         \* events on a stream that its handler has not read
  pushes,       \* messages on their way down a stream
  gateways,     \* GatewayRegistry::gateways_: the stream of a gateway
  userToGateway,\* GatewayRegistry::userToGateway_
  faults,
  owed,         \* ghost: sessions a push was written for and has not reached, while
                \* they stay open and the stream is not broken
  last,         \* ghost: the gateway whose conn_open for a user came last
  cut           \* ghost: gateways a stream of which has been broken

linkVars == <<link, stream, greeted, chan, pushes>>
regVars  == <<gateways, userToGateway, last>>
vars == <<sess, eventQueue, faults, owed, cut, linkVars, regVars>>

Event == [op : {"open", "close"}, uid : Users] \cup {[op |-> "hello"]}

TypeOK ==
  /\ sess \in [Sessions -> {"new", "open", "closed"}]
  /\ eventQueue \in [Gateways -> Seq(Event)]
  /\ link \in [Gateways -> Slots \cup {None}]
  /\ stream \in [Gateways -> [Slots -> {"free", "up", "broken"}]]
  /\ greeted \subseteq Gateways \X Slots
  /\ chan \in [Gateways -> [Slots -> Seq(Event)]]
  /\ pushes \in [Gateways -> [Slots -> SUBSET Msgs]]
  /\ gateways \in [Gateways -> Slots \cup {None}]
  /\ userToGateway \in [Users -> Gateways \cup {None}]
  /\ faults \in 0..MaxFaults
  /\ owed \in [Msgs -> SUBSET Sessions]
  /\ last \in [Users -> Gateways \cup {None}]
  /\ cut \subseteq Gateways

Init ==
  /\ sess = [s \in Sessions |-> "new"]
  /\ eventQueue = [g \in Gateways |-> <<>>]
  /\ link = [g \in Gateways |-> None]
  /\ stream = [g \in Gateways |-> [k \in Slots |-> "free"]]
  /\ greeted = {}
  /\ chan = [g \in Gateways |-> [k \in Slots |-> <<>>]]
  /\ pushes = [g \in Gateways |-> [k \in Slots |-> {}]]
  /\ gateways = [g \in Gateways |-> None]
  /\ userToGateway = [u \in Users |-> None]
  /\ faults = 0
  /\ owed = [m \in Msgs |-> {}]
  /\ last = [u \in Users |-> None]
  /\ cut = {}

Fault == faults < MaxFaults /\ faults' = faults + 1

OpenAt(g, u) == {s \in Sessions : sess[s] = "open" /\ GatewayOf[s] = g /\ UidOf[s] = u}

-------------------------------------------------------------------------------
(* WebSocket handlers of a gateway.                                        *)

enqueue(s, op) ==
  eventQueue' = [eventQueue EXCEPT ![GatewayOf[s]] = Append(@, [op |-> op, uid |-> UidOf[s]])]

Connected(s) ==
  /\ sess[s] = "new"
  /\ sess' = [sess EXCEPT ![s] = "open"]
  /\ enqueue(s, "open")
  /\ UNCHANGED <<faults, owed, cut, linkVars, regVars>>

Closing(s) ==
  /\ sess[s] = "open"
  /\ sess' = [sess EXCEPT ![s] = "closed"]
  /\ enqueue(s, "close")
  /\ owed' = [m \in Msgs |-> owed[m] \ {s}]
  /\ UNCHANGED <<faults, cut, linkVars, regVars>>

-------------------------------------------------------------------------------
(* The logic server: RegisterGateway and GatewayRegistry.                  *)

registerGateway(g, k) == gateways' = [gateways EXCEPT ![g] = k]

onUserOpen(u, g) == userToGateway' = [userToGateway EXCEPT ![u] = g]

\* Mutation: whatever gateway the user is at by now.
onUserCloseAny(u, g) == userToGateway' = [userToGateway EXCEPT ![u] = None]

onUserClose(u, g) == userToGateway' = [userToGateway EXCEPT ![u] = IF @ = g THEN None ELSE @]

\* The handler of a stream reads its next event.
HandleEvent(g, k) ==
  LET e == Head(chan[g][k]) IN
  /\ chan[g][k] # <<>>
  /\ chan' = [chan EXCEPT ![g][k] = Tail(@)]
  /\ \/ /\ e.op = "hello" /\ registerGateway(g, k)
        /\ greeted' = greeted \cup {<<g, k>>}
        /\ UNCHANGED <<userToGateway, last>>
     \/ /\ e.op = "open" /\ onUserOpen(e.uid, g)
        /\ last' = [last EXCEPT ![e.uid] = g]
        /\ UNCHANGED <<gateways, greeted>>
     \/ /\ e.op = "close" /\ onUserClose(e.uid, g)
        /\ UNCHANGED <<gateways, last, greeted>>
  /\ UNCHANGED <<sess, eventQueue, faults, owed, cut, link, stream, pushes>>

\* Mutation: the users go, the pointer to the stream stays.
deregisterUsers(g) ==
  /\ userToGateway' = [u \in Users |-> IF userToGateway[u] = g THEN None ELSE userToGateway[u]]
  /\ UNCHANGED gateways

\* Mutation: the stream goes, the users stay.
deregisterStream(g) ==
  /\ gateways' = [gateways EXCEPT ![g] = None]
  /\ UNCHANGED userToGateway

\* By the gateway's id, whichever stream is registered for it by now.
deregisterGateway(g) ==
  /\ gateways' = [gateways EXCEPT ![g] = None]
  /\ userToGateway' = [u \in Users |-> IF userToGateway[u] = g THEN None ELSE userToGateway[u]]

\* Read returns false, by a reset or by the watchdog: the handler ends, and
\* deregisters the gateway it was greeted by, if any.
StreamGone(g, k) ==
  /\ stream[g][k] = "broken" /\ chan[g][k] = <<>>
  /\ stream' = [stream EXCEPT ![g][k] = "free"]
  /\ greeted' = greeted \ {<<g, k>>}
  /\ IF <<g, k>> \in greeted THEN deregisterGateway(g) ELSE UNCHANGED <<gateways, userToGateway>>
  /\ UNCHANGED <<sess, eventQueue, faults, owed, cut, link, chan, pushes, last>>

\* pushToUser, at the end of HandleMessage: without a route nothing happens, and
\* what is written to a broken stream is gone.
Push(m) ==
  LET g == userToGateway[Target[m]]
      k == IF g = None THEN None ELSE gateways[g]
  IN
  /\ \A h \in Gateways, j \in Slots : m \notin pushes[h][j]
  /\ k # None
  /\ stream[g][k] = "up"
  /\ pushes' = [pushes EXCEPT ![g][k] = @ \cup {m}]
  /\ owed' = [owed EXCEPT ![m] = OpenAt(g, Target[m])]
  /\ UNCHANGED <<sess, eventQueue, faults, cut, link, stream, greeted, chan, regVars>>

-------------------------------------------------------------------------------
(* LogicClient::streamLoop.                                                *)

\* A new stream; its first frame is hello, and no session is told again.
Connect(g) ==
  /\ link[g] = None
  /\ \E k \in Slots :
       /\ stream[g][k] = "free"
       /\ \A j \in Slots : stream[g][j] = "free" => k <= j
       /\ link' = [link EXCEPT ![g] = k]
       /\ stream' = [stream EXCEPT ![g][k] = "up"]
       /\ chan' = [chan EXCEPT ![g][k] = <<[op |-> "hello"]>>]
  /\ UNCHANGED <<sess, eventQueue, faults, owed, cut, greeted, pushes, regVars>>

\* The writer thread pops an event; if the stream is broken it is lost.
Write(g) ==
  /\ link[g] # None /\ eventQueue[g] # <<>>
  /\ eventQueue' = [eventQueue EXCEPT ![g] = Tail(@)]
  /\ chan' = IF stream[g][link[g]] = "up"
             THEN [chan EXCEPT ![g][link[g]] = Append(@, Head(eventQueue[g]))]
             ELSE chan
  /\ UNCHANGED <<sess, faults, owed, cut, link, stream, greeted, pushes, regVars>>

\* LocalPresence::sendToUser: to every session of the user at this gateway.
sendToUser(u, g) == OpenAt(g, u)

\* Read returns a PushCommand.
ReadPush(g, m) ==
  /\ link[g] # None /\ m \in pushes[g][link[g]]
  /\ pushes' = [pushes EXCEPT ![g][link[g]] = @ \ {m}]
  /\ owed' = [owed EXCEPT ![m] = @ \ sendToUser(Target[m], g)]
  /\ UNCHANGED <<sess, eventQueue, faults, cut, link, stream, greeted, chan, regVars>>

\* The read loop ends; after the back-off the client connects again.
ReadEnds(g) ==
  /\ link[g] # None /\ stream[g][link[g]] # "up"
  /\ link' = [link EXCEPT ![g] = None]
  /\ UNCHANGED <<sess, eventQueue, faults, owed, cut, stream, greeted, chan, pushes, regVars>>

-------------------------------------------------------------------------------
(* Faults.                                                                 *)

FirstOf(c, k) == IF k < Len(c) THEN SubSeq(c, 1, k) ELSE c

\* The streams of gateways in G break: of what is on its way up, the server
\* may still read a beginning; what is on its way down is gone.
Broken(G) ==
  /\ cut' = cut \cup G
  /\ stream' = [g \in Gateways |-> [k \in Slots |->
                  IF g \in G /\ stream[g][k] = "up" THEN "broken" ELSE stream[g][k]]]
  /\ \E i \in 0..(2 * Cardinality(Sessions) + 1) :
       chan' = [g \in Gateways |-> [k \in Slots |->
                  IF g \in G /\ stream[g][k] = "up" THEN FirstOf(chan[g][k], i) ELSE chan[g][k]]]
  /\ pushes' = [g \in Gateways |-> IF g \in G THEN [k \in Slots |-> {}] ELSE pushes[g]]
  /\ owed' = [m \in Msgs |-> {s \in owed[m] : GatewayOf[s] \notin G}]

Break(g) ==
  /\ \E k \in Slots : stream[g][k] = "up"
  /\ Fault
  /\ Broken({g})
  /\ UNCHANGED <<sess, eventQueue, link, greeted, regVars>>

\* A gateway dies, or exits after its drain, and restarts under the same id.
GatewayRestarts(g) ==
  /\ Fault
  /\ Broken({g})
  /\ sess' = [s \in Sessions |-> IF GatewayOf[s] = g /\ sess[s] = "open" THEN "closed" ELSE sess[s]]
  /\ eventQueue' = [eventQueue EXCEPT ![g] = <<>>]
  /\ link' = [link EXCEPT ![g] = None]
  /\ UNCHANGED <<greeted, regVars>>

\* The logic server restarts: no stream, an empty registry.
LogicRestarts ==
  /\ Fault
  /\ cut' = Gateways
  /\ stream' = [g \in Gateways |-> [k \in Slots |-> "free"]]
  /\ greeted' = {}
  /\ chan' = [g \in Gateways |-> [k \in Slots |-> <<>>]]
  /\ pushes' = [g \in Gateways |-> [k \in Slots |-> {}]]
  /\ gateways' = [g \in Gateways |-> None]
  /\ userToGateway' = [u \in Users |-> None]
  /\ owed' = [m \in Msgs |-> {}]
  /\ UNCHANGED <<sess, eventQueue, link, last>>

-------------------------------------------------------------------------------
Next ==
  \/ \E s \in Sessions : Connected(s) \/ Closing(s)
  \/ \E g \in Gateways, k \in Slots : HandleEvent(g, k) \/ StreamGone(g, k)
  \/ \E m \in Msgs : Push(m) \/ \E g \in Gateways : ReadPush(g, m)
  \/ \E g \in Gateways : Connect(g) \/ Write(g) \/ ReadEnds(g)
  \/ \E g \in Gateways : Break(g) \/ GatewayRestarts(g)
  \/ LogicRestarts

\* The threads of a gateway's streams run on and connect again, and so do the
\* server's handlers: that of a broken stream ends at the latest by its watchdog.
Fairness ==
  \A g \in Gateways :
    /\ WF_vars(Connect(g) \/ Write(g) \/ ReadEnds(g))
    /\ WF_vars(\E k \in Slots : HandleEvent(g, k) \/ StreamGone(g, k))

Spec == Init /\ [][Next]_vars /\ Fairness

-------------------------------------------------------------------------------
(* Properties.                                                             *)

\* Events of u that the server has yet to see from g.
Pending(g, u, op) ==
  LET e == [op |-> op, uid |-> u] IN
  \/ \E i \in DOMAIN eventQueue[g] : eventQueue[g][i] = e
  \/ \E k \in Slots : \E i \in DOMAIN chan[g][k] : chan[g][k][i] = e

\* A user is routed to a gateway where he has no session only while his
\* conn_close is on its way, or while the handler of a broken stream that
\* knows the gateway still runs: it clears the gateway's users when it ends.
StaleRouteExcused ==
  \A u \in Users :
    LET g == userToGateway[u] IN
    g # None /\ OpenAt(g, u) = {} =>
      \/ Pending(g, u, "close")
      \/ \E k \in Slots : stream[g][k] = "broken" /\ <<g, k>> \in greeted

\* The last gateway wins (GatewayRegistry.h:7): while no stream of it has
\* broken and no session of the user there has closed, a user stays routed to
\* the gateway he opened a session at last, whatever the others report.
LastGatewayWins ==
  \A u \in Users :
    LET g == last[u]
        mine == {s \in Sessions : GatewayOf[s] = g /\ UidOf[s] = u /\ sess[s] # "new"}
    IN g # None /\ g \notin cut /\ (\A s \in mine : sess[s] = "open")
       => userToGateway[u] = g

RegisteredIsLive ==
  \A g \in Gateways : gateways[g] # None => stream[g][gateways[g]] # "free"

EveryDeviceGets ==
  \A m \in Msgs : \A s \in owed[m] : \E k \in Slots : m \in pushes[GatewayOf[s]][k]

\* pushToUser never writes to a stream whose handler has ended, though the registry
\* keeps a plain pointer to the stream object of the handler (GatewayRegistry.h:27,
\* 33, 62); and what it wrote reaches every session the user had at that gateway,
\* unless the session closes or the stream breaks.
PushLands == RegisteredIsLive /\ EveryDeviceGets

\* A route to a gateway the user has left goes away, through lost conn_close
\* events, broken streams and restarts.
StaleRouteGoes ==
  \A g \in Gateways, u \in Users :
    (userToGateway[u] = g /\ OpenAt(g, u) = {}) ~> (userToGateway[u] # g \/ OpenAt(g, u) # {})

\* RUNBOOK.md:97 on clients that get acks and no messages: the stream broke, and
\* reconnects by itself.  A user with an open session is routed again.
ReachableAgain ==
  \A g \in Gateways, u \in Users :
    OpenAt(g, u) # {} ~> (userToGateway[u] # None \/ OpenAt(g, u) = {})
===============================================================================
