--------------------------- MODULE PushRoutesProofs ---------------------------
(***************************************************************************)
(* The way down, for any gateways, users, sessions and streams, and any    *)
(* number of breaks and restarts.                                          *)
(***************************************************************************)
EXTENDS PushRoutes, TLAPS, FiniteSetTheorems

Told(op, u) == [op |-> op, uid |-> u]
Has(c, e) == \E i \in DOMAIN c : c[i] = e

\* What the registry has of streams: the stream of a gateway has a handler, which
\* knows the gateway; the handler of a broken stream is one of a gateway that was
\* cut off, and a LogicClient reads from the only stream that is up.
StreamAt(g, k) ==
  /\ gateways[g] = k => <<g, k>> \in greeted
  /\ stream[g][k] = "free" => chan[g][k] = <<>> /\ <<g, k>> \notin greeted
  /\ stream[g][k] = "up" => link[g] = k
  /\ stream[g][k] = "broken" => g \in cut

Streams == \A g \in Gateways, k \in Slots : StreamAt(g, k)

\* hello comes before the events of a stream.
HelloFirst ==
  \A g \in Gateways, k \in Slots : <<g, k>> \notin greeted =>
    /\ stream[g][k] = "up" => chan[g][k] # <<>>
    /\ chan[g][k] # <<>> => chan[g][k][1] = [op |-> "hello"]

\* A session that a push is owed to is open, and one of the user's.
OwedOpen == \A m \in Msgs : \A s \in owed[m] : sess[s] = "open" /\ UidOf[s] = Target[m]

\* Users are routed to gateways that a handler knows.
RoutesKnown ==
  \A u \in Users : userToGateway[u] # None =>
    \E k \in Slots : <<userToGateway[u], k>> \in greeted

\* A conn_close is about a session that was closed.
CloseIsTrue ==
  \A g \in Gateways, u \in Users : Pending(g, u, "close") =>
    \E s \in Sessions : GatewayOf[s] = g /\ UidOf[s] = u /\ sess[s] = "closed"

\* After every conn_open of u in a queue there is a conn_close.
Follows(c, u) ==
  \A i \in DOMAIN c : c[i] = Told("open", u) => \E j \in DOMAIN c : j > i /\ c[j] = Told("close", u)

\* A conn_open of a user who has left is followed by his conn_close, as long as
\* the stream is up.
CloseFollows ==
  \A g \in Gateways, u \in Users : OpenAt(g, u) = {} =>
    /\ Follows(eventQueue[g], u)
    /\ \A k \in Slots : stream[g][k] = "up" =>
         Follows(chan[g][k], u) \/ Has(eventQueue[g], Told("close", u))

Inv ==
  /\ TypeOK /\ Streams /\ HelloFirst /\ OwedOpen /\ EveryDeviceGets
  /\ RoutesKnown /\ CloseIsTrue /\ CloseFollows /\ StaleRouteExcused /\ LastGatewayWins

-------------------------------------------------------------------------------
(* Queues of events.                                                       *)

\* What is behind the head moves forward by one.
LEMMA TailIndex ==
  ASSUME NEW c \in Seq(Event), c # <<>>
  PROVE  /\ Tail(c) \in Seq(Event) /\ Head(c) \in Event
         /\ 1 \in DOMAIN c /\ Head(c) = c[1]
         /\ \A i \in DOMAIN Tail(c) : i \in Nat /\ i + 1 \in DOMAIN c /\ Tail(c)[i] = c[i + 1]
         /\ \A i \in DOMAIN c : i \in Nat /\ (i # 1 => i - 1 \in DOMAIN Tail(c) /\ Tail(c)[i - 1] = c[i])
  OBVIOUS

\* What is appended comes last, and the rest stays where it is.
LEMMA AppendIndex ==
  ASSUME NEW c \in Seq(Event), NEW e \in Event
  PROVE  /\ Append(c, e) \in Seq(Event)
         /\ DOMAIN Append(c, e) = DOMAIN c \cup {Len(c) + 1}
         /\ Append(c, e)[Len(c) + 1] = e /\ Len(c) + 1 \in Nat
         /\ \A i \in DOMAIN c : i \in Nat /\ i < Len(c) + 1 /\ Append(c, e)[i] = c[i]
  OBVIOUS

\* The beginning that a server still reads of a broken stream.
LEMMA FirstOfIndex ==
  ASSUME NEW c \in Seq(Event), NEW n \in Nat
  PROVE  /\ FirstOf(c, n) \in Seq(Event)
         /\ FirstOf(c, n) # <<>> => c # <<>> /\ FirstOf(c, n)[1] = c[1]
         /\ \A i \in DOMAIN FirstOf(c, n) : i \in DOMAIN c /\ FirstOf(c, n)[i] = c[i]
  BY DEF FirstOf

\* An event is a greeting, or about a user.
LEMMA EventKinds ==
  /\ [op |-> "hello"] \in Event
  /\ \A u \in Users, o \in {"open", "close"} : Told(o, u) \in Event /\ Told(o, u) # [op |-> "hello"]
  /\ \A u, v \in Users : Told("open", u) # Told("close", v)
  /\ \A u, v \in Users, o \in {"open", "close"} : Told(o, u) = Told(o, v) => u = v
  /\ \A e \in Event : e.op = "hello" => e = [op |-> "hello"]
  /\ \A e \in Event, o \in {"open", "close"} : e.op = o => e.uid \in Users /\ e = Told(o, e.uid)
  BY DEF Event, Told

-------------------------------------------------------------------------------
(* What the actions do to the streams and their queues.                    *)

\* A handler takes the head of its stream's queue.
LEMMA HandleTakes ==
  ASSUME TypeOK, NEW g \in Gateways, NEW k \in Slots, HandleEvent(g, k)
  PROVE  /\ chan[g][k] \in Seq(Event) /\ chan[g][k] # <<>>
         /\ chan' \in [Gateways -> [Slots -> Seq(Event)]]
         /\ \A h \in Gateways, j \in Slots :
              chan'[h][j] = IF h = g /\ j = k THEN Tail(chan[g][k]) ELSE chan[h][j]
  <1>1. chan[g][k] \in Seq(Event) /\ chan[g][k] # <<>>
    BY DEF TypeOK, HandleEvent
  <1>2. Tail(chan[g][k]) \in Seq(Event)
    BY <1>1, TailIndex
  <1> QED
    BY <1>1, <1>2 DEF TypeOK, HandleEvent

\* A new stream holds hello.
LEMMA ConnectGreets ==
  ASSUME TypeOK, NEW g \in Gateways, Connect(g)
  PROVE  \E k \in Slots :
           /\ link[g] = None /\ stream[g][k] = "free" /\ link' = [link EXCEPT ![g] = k]
           /\ chan' \in [Gateways -> [Slots -> Seq(Event)]]
           /\ stream' \in [Gateways -> [Slots -> {"free", "up", "broken"}]]
           /\ \A h \in Gateways, j \in Slots :
                /\ chan'[h][j] = IF h = g /\ j = k THEN <<[op |-> "hello"]>> ELSE chan[h][j]
                /\ stream'[h][j] = IF h = g /\ j = k THEN "up" ELSE stream[h][j]
  <1>1. PICK k \in Slots :
          /\ stream[g][k] = "free"
          /\ link' = [link EXCEPT ![g] = k]
          /\ stream' = [stream EXCEPT ![g][k] = "up"]
          /\ chan' = [chan EXCEPT ![g][k] = <<[op |-> "hello"]>>]
    BY DEF Connect
  <1>2. <<[op |-> "hello"]>> \in Seq(Event)
    BY EventKinds
  <1>3. link[g] = None
    BY DEF Connect
  <1>4. /\ chan' \in [Gateways -> [Slots -> Seq(Event)]]
        /\ \A h \in Gateways, j \in Slots :
             chan'[h][j] = IF h = g /\ j = k THEN <<[op |-> "hello"]>> ELSE chan[h][j]
    BY <1>1, <1>2 DEF TypeOK
  <1>5. /\ stream' \in [Gateways -> [Slots -> {"free", "up", "broken"}]]
        /\ \A h \in Gateways, j \in Slots :
             stream'[h][j] = IF h = g /\ j = k THEN "up" ELSE stream[h][j]
    BY <1>1 DEF TypeOK
  <1>6. \A h \in Gateways, j \in Slots :
          /\ chan'[h][j] = IF h = g /\ j = k THEN <<[op |-> "hello"]>> ELSE chan[h][j]
          /\ stream'[h][j] = IF h = g /\ j = k THEN "up" ELSE stream[h][j]
    BY <1>4, <1>5
  <1> WITNESS k \in Slots
  <1> QED
    BY <1>1, <1>3, <1>4, <1>5, <1>6

\* An event that the writer pops goes on the stream, or is lost with it.
LEMMA WriteMoves ==
  ASSUME TypeOK, NEW g \in Gateways, Write(g)
  PROVE  /\ link[g] \in Slots /\ eventQueue[g] \in Seq(Event) /\ eventQueue[g] # <<>>
         /\ eventQueue' \in [Gateways -> Seq(Event)]
         /\ chan' \in [Gateways -> [Slots -> Seq(Event)]]
         /\ \A h \in Gateways : eventQueue'[h] = IF h = g THEN Tail(eventQueue[g]) ELSE eventQueue[h]
         /\ \A h \in Gateways, j \in Slots :
              chan'[h][j] = IF h = g /\ j = link[g] /\ stream[g][j] = "up"
                            THEN Append(chan[h][j], Head(eventQueue[g])) ELSE chan[h][j]
  <1>1. link[g] \in Slots /\ eventQueue[g] \in Seq(Event) /\ eventQueue[g] # <<>>
    BY DEF TypeOK, Write
  <1>2. Tail(eventQueue[g]) \in Seq(Event) /\ Head(eventQueue[g]) \in Event
    BY <1>1, TailIndex
  <1>3. chan[g][link[g]] \in Seq(Event)
    BY <1>1 DEF TypeOK
  <1>4. Append(chan[g][link[g]], Head(eventQueue[g])) \in Seq(Event)
    BY <1>2, <1>3, AppendIndex
  <1>5. /\ eventQueue' \in [Gateways -> Seq(Event)]
        /\ \A h \in Gateways : eventQueue'[h] = IF h = g THEN Tail(eventQueue[g]) ELSE eventQueue[h]
    BY <1>1, <1>2 DEF TypeOK, Write
  <1>6. CASE stream[g][link[g]] = "up"
    <2>1. chan' = [chan EXCEPT ![g][link[g]] = Append(@, Head(eventQueue[g]))]
      BY <1>6 DEF Write
    <2> QED
      BY <1>1, <1>4, <1>5, <1>6, <2>1 DEF TypeOK
  <1>7. CASE stream[g][link[g]] # "up"
    <2>1. chan' = chan
      BY <1>7 DEF Write
    <2> QED
      BY <1>1, <1>5, <1>7, <2>1 DEF TypeOK
  <1> QED
    BY <1>6, <1>7

\* A session's event comes last in the queue of its gateway.
LEMMA EnqueueAppends ==
  ASSUME TypeOK, NEW s \in Sessions, NEW o \in {"open", "close"}, enqueue(s, o)
  PROVE  /\ GatewayOf[s] \in Gateways /\ UidOf[s] \in Users
         /\ eventQueue' \in [Gateways -> Seq(Event)]
         /\ \A h \in Gateways :
              eventQueue'[h] = IF h = GatewayOf[s] THEN Append(eventQueue[h], Told(o, UidOf[s]))
                                                   ELSE eventQueue[h]
  <1>1. GatewayOf[s] \in Gateways /\ UidOf[s] \in Users
    BY RoutesAssumption DEF RoutesAssumption
  <1>2. Told(o, UidOf[s]) \in Event
    BY <1>1, EventKinds
  <1>3. Append(eventQueue[GatewayOf[s]], Told(o, UidOf[s])) \in Seq(Event)
    BY <1>1, <1>2, AppendIndex DEF TypeOK
  <1>4. eventQueue' = [eventQueue EXCEPT ![GatewayOf[s]] = Append(@, Told(o, UidOf[s]))]
    BY DEF enqueue, Told
  <1> QED
    BY <1>1, <1>3, <1>4 DEF TypeOK

\* A break leaves a beginning of what was on its way up, and nothing of what was
\* on its way down.
LEMMA BrokenCuts ==
  ASSUME TypeOK, NEW G \in SUBSET Gateways, Broken(G)
  PROVE  /\ chan' \in [Gateways -> [Slots -> Seq(Event)]]
         /\ stream' \in [Gateways -> [Slots -> {"free", "up", "broken"}]]
         /\ pushes' \in [Gateways -> [Slots -> SUBSET Msgs]]
         /\ owed' \in [Msgs -> SUBSET Sessions]
         /\ cut' = cut \cup G
         /\ \A h \in Gateways, j \in Slots :
              /\ stream'[h][j] = IF h \in G /\ stream[h][j] = "up" THEN "broken" ELSE stream[h][j]
              /\ chan'[h][j] # <<>> => chan[h][j] # <<>> /\ chan'[h][j][1] = chan[h][j][1]
              /\ \A i \in DOMAIN chan'[h][j] : i \in DOMAIN chan[h][j] /\ chan'[h][j][i] = chan[h][j][i]
              /\ h \notin G => chan'[h][j] = chan[h][j] /\ pushes'[h][j] = pushes[h][j]
              /\ stream[h][j] # "up" => chan'[h][j] = chan[h][j]
         /\ \A m \in Msgs : owed'[m] \subseteq owed[m] /\ \A s \in owed'[m] : GatewayOf[s] \notin G
  <1>1. PICK i \in 0..(2 * Cardinality(Sessions) + 1) :
          chan' = [g \in Gateways |-> [k \in Slots |->
                    IF g \in G /\ stream[g][k] = "up" THEN FirstOf(chan[g][k], i) ELSE chan[g][k]]]
    BY DEF Broken
  <1>2. i \in Nat
    BY RoutesAssumption, FS_CardinalityType DEF RoutesAssumption
  <1>3. \A h \in Gateways, j \in Slots :
          chan[h][j] \in Seq(Event)
    BY DEF TypeOK
  <1>4. \A h \in Gateways, j \in Slots :
          /\ FirstOf(chan[h][j], i) \in Seq(Event)
          /\ FirstOf(chan[h][j], i) # <<>> =>
               chan[h][j] # <<>> /\ FirstOf(chan[h][j], i)[1] = chan[h][j][1]
          /\ \A n \in DOMAIN FirstOf(chan[h][j], i) :
               n \in DOMAIN chan[h][j] /\ FirstOf(chan[h][j], i)[n] = chan[h][j][n]
    BY <1>2, <1>3, FirstOfIndex
  <1>5. \A h \in Gateways, j \in Slots :
          chan'[h][j] = IF h \in G /\ stream[h][j] = "up" THEN FirstOf(chan[h][j], i) ELSE chan[h][j]
    BY <1>1
  <1>6. chan' \in [Gateways -> [Slots -> Seq(Event)]]
    BY <1>1, <1>3, <1>4
  <1>7. \A h \in Gateways, j \in Slots :
          /\ chan'[h][j] # <<>> => chan[h][j] # <<>> /\ chan'[h][j][1] = chan[h][j][1]
          /\ \A n \in DOMAIN chan'[h][j] : n \in DOMAIN chan[h][j] /\ chan'[h][j][n] = chan[h][j][n]
          /\ h \notin G => chan'[h][j] = chan[h][j]
          /\ stream[h][j] # "up" => chan'[h][j] = chan[h][j]
    <2> TAKE h \in Gateways, j \in Slots
    <2>1. CASE h \in G /\ stream[h][j] = "up"
      BY <1>4, <1>5, <2>1
    <2>2. CASE ~(h \in G /\ stream[h][j] = "up")
      BY <1>5, <2>2
    <2> QED
      BY <2>1, <2>2
  <1>8. /\ pushes' \in [Gateways -> [Slots -> SUBSET Msgs]]
        /\ \A h \in Gateways, j \in Slots : h \notin G => pushes'[h][j] = pushes[h][j]
    BY DEF TypeOK, Broken
  <1>9. /\ stream' \in [Gateways -> [Slots -> {"free", "up", "broken"}]]
        /\ \A h \in Gateways, j \in Slots :
             stream'[h][j] = IF h \in G /\ stream[h][j] = "up" THEN "broken" ELSE stream[h][j]
    BY DEF TypeOK, Broken
  <1>10. /\ owed' \in [Msgs -> SUBSET Sessions]
         /\ \A m \in Msgs : owed'[m] \subseteq owed[m] /\ \A s \in owed'[m] : GatewayOf[s] \notin G
    BY DEF TypeOK, Broken
  <1> QED
    BY <1>6, <1>7, <1>8, <1>9, <1>10 DEF Broken

\* A push goes to the stream of the gateway that the user is routed to.
LEMMA PushWrites ==
  ASSUME TypeOK, NEW m \in Msgs, Push(m)
  PROVE  \E g \in Gateways, k \in Slots :
           /\ pushes' \in [Gateways -> [Slots -> SUBSET Msgs]]
           /\ \A h \in Gateways, j \in Slots :
                pushes'[h][j] = IF h = g /\ j = k THEN pushes[h][j] \cup {m} ELSE pushes[h][j]
           /\ owed' \in [Msgs -> SUBSET Sessions]
           /\ owed' = [owed EXCEPT ![m] = OpenAt(g, Target[m])]
  <1>1. Target[m] \in Users
    BY RoutesAssumption DEF RoutesAssumption
  <1>2. PICK g : g = userToGateway[Target[m]]
    OBVIOUS
  <1>3. g # None
    BY <1>2 DEF Push
  <1>4. g \in Gateways
    BY <1>1, <1>2, <1>3 DEF TypeOK
  <1>5. gateways[g] # None
    BY <1>2, <1>3 DEF Push
  <1>6. PICK k \in Slots : k = gateways[g]
    BY <1>4, <1>5 DEF TypeOK
  <1>7. /\ pushes' = [pushes EXCEPT ![g][k] = @ \cup {m}]
        /\ owed' = [owed EXCEPT ![m] = OpenAt(g, Target[m])]
    BY <1>2, <1>3, <1>6 DEF Push
  <1>8. OpenAt(g, Target[m]) \in SUBSET Sessions
    BY DEF OpenAt
  <1>9. pushes[g][k] \cup {m} \in SUBSET Msgs
    BY <1>4 DEF TypeOK
  <1>10. /\ pushes' \in [Gateways -> [Slots -> SUBSET Msgs]]
         /\ \A h \in Gateways, j \in Slots :
              pushes'[h][j] = IF h = g /\ j = k THEN pushes[h][j] \cup {m} ELSE pushes[h][j]
    BY <1>4, <1>7, <1>9 DEF TypeOK
  <1>11. owed' \in [Msgs -> SUBSET Sessions]
    BY <1>7, <1>8 DEF TypeOK
  <1> WITNESS g \in Gateways, k \in Slots
  <1> QED
    BY <1>7, <1>10, <1>11

-------------------------------------------------------------------------------
(* Types.                                                                  *)

\* Every action keeps the variables in their types.
LEMMA NextTypeOK == TypeOK /\ [Next]_vars => TypeOK'
  <1> SUFFICES ASSUME TypeOK, [Next]_vars PROVE TypeOK'
    OBVIOUS
  <1>1. ASSUME NEW s \in Sessions, Connected(s) PROVE TypeOK'
    BY <1>1, EnqueueAppends DEF Connected, TypeOK, linkVars, regVars
  <1>2. ASSUME NEW s \in Sessions, Closing(s) PROVE TypeOK'
    BY <1>2, EnqueueAppends DEF Closing, TypeOK, linkVars, regVars
  <1>3. ASSUME NEW g \in Gateways, NEW k \in Slots, HandleEvent(g, k) PROVE TypeOK'
    <2>1. Head(chan[g][k]) \in Event /\ chan' \in [Gateways -> [Slots -> Seq(Event)]]
      BY <1>3, HandleTakes, TailIndex
    <2> DEFINE e == Head(chan[g][k])
    <2>2. CASE e.op = "hello" /\ registerGateway(g, k) /\ greeted' = greeted \cup {<<g, k>>}
               /\ UNCHANGED <<userToGateway, last>>
      BY <1>3, <2>1, <2>2 DEF HandleEvent, registerGateway, TypeOK
    <2>3. CASE e.op = "open" /\ onUserOpen(e.uid, g) /\ last' = [last EXCEPT ![e.uid] = g]
               /\ UNCHANGED <<gateways, greeted>>
      BY <1>3, <2>1, <2>3, EventKinds DEF HandleEvent, onUserOpen, TypeOK
    <2>4. CASE e.op = "close" /\ onUserClose(e.uid, g) /\ UNCHANGED <<gateways, last, greeted>>
      BY <1>3, <2>1, <2>4, EventKinds DEF HandleEvent, onUserClose, TypeOK
    <2> QED
      BY <1>3, <2>2, <2>3, <2>4 DEF HandleEvent
  <1>4. ASSUME NEW g \in Gateways, NEW k \in Slots, StreamGone(g, k) PROVE TypeOK'
    BY <1>4 DEF StreamGone, deregisterGateway, TypeOK
  <1>5. ASSUME NEW m \in Msgs, Push(m) PROVE TypeOK'
    <2>1. PICK g \in Gateways, k \in Slots :
            pushes' \in [Gateways -> [Slots -> SUBSET Msgs]] /\ owed' \in [Msgs -> SUBSET Sessions]
      BY <1>5, PushWrites
    <2>2. UNCHANGED <<sess, eventQueue, faults, cut, link, stream, greeted, chan, regVars>>
      BY <1>5 DEF Push
    <2> QED
      BY <2>1, <2>2 DEF TypeOK, regVars
  <1>6. ASSUME NEW g \in Gateways, NEW m \in Msgs, ReadPush(g, m) PROVE TypeOK'
    BY <1>6 DEF ReadPush, TypeOK, regVars
  <1>7. ASSUME NEW g \in Gateways, Connect(g) PROVE TypeOK'
    <2>1. PICK k \in Slots :
            /\ link' = [link EXCEPT ![g] = k]
            /\ chan' \in [Gateways -> [Slots -> Seq(Event)]]
            /\ stream' \in [Gateways -> [Slots -> {"free", "up", "broken"}]]
      BY <1>7, ConnectGreets
    <2>2. UNCHANGED <<sess, eventQueue, faults, owed, cut, greeted, pushes, regVars>>
      BY <1>7 DEF Connect
    <2> QED
      BY <2>1, <2>2 DEF TypeOK, regVars
  <1>8. ASSUME NEW g \in Gateways, Write(g) PROVE TypeOK'
    BY <1>8, WriteMoves DEF Write, TypeOK, regVars
  <1>9. ASSUME NEW g \in Gateways, ReadEnds(g) PROVE TypeOK'
    BY <1>9 DEF ReadEnds, TypeOK, regVars
  <1>10. ASSUME Fault PROVE faults' \in 0..MaxFaults
    BY <1>10, RoutesAssumption DEF Fault, RoutesAssumption, TypeOK
  <1>11. ASSUME NEW g \in Gateways, Break(g) PROVE TypeOK'
    BY <1>10, <1>11, BrokenCuts, SMTT(60) DEF Break, TypeOK, regVars
  <1>12. ASSUME NEW g \in Gateways, GatewayRestarts(g) PROVE TypeOK'
    <2>1. <<>> \in Seq(Event)
      OBVIOUS
    <2> QED
      BY <1>10, <1>12, <2>1, BrokenCuts DEF GatewayRestarts, TypeOK, regVars
  <1>13. ASSUME LogicRestarts PROVE TypeOK'
    BY <1>10, <1>13 DEF LogicRestarts, TypeOK
  <1>14. ASSUME UNCHANGED vars PROVE TypeOK'
    BY <1>14 DEF TypeOK, vars, linkVars, regVars
  <1> QED
    BY <1>1, <1>2, <1>3, <1>4, <1>5, <1>6, <1>7, <1>8, <1>9, <1>11, <1>12, <1>13, <1>14 DEF Next

\* Everything is new and nothing is connected at first.
LEMMA InitInv == Init => Inv
  <1> SUFFICES ASSUME Init PROVE Inv
    OBVIOUS
  <1>1. TypeOK
    <2>1. <<>> \in Seq(Event)
      OBVIOUS
    <2> QED
      BY <2>1, RoutesAssumption DEF Init, TypeOK, RoutesAssumption
  <1>2. Streams /\ HelloFirst
    BY RoutesAssumption DEF Init, Streams, StreamAt, HelloFirst, RoutesAssumption
  <1>3. OwedOpen /\ EveryDeviceGets /\ RoutesKnown /\ StaleRouteExcused /\ LastGatewayWins
    BY DEF Init, OwedOpen, EveryDeviceGets, RoutesKnown, StaleRouteExcused, LastGatewayWins
  <1>4. CloseIsTrue /\ CloseFollows
    BY DEF Init, CloseIsTrue, CloseFollows, Pending, Follows
  <1> QED
    BY <1>1, <1>2, <1>3, <1>4 DEF Inv

-------------------------------------------------------------------------------
(* Streams and their greetings.                                            *)

\* A handler that reads anything but hello knows its gateway already.
LEMMA ReadsAfterHello ==
  ASSUME TypeOK, Streams, HelloFirst,
         NEW g \in Gateways, NEW k \in Slots, HandleEvent(g, k)
  PROVE  /\ stream[g][k] # "free"
         /\ <<g, k>> \in greeted'
         /\ greeted' = greeted \cup {<<g, k>>}
         /\ Head(chan[g][k]).op # "hello" => <<g, k>> \in greeted
  <1>1. chan[g][k] \in Seq(Event) /\ chan[g][k] # <<>>
    BY HandleTakes
  <1>2. Head(chan[g][k]) = chan[g][k][1]
    BY <1>1, TailIndex
  <1>3. stream[g][k] # "free"
    BY <1>1 DEF Streams, StreamAt
  <1>4. <<g, k>> \in greeted \/ Head(chan[g][k]) = [op |-> "hello"]
    BY <1>1, <1>2 DEF HelloFirst
  <1>5. <<g, k>> \in greeted \/ Head(chan[g][k]).op = "hello"
    BY <1>4
  <1> QED
    BY <1>3, <1>5 DEF HandleEvent

\* The registry and the clients follow the streams.
LEMMA StreamsNext == Inv /\ [Next]_vars => Streams'
  <1> SUFFICES ASSUME Inv, [Next]_vars PROVE Streams'
    OBVIOUS
  <1>0. TypeOK /\ Streams /\ HelloFirst
    BY DEF Inv
  <1>1. ASSUME UNCHANGED <<stream, greeted, chan, link, gateways, cut>> PROVE Streams'
    BY <1>0, <1>1 DEF Streams, StreamAt
  <1>2. ASSUME NEW s \in Sessions, Connected(s) \/ Closing(s) PROVE Streams'
    BY <1>1, <1>2 DEF Connected, Closing, linkVars, regVars
  <1>3. ASSUME NEW m \in Msgs, Push(m) \/ \E g \in Gateways : ReadPush(g, m) PROVE Streams'
    BY <1>1, <1>3 DEF Push, ReadPush, regVars
  <1>4. ASSUME NEW g \in Gateways, NEW k \in Slots, HandleEvent(g, k) PROVE Streams'
    <2>1. \A h \in Gateways, j \in Slots :
            chan'[h][j] = IF h = g /\ j = k THEN Tail(chan[g][k]) ELSE chan[h][j]
      BY <1>0, <1>4, HandleTakes
    <2>2. stream[g][k] # "free" /\ greeted' = greeted \cup {<<g, k>>}
      BY <1>0, <1>4, ReadsAfterHello
    <2>3. UNCHANGED <<stream, link, cut>>
      BY <1>4 DEF HandleEvent
    <2>4. \A h \in Gateways, j \in Slots : gateways'[h] = j => gateways[h] = j \/ (h = g /\ j = k)
      BY <1>0, <1>4 DEF HandleEvent, registerGateway, TypeOK
    <2>5. \A h \in Gateways, j \in Slots :
            <<h, j>> \in greeted' <=> <<h, j>> \in greeted \/ (h = g /\ j = k)
      BY <2>2
    <2> SUFFICES ASSUME NEW h \in Gateways, NEW j \in Slots PROVE StreamAt(h, j)'
      BY DEF Streams
    <2>6. StreamAt(h, j)
      BY <1>0 DEF Streams
    <2>7. CASE h = g /\ j = k
      BY <2>2, <2>3, <2>5, <2>6, <2>7 DEF StreamAt
    <2>8. CASE ~(h = g /\ j = k)
      BY <2>1, <2>3, <2>4, <2>5, <2>6, <2>8 DEF StreamAt
    <2> QED
      BY <2>7, <2>8
  <1>5. ASSUME NEW g \in Gateways, NEW k \in Slots, StreamGone(g, k) PROVE Streams'
    <2>1. \A h \in Gateways, j \in Slots :
            stream'[h][j] = IF h = g /\ j = k THEN "free" ELSE stream[h][j]
      BY <1>0, <1>5 DEF StreamGone, TypeOK
    <2>2. chan[g][k] = <<>> /\ greeted' = greeted \ {<<g, k>>} /\ UNCHANGED <<chan, link, cut>>
      BY <1>5 DEF StreamGone
    <2>3. \A h \in Gateways : gateways'[h] = IF h = g /\ <<g, k>> \in greeted THEN None ELSE gateways[h]
      BY <1>0, <1>5 DEF StreamGone, deregisterGateway, TypeOK
    <2>4. \A h \in Gateways, j \in Slots :
            <<h, j>> \in greeted' <=> <<h, j>> \in greeted /\ ~(h = g /\ j = k)
      BY <2>2
    <2>5. None \notin Slots
      BY RoutesAssumption DEF RoutesAssumption
    <2> SUFFICES ASSUME NEW h \in Gateways, NEW j \in Slots PROVE StreamAt(h, j)'
      BY DEF Streams
    <2>6. StreamAt(h, j)
      BY <1>0 DEF Streams
    <2>7. CASE h = g /\ j = k
      <3>1. gateways'[g] # k
        BY <2>3, <2>5, <2>6, <2>7 DEF StreamAt
      <3> QED
        BY <2>1, <2>2, <2>4, <2>7, <3>1 DEF StreamAt
    <2>8. CASE ~(h = g /\ j = k)
      <3>1. gateways'[h] = j => gateways[h] = j
        BY <2>3, <2>5
      <3> QED
        BY <2>1, <2>2, <2>4, <2>6, <2>8, <3>1 DEF StreamAt
    <2> QED
      BY <2>7, <2>8
  <1>6. ASSUME NEW g \in Gateways, Connect(g) PROVE Streams'
    <2>1. PICK k \in Slots :
            /\ link[g] = None /\ stream[g][k] = "free" /\ link' = [link EXCEPT ![g] = k]
            /\ chan' \in [Gateways -> [Slots -> Seq(Event)]]
            /\ stream' \in [Gateways -> [Slots -> {"free", "up", "broken"}]]
            /\ \A h \in Gateways, j \in Slots :
                 /\ chan'[h][j] = IF h = g /\ j = k THEN <<[op |-> "hello"]>> ELSE chan[h][j]
                 /\ stream'[h][j] = IF h = g /\ j = k THEN "up" ELSE stream[h][j]
      BY <1>0, <1>6, ConnectGreets, ZenonT(60)
    <2>2. \A h \in Gateways : link'[h] = IF h = g THEN k ELSE link[h]
      BY <1>0, <2>1 DEF TypeOK
    <2>3. UNCHANGED <<greeted, gateways, cut>>
      BY <1>6 DEF Connect, regVars
    <2>4. \A j \in Slots : stream[g][j] # "up"
      BY <1>0, <2>1, RoutesAssumption DEF Streams, StreamAt, RoutesAssumption
    <2> SUFFICES ASSUME NEW h \in Gateways, NEW j \in Slots PROVE StreamAt(h, j)'
      BY DEF Streams
    <2>5. StreamAt(h, j)
      BY <1>0 DEF Streams
    <2>6. <<g, k>> \notin greeted
      BY <1>0, <2>1 DEF Streams, StreamAt
    <2>7. CASE h = g /\ j = k
      BY <2>1, <2>2, <2>3, <2>5, <2>6, <2>7 DEF StreamAt
    <2>8. CASE ~(h = g /\ j = k)
      <3>1. chan'[h][j] = chan[h][j] /\ stream'[h][j] = stream[h][j]
        BY <2>1, <2>8
      <3>2. stream[h][j] = "up" => h # g
        BY <2>4
      <3> QED
        BY <2>2, <2>3, <2>5, <3>1, <3>2 DEF StreamAt
    <2> QED
      BY <2>7, <2>8
  <1>7. ASSUME NEW g \in Gateways, Write(g) PROVE Streams'
    <2>1. \A h \in Gateways, j \in Slots : stream[h][j] = "free" => chan'[h][j] = chan[h][j]
      BY <1>0, <1>7, WriteMoves
    <2>2. UNCHANGED <<stream, link, greeted, gateways, cut>>
      BY <1>7 DEF Write, regVars
    <2> QED
      BY <1>0, <2>1, <2>2, ZenonT(60) DEF Streams, StreamAt
  <1>8. ASSUME NEW g \in Gateways, ReadEnds(g) PROVE Streams'
    <2>1. \A h \in Gateways : link'[h] = IF h = g THEN None ELSE link[h]
      BY <1>0, <1>8 DEF ReadEnds, TypeOK
    <2>2. UNCHANGED <<stream, chan, greeted, gateways, cut>>
      BY <1>8 DEF ReadEnds, regVars
    <2>3. \A j \in Slots : stream[g][j] # "up"
      BY <1>0, <1>8 DEF ReadEnds, Streams, StreamAt
    <2> QED
      BY <1>0, <2>1, <2>2, <2>3 DEF Streams, StreamAt
  <1>9. ASSUME NEW g \in Gateways, Break(g) \/ GatewayRestarts(g) PROVE Streams'
    <2>1. /\ cut' = cut \cup {g}
          /\ \A h \in Gateways, j \in Slots :
               /\ stream'[h][j] = IF h \in {g} /\ stream[h][j] = "up" THEN "broken" ELSE stream[h][j]
               /\ stream[h][j] # "up" => chan'[h][j] = chan[h][j]
      BY <1>0, <1>9, BrokenCuts DEF Break, GatewayRestarts
    <2>2. UNCHANGED <<greeted, gateways>> /\ \A h \in Gateways : h # g => link'[h] = link[h]
      BY <1>0, <1>9 DEF Break, GatewayRestarts, regVars, TypeOK
    <2> SUFFICES ASSUME NEW h \in Gateways, NEW j \in Slots PROVE StreamAt(h, j)'
      BY DEF Streams
    <2>3. StreamAt(h, j)
      BY <1>0 DEF Streams
    <2>4. stream'[h][j] = "free" => chan'[h][j] = chan[h][j]
      BY <2>1
    <2>5. stream'[h][j] = "up" => h # g /\ stream[h][j] = "up"
      BY <2>1
    <2>6. stream'[h][j] = "broken" => h \in cut'
      BY <2>1, <2>3 DEF StreamAt
    <2>7. stream'[h][j] = "free" => stream[h][j] = "free"
      BY <2>1
    <2> QED
      BY <2>2, <2>3, <2>4, <2>5, <2>6, <2>7 DEF StreamAt
  <1>10. ASSUME LogicRestarts PROVE Streams'
    BY <1>10, RoutesAssumption DEF LogicRestarts, Streams, StreamAt, RoutesAssumption
  <1>11. ASSUME UNCHANGED vars PROVE Streams'
    BY <1>1, <1>11 DEF vars, linkVars, regVars
  <1> QED
    BY <1>2, <1>3, <1>4, <1>5, <1>6, <1>7, <1>8, <1>9, <1>10, <1>11 DEF Next

\* A stream whose handler does not know its gateway still has hello in front.
LEMMA HelloFirstNext == Inv /\ [Next]_vars => HelloFirst'
  <1> SUFFICES ASSUME Inv, [Next]_vars PROVE HelloFirst'
    OBVIOUS
  <1>0. TypeOK /\ Streams /\ HelloFirst
    BY DEF Inv
  <1>1. ASSUME UNCHANGED <<stream, greeted, chan>> PROVE HelloFirst'
    BY <1>0, <1>1 DEF HelloFirst
  <1>2. ASSUME NEW s \in Sessions, Connected(s) \/ Closing(s) PROVE HelloFirst'
    BY <1>1, <1>2 DEF Connected, Closing, linkVars
  <1>3. ASSUME NEW m \in Msgs, Push(m) \/ \E g \in Gateways : ReadPush(g, m) PROVE HelloFirst'
    BY <1>1, <1>3 DEF Push, ReadPush
  <1>4. ASSUME NEW g \in Gateways, NEW k \in Slots, HandleEvent(g, k) PROVE HelloFirst'
    <2>1. \A h \in Gateways, j \in Slots :
            chan'[h][j] = IF h = g /\ j = k THEN Tail(chan[g][k]) ELSE chan[h][j]
      BY <1>0, <1>4, HandleTakes
    <2>2. greeted' = greeted \cup {<<g, k>>}
      BY <1>0, <1>4, ReadsAfterHello
    <2>3. UNCHANGED stream
      BY <1>4 DEF HandleEvent
    <2> QED
      BY <1>0, <2>1, <2>2, <2>3 DEF HelloFirst
  <1>5. ASSUME NEW g \in Gateways, NEW k \in Slots, StreamGone(g, k) PROVE HelloFirst'
    <2>1. \A h \in Gateways, j \in Slots :
            stream'[h][j] = IF h = g /\ j = k THEN "free" ELSE stream[h][j]
      BY <1>0, <1>5 DEF StreamGone, TypeOK
    <2>2. chan[g][k] = <<>> /\ greeted' = greeted \ {<<g, k>>} /\ UNCHANGED chan
      BY <1>5 DEF StreamGone
    <2> QED
      BY <1>0, <2>1, <2>2 DEF HelloFirst
  <1>6. ASSUME NEW g \in Gateways, Connect(g) PROVE HelloFirst'
    <2>1. PICK k \in Slots : \A h \in Gateways, j \in Slots :
            /\ chan'[h][j] = IF h = g /\ j = k THEN <<[op |-> "hello"]>> ELSE chan[h][j]
            /\ stream'[h][j] = IF h = g /\ j = k THEN "up" ELSE stream[h][j]
      BY <1>0, <1>6, ConnectGreets
    <2>2. UNCHANGED greeted
      BY <1>6 DEF Connect
    <2>3. <<[op |-> "hello"]>> # <<>> /\ <<[op |-> "hello"]>>[1] = [op |-> "hello"]
      OBVIOUS
    <2> QED
      BY <1>0, <2>1, <2>2, <2>3 DEF HelloFirst
  <1>7. ASSUME NEW g \in Gateways, Write(g) PROVE HelloFirst'
    <2>1. UNCHANGED <<stream, greeted>>
      BY <1>7 DEF Write
    <2> SUFFICES ASSUME NEW h \in Gateways, NEW j \in Slots, <<h, j>> \notin greeted
                 PROVE  /\ stream[h][j] = "up" => chan'[h][j] # <<>>
                        /\ chan'[h][j] # <<>> => chan'[h][j][1] = [op |-> "hello"]
      BY <2>1 DEF HelloFirst
    <2>2. CASE chan'[h][j] = chan[h][j]
      BY <1>0, <2>2 DEF HelloFirst
    <2>3. CASE chan'[h][j] # chan[h][j]
      <3>0. /\ eventQueue[g] \in Seq(Event) /\ eventQueue[g] # <<>>
            /\ chan'[h][j] = IF h = g /\ j = link[g] /\ stream[g][j] = "up"
                             THEN Append(chan[h][j], Head(eventQueue[g])) ELSE chan[h][j]
        BY <1>0, <1>7, WriteMoves
      <3>1. /\ stream[h][j] = "up" /\ eventQueue[g] \in Seq(Event) /\ eventQueue[g] # <<>>
            /\ chan'[h][j] = Append(chan[h][j], Head(eventQueue[g]))
        BY <2>3, <3>0
      <3>2. chan[h][j] # <<>> /\ chan[h][j][1] = [op |-> "hello"] /\ chan[h][j] \in Seq(Event)
        BY <1>0, <3>1 DEF HelloFirst, TypeOK
      <3>3. Head(eventQueue[g]) \in Event /\ 1 \in DOMAIN chan[h][j]
        BY <3>1, <3>2, TailIndex
      <3>4. chan'[h][j][1] = chan[h][j][1] /\ 1 \in DOMAIN chan'[h][j]
        BY <3>1, <3>2, <3>3, AppendIndex
      <3> QED
        BY <3>2, <3>4
    <2> QED
      BY <2>2, <2>3
  <1>8. ASSUME NEW g \in Gateways, ReadEnds(g) PROVE HelloFirst'
    BY <1>1, <1>8 DEF ReadEnds
  <1>9. ASSUME NEW g \in Gateways, Break(g) \/ GatewayRestarts(g) PROVE HelloFirst'
    <2>1. \A h \in Gateways, j \in Slots :
            /\ stream'[h][j] = IF h \in {g} /\ stream[h][j] = "up" THEN "broken" ELSE stream[h][j]
            /\ chan'[h][j] # <<>> => chan[h][j] # <<>> /\ chan'[h][j][1] = chan[h][j][1]
            /\ h \notin {g} => chan'[h][j] = chan[h][j]
      BY <1>0, <1>9, BrokenCuts DEF Break, GatewayRestarts
    <2>2. UNCHANGED greeted
      BY <1>9 DEF Break, GatewayRestarts
    <2> QED
      BY <1>0, <2>1, <2>2 DEF HelloFirst
  <1>10. ASSUME LogicRestarts PROVE HelloFirst'
    BY <1>10 DEF LogicRestarts, HelloFirst
  <1>11. ASSUME UNCHANGED vars PROVE HelloFirst'
    BY <1>1, <1>11 DEF vars, linkVars
  <1> QED
    BY <1>2, <1>3, <1>4, <1>5, <1>6, <1>7, <1>8, <1>9, <1>10, <1>11 DEF Next

-------------------------------------------------------------------------------
(* Pushes.                                                                 *)

\* A session is owed a push only as long as it can get it.
LEMMA OwedNext == Inv /\ [Next]_vars => OwedOpen' /\ EveryDeviceGets'
  <1> SUFFICES ASSUME Inv, [Next]_vars PROVE OwedOpen' /\ EveryDeviceGets'
    OBVIOUS
  <1>0. TypeOK /\ OwedOpen /\ EveryDeviceGets
    BY DEF Inv
  <1>1. ASSUME UNCHANGED <<sess, owed, pushes>> PROVE OwedOpen' /\ EveryDeviceGets'
    BY <1>0, <1>1 DEF OwedOpen, EveryDeviceGets
  <1>2. ASSUME NEW s \in Sessions, Connected(s) PROVE OwedOpen' /\ EveryDeviceGets'
    <2>1. UNCHANGED <<owed, pushes>> /\ sess' = [sess EXCEPT ![s] = "open"]
      BY <1>2 DEF Connected, linkVars
    <2> QED
      BY <1>0, <2>1 DEF OwedOpen, EveryDeviceGets, TypeOK
  <1>3. ASSUME NEW s \in Sessions, Closing(s) PROVE OwedOpen' /\ EveryDeviceGets'
    <2>1. UNCHANGED pushes /\ sess' = [sess EXCEPT ![s] = "closed"] /\ owed' = [m \in Msgs |-> owed[m] \ {s}]
      BY <1>3 DEF Closing, linkVars
    <2> QED
      BY <1>0, <2>1 DEF OwedOpen, EveryDeviceGets, TypeOK
  <1>4. ASSUME NEW m \in Msgs, Push(m) PROVE OwedOpen' /\ EveryDeviceGets'
    <2>1. PICK g \in Gateways, k \in Slots :
            /\ pushes' \in [Gateways -> [Slots -> SUBSET Msgs]]
            /\ \A h \in Gateways, j \in Slots :
                 pushes'[h][j] = IF h = g /\ j = k THEN pushes[h][j] \cup {m} ELSE pushes[h][j]
            /\ owed' \in [Msgs -> SUBSET Sessions]
            /\ owed' = [owed EXCEPT ![m] = OpenAt(g, Target[m])]
      BY <1>0, <1>4, PushWrites, ZenonT(60)
    <2>2. UNCHANGED sess
      BY <1>4 DEF Push
    <2>3. \A n \in Msgs : owed'[n] = IF n = m THEN OpenAt(g, Target[m]) ELSE owed[n]
      BY <1>0, <2>1 DEF TypeOK
    <2>4. ASSUME NEW n \in Msgs, NEW s \in owed'[n] PROVE sess'[s] = "open" /\ UidOf[s] = Target[n]
      <3>1. CASE n = m
        BY <2>2, <2>3, <2>4, <3>1 DEF OpenAt
      <3>2. CASE n # m
        BY <1>0, <2>2, <2>3, <2>4, <3>2 DEF OwedOpen
      <3> QED
        BY <3>1, <3>2
    <2>5. ASSUME NEW n \in Msgs, NEW s \in owed'[n]
          PROVE  \E j \in Slots : n \in pushes'[GatewayOf[s]][j]
      <3>1. CASE n = m
        <4>1. GatewayOf[s] = g
          BY <2>3, <2>5, <3>1 DEF OpenAt
        <4> QED
          BY <2>1, <3>1, <4>1
      <3>2. CASE n # m
        <4>1. s \in owed[n] /\ s \in Sessions
          BY <1>0, <2>3, <2>5, <3>2 DEF TypeOK
        <4>2. GatewayOf[s] \in Gateways
          BY <4>1, RoutesAssumption DEF RoutesAssumption
        <4>3. PICK j \in Slots : n \in pushes[GatewayOf[s]][j]
          BY <1>0, <4>1 DEF EveryDeviceGets
        <4>4. n \in pushes'[GatewayOf[s]][j]
          BY <2>1, <4>2, <4>3
        <4> QED
          BY <4>4
      <3> QED
        BY <3>1, <3>2
    <2> QED
      BY <2>4, <2>5 DEF OwedOpen, EveryDeviceGets
  <1>5. ASSUME NEW g \in Gateways, NEW m \in Msgs, ReadPush(g, m) PROVE OwedOpen' /\ EveryDeviceGets'
    <2>1. UNCHANGED sess /\ \A n \in Msgs : owed'[n] = IF n = m THEN owed[m] \ OpenAt(g, Target[m]) ELSE owed[n]
      BY <1>0, <1>5 DEF ReadPush, sendToUser, TypeOK
    <2>2. \A h \in Gateways, j \in Slots, n \in Msgs :
            n \in pushes[h][j] /\ ~(n = m /\ h = g) => n \in pushes'[h][j]
      BY <1>0, <1>5 DEF ReadPush, TypeOK
    <2>3. OwedOpen'
      BY <1>0, <2>1 DEF OwedOpen
    <2>4. ASSUME NEW n \in Msgs, NEW s \in owed'[n]
          PROVE  \E j \in Slots : n \in pushes'[GatewayOf[s]][j]
      <3>1. s \in owed[n] /\ s \in Sessions
        BY <1>0, <2>1, <2>4 DEF TypeOK
      <3>2. GatewayOf[s] \in Gateways
        BY <3>1, RoutesAssumption DEF RoutesAssumption
      <3>3. ~(n = m /\ GatewayOf[s] = g)
        BY <1>0, <2>1, <2>4, <3>1 DEF OwedOpen, OpenAt
      <3> QED
        BY <1>0, <2>2, <3>1, <3>2, <3>3 DEF EveryDeviceGets
    <2> QED
      BY <2>3, <2>4 DEF EveryDeviceGets
  <1>6. ASSUME NEW g \in Gateways, Break(g) \/ GatewayRestarts(g) PROVE OwedOpen' /\ EveryDeviceGets'
    <2>1. /\ \A h \in Gateways, j \in Slots : h \notin {g} => pushes'[h][j] = pushes[h][j]
          /\ \A m \in Msgs : owed'[m] \subseteq owed[m] /\ \A s \in owed'[m] : GatewayOf[s] \notin {g}
      BY <1>0, <1>6, BrokenCuts DEF Break, GatewayRestarts
    <2>2. \A s \in Sessions : GatewayOf[s] # g => sess'[s] = sess[s]
      BY <1>0, <1>6 DEF Break, GatewayRestarts, TypeOK
    <2> SUFFICES ASSUME NEW m \in Msgs, NEW s \in owed'[m]
                 PROVE  /\ sess'[s] = "open" /\ UidOf[s] = Target[m]
                        /\ \E j \in Slots : m \in pushes'[GatewayOf[s]][j]
      BY DEF OwedOpen, EveryDeviceGets
    <2>3. s \in owed[m] /\ s \in Sessions /\ GatewayOf[s] # g
      BY <1>0, <2>1 DEF TypeOK
    <2>4. GatewayOf[s] \in Gateways
      BY <2>3, RoutesAssumption DEF RoutesAssumption
    <2> QED
      BY <1>0, <2>1, <2>2, <2>3, <2>4 DEF OwedOpen, EveryDeviceGets
  <1>7. ASSUME LogicRestarts PROVE OwedOpen' /\ EveryDeviceGets'
    BY <1>7 DEF LogicRestarts, OwedOpen, EveryDeviceGets
  <1>8. ASSUME NEW g \in Gateways, \/ \E k \in Slots : HandleEvent(g, k) \/ StreamGone(g, k)
                                   \/ Connect(g) \/ Write(g) \/ ReadEnds(g)
        PROVE OwedOpen' /\ EveryDeviceGets'
    BY <1>1, <1>8 DEF HandleEvent, StreamGone, Connect, Write, ReadEnds
  <1>9. ASSUME UNCHANGED vars PROVE OwedOpen' /\ EveryDeviceGets'
    BY <1>1, <1>9 DEF vars, linkVars
  <1> QED
    BY <1>2, <1>3, <1>4, <1>5, <1>6, <1>7, <1>8, <1>9 DEF Next

-------------------------------------------------------------------------------
(* Routes.                                                                 *)

\* What taking from a queue and adding to it do to the events that it has.
LEMMA HasTail ==
  ASSUME NEW c \in Seq(Event), c # <<>>, NEW e
  PROVE  /\ Has(Tail(c), e) => Has(c, e)
         /\ Has(c, e) => Has(Tail(c), e) \/ e = Head(c)
         /\ Has(c, Head(c))
  <1>1. Has(Tail(c), e) => Has(c, e)
    BY TailIndex DEF Has
  <1>2. ASSUME NEW i \in DOMAIN c, c[i] = e PROVE Has(Tail(c), e) \/ e = Head(c)
    <2>1. CASE i = 1
      BY <1>2, <2>1, TailIndex
    <2>2. CASE i # 1
      <3>1. i - 1 \in DOMAIN Tail(c) /\ Tail(c)[i - 1] = e
        BY <1>2, <2>2, TailIndex
      <3> QED
        BY <3>1 DEF Has
    <2> QED
      BY <2>1, <2>2
  <1>3. Has(c, Head(c))
    BY TailIndex DEF Has
  <1> QED
    BY <1>1, <1>2, <1>3 DEF Has

\* What is appended is there, and so is what was there before.
LEMMA HasAppend ==
  ASSUME NEW c \in Seq(Event), NEW x \in Event, NEW e
  PROVE  Has(Append(c, x), e) <=> Has(c, e) \/ e = x
  <1>1. ASSUME NEW i \in DOMAIN Append(c, x), Append(c, x)[i] = e PROVE Has(c, e) \/ e = x
    <2>1. CASE i \in DOMAIN c
      BY <1>1, <2>1, AppendIndex DEF Has
    <2>2. CASE i \notin DOMAIN c
      BY <1>1, <2>2, AppendIndex
    <2> QED
      BY <2>1, <2>2
  <1>2. ASSUME NEW i \in DOMAIN c, c[i] = e PROVE Has(Append(c, x), e)
    BY <1>2, AppendIndex DEF Has
  <1>3. ASSUME e = x PROVE Has(Append(c, x), e)
    BY <1>3, AppendIndex DEF Has
  <1> QED
    BY <1>1, <1>2, <1>3 DEF Has

\* The three kinds of events that a handler reads.
LEMMA HandleKinds ==
  ASSUME TypeOK, NEW g \in Gateways, NEW k \in Slots, HandleEvent(g, k)
  PROVE  \/ /\ Head(chan[g][k]) = [op |-> "hello"]
            /\ UNCHANGED <<userToGateway, last>>
         \/ \E u \in Users :
              /\ Head(chan[g][k]) = Told("open", u)
              /\ \A v \in Users : /\ userToGateway'[v] = IF v = u THEN g ELSE userToGateway[v]
                                  /\ last'[v] = IF v = u THEN g ELSE last[v]
         \/ \E u \in Users :
              /\ Head(chan[g][k]) = Told("close", u)
              /\ UNCHANGED last
              /\ \A v \in Users : userToGateway'[v] = IF v = u /\ userToGateway[v] = g THEN None
                                                      ELSE userToGateway[v]
  <1> DEFINE e == Head(chan[g][k])
  <1>1. e \in Event
    BY HandleTakes, TailIndex
  <1> HIDE DEF e
  <1>2. CASE e.op = "hello" /\ UNCHANGED <<userToGateway, last>>
    <2>1. e = [op |-> "hello"]
      BY <1>1, <1>2, EventKinds
    <2> QED
      BY <1>2, <2>1 DEF e
  <1>3. CASE e.op = "open" /\ onUserOpen(e.uid, g) /\ last' = [last EXCEPT ![e.uid] = g]
    <2>1. e.uid \in Users /\ e = Told("open", e.uid)
      BY <1>1, <1>3, EventKinds
    <2>2. \A v \in Users : /\ userToGateway'[v] = IF v = e.uid THEN g ELSE userToGateway[v]
                           /\ last'[v] = IF v = e.uid THEN g ELSE last[v]
      BY <1>3 DEF onUserOpen, TypeOK
    <2> QED
      BY <2>1, <2>2 DEF e
  <1>4. CASE e.op = "close" /\ onUserClose(e.uid, g) /\ UNCHANGED last
    <2>1. e.uid \in Users /\ e = Told("close", e.uid)
      BY <1>1, <1>4, EventKinds
    <2>2. \A v \in Users : userToGateway'[v] = IF v = e.uid /\ userToGateway[v] = g THEN None
                                               ELSE userToGateway[v]
      BY <1>4 DEF onUserClose, TypeOK
    <2> QED
      BY <1>4, <2>1, <2>2 DEF e
  <1> QED
    BY <1>2, <1>3, <1>4 DEF HandleEvent, e

\* A user is routed to a gateway that some handler knows.
LEMMA RoutesKnownNext == Inv /\ [Next]_vars => RoutesKnown'
  <1> SUFFICES ASSUME Inv, [Next]_vars PROVE RoutesKnown'
    OBVIOUS
  <1>0. TypeOK /\ Streams /\ HelloFirst /\ RoutesKnown
    BY DEF Inv
  <1>1. ASSUME UNCHANGED <<greeted, userToGateway>> PROVE RoutesKnown'
    BY <1>0, <1>1 DEF RoutesKnown
  <1>2. ASSUME NEW g \in Gateways, NEW k \in Slots, HandleEvent(g, k) PROVE RoutesKnown'
    <2>1. greeted' = greeted \cup {<<g, k>>}
      BY <1>0, <1>2, ReadsAfterHello
    <2>2. \A u \in Users : userToGateway'[u] \in {g, None, userToGateway[u]}
      BY <1>0, <1>2, HandleKinds
    <2> SUFFICES ASSUME NEW u \in Users, userToGateway'[u] # None
                 PROVE  \E j \in Slots : <<userToGateway'[u], j>> \in greeted'
      BY DEF RoutesKnown
    <2>3. CASE userToGateway'[u] = g
      BY <2>1, <2>3
    <2>4. CASE userToGateway'[u] = userToGateway[u]
      BY <1>0, <2>1, <2>4 DEF RoutesKnown
    <2> QED
      BY <2>2, <2>3, <2>4
  <1>3. ASSUME NEW g \in Gateways, NEW k \in Slots, StreamGone(g, k) PROVE RoutesKnown'
    <2>1. CASE <<g, k>> \notin greeted
      <3>1. UNCHANGED <<greeted, userToGateway>>
        BY <1>3, <2>1 DEF StreamGone
      <3> QED
        BY <1>1, <3>1
    <2>2. CASE <<g, k>> \in greeted
      <3>1. greeted' = greeted \ {<<g, k>>}
        BY <1>3 DEF StreamGone
      <3>2. \A u \in Users : userToGateway'[u] = IF userToGateway[u] = g THEN None ELSE userToGateway[u]
        BY <1>3, <2>2 DEF StreamGone, deregisterGateway
      <3> SUFFICES ASSUME NEW u \in Users, userToGateway'[u] # None
                   PROVE  \E j \in Slots : <<userToGateway'[u], j>> \in greeted'
        BY DEF RoutesKnown
      <3>3. userToGateway'[u] = userToGateway[u] /\ userToGateway[u] # g
        BY <3>2
      <3>4. PICK j \in Slots : <<userToGateway[u], j>> \in greeted
        BY <1>0, <3>3 DEF RoutesKnown
      <3>5. <<userToGateway[u], j>> \in greeted'
        BY <3>1, <3>3, <3>4
      <3> QED
        BY <3>3, <3>5
    <2> QED
      BY <2>1, <2>2
  <1>4. ASSUME LogicRestarts PROVE RoutesKnown'
    BY <1>4 DEF LogicRestarts, RoutesKnown
  <1>5. ASSUME NEW s \in Sessions, Connected(s) \/ Closing(s) PROVE RoutesKnown'
    BY <1>1, <1>5 DEF Connected, Closing, linkVars, regVars
  <1>6. ASSUME NEW m \in Msgs, Push(m) \/ \E g \in Gateways : ReadPush(g, m) PROVE RoutesKnown'
    BY <1>1, <1>6 DEF Push, ReadPush, regVars
  <1>7. ASSUME NEW g \in Gateways, Connect(g) \/ Write(g) \/ ReadEnds(g) PROVE RoutesKnown'
    BY <1>1, <1>7 DEF Connect, Write, ReadEnds, regVars
  <1>8. ASSUME NEW g \in Gateways, Break(g) \/ GatewayRestarts(g) PROVE RoutesKnown'
    BY <1>1, <1>8 DEF Break, GatewayRestarts, regVars
  <1>9. ASSUME UNCHANGED vars PROVE RoutesKnown'
    BY <1>1, <1>9 DEF vars, linkVars, regVars
  <1> QED
    BY <1>2, <1>3, <1>4, <1>5, <1>6, <1>7, <1>8, <1>9 DEF Next

\* Where a pending event is.
LEMMA PendingHas ==
  ASSUME NEW g, NEW u, NEW o
  PROVE  /\ Pending(g, u, o) <=> \/ Has(eventQueue[g], Told(o, u))
                                 \/ \E k \in Slots : Has(chan[g][k], Told(o, u))
         /\ Pending(g, u, o)' <=> \/ Has(eventQueue'[g], Told(o, u))
                                  \/ \E k \in Slots : Has(chan'[g][k], Told(o, u))
  BY DEF Pending, Has, Told

Grows(h, v) == \E s \in Sessions : Closing(s) /\ GatewayOf[s] = h /\ UidOf[s] = v

\* A conn_close becomes pending only when a session closes.
LEMMA PendingGrows ==
  ASSUME Inv, [Next]_vars, NEW h \in Gateways, NEW v \in Users, Pending(h, v, "close")'
  PROVE  Pending(h, v, "close") \/ Grows(h, v)
  <1> DEFINE e == Told("close", v)
             goal == Pending(h, v, "close") \/ Grows(h, v)
  <1>0. TypeOK /\ Streams /\ (\A j \in Slots : chan[h][j] \in Seq(Event)) /\ eventQueue[h] \in Seq(Event)
    BY DEF Inv, TypeOK
  <1>a. Has(eventQueue'[h], e) \/ \E j \in Slots : Has(chan'[h][j], e)
    BY PendingHas
  <1>b. Has(eventQueue[h], e) \/ (\E j \in Slots : Has(chan[h][j], e)) => goal
    BY PendingHas
  <1>e. e \in Event /\ e # [op |-> "hello"] /\ \A u \in Users : e # Told("open", u)
    BY EventKinds
  <1> HIDE DEF e, goal
  <1>1. ASSUME UNCHANGED <<eventQueue, chan>> PROVE goal
    BY <1>1, <1>a, <1>b
  <1>2. ASSUME NEW s \in Sessions, Connected(s) PROVE goal
    <2>1. UNCHANGED chan /\ enqueue(s, "open")
      BY <1>2 DEF Connected, linkVars
    <2>2. Told("open", UidOf[s]) \in Event /\ Told("open", UidOf[s]) # e
      BY <1>0, <1>e, <2>1, EnqueueAppends, EventKinds
    <2>3. eventQueue'[h] = eventQueue[h] \/ eventQueue'[h] = Append(eventQueue[h], Told("open", UidOf[s]))
      BY <1>0, <2>1, EnqueueAppends
    <2>4. Has(Append(eventQueue[h], Told("open", UidOf[s])), e) => Has(eventQueue[h], e)
      BY <1>0, <2>2, HasAppend
    <2> QED
      BY <1>a, <1>b, <2>1, <2>3, <2>4
  <1>3. ASSUME NEW s \in Sessions, Closing(s) PROVE goal
    <2>1. UNCHANGED chan /\ enqueue(s, "close")
      BY <1>3 DEF Closing, linkVars
    <2>2. CASE GatewayOf[s] = h /\ UidOf[s] = v
      BY <1>3, <2>2 DEF Grows, goal
    <2>3. CASE GatewayOf[s] = h /\ UidOf[s] # v
      <3>1. UidOf[s] \in Users /\ eventQueue'[h] = Append(eventQueue[h], Told("close", UidOf[s]))
        BY <1>0, <2>1, <2>3, EnqueueAppends
      <3>2. Told("close", UidOf[s]) \in Event /\ Told("close", UidOf[s]) # e
        BY <2>3, <3>1, EventKinds DEF e
      <3>3. Has(eventQueue'[h], e) => Has(eventQueue[h], e)
        BY <1>0, <3>1, <3>2, HasAppend
      <3> QED
        BY <1>a, <1>b, <2>1, <3>3
    <2>4. CASE GatewayOf[s] # h
      <3>1. eventQueue'[h] = eventQueue[h]
        BY <1>0, <2>1, <2>4, EnqueueAppends
      <3> QED
        BY <1>a, <1>b, <2>1, <3>1
    <2> QED
      BY <2>2, <2>3, <2>4
  <1>4. ASSUME NEW g \in Gateways, NEW k \in Slots, HandleEvent(g, k) PROVE goal
    <2>1. UNCHANGED eventQueue
      BY <1>4 DEF HandleEvent
    <2>2. chan[g][k] # <<>> /\ \A j \in Slots :
            chan'[h][j] = IF h = g /\ j = k THEN Tail(chan[h][j]) ELSE chan[h][j]
      BY <1>0, <1>4, HandleTakes
    <2>3. \A j \in Slots : Has(chan'[h][j], e) => Has(chan[h][j], e)
      BY <1>0, <2>2, HasTail
    <2> QED
      BY <1>a, <1>b, <2>1, <2>3
  <1>5. ASSUME NEW g \in Gateways, Connect(g) PROVE goal
    <2>1. UNCHANGED eventQueue
      BY <1>5 DEF Connect
    <2>2. PICK k \in Slots : \A j \in Slots :
            chan'[h][j] = IF h = g /\ j = k THEN <<[op |-> "hello"]>> ELSE chan[h][j]
      BY <1>0, <1>5, ConnectGreets
    <2>3. ~Has(<<[op |-> "hello"]>>, e)
      BY <1>e DEF Has
    <2>4. \A j \in Slots : Has(chan'[h][j], e) => Has(chan[h][j], e)
      BY <2>2, <2>3
    <2> QED
      BY <1>a, <1>b, <2>1, <2>4
  <1>6. ASSUME NEW g \in Gateways, Write(g) PROVE goal
    <2>1. /\ eventQueue[g] \in Seq(Event) /\ eventQueue[g] # <<>>
          /\ eventQueue'[h] = IF h = g THEN Tail(eventQueue[g]) ELSE eventQueue[h]
          /\ \A j \in Slots : \/ chan'[h][j] = chan[h][j]
                              \/ h = g /\ chan'[h][j] = Append(chan[h][j], Head(eventQueue[g]))
      <3>1. /\ eventQueue[g] \in Seq(Event) /\ eventQueue[g] # <<>>
            /\ eventQueue'[h] = IF h = g THEN Tail(eventQueue[g]) ELSE eventQueue[h]
        BY <1>0, <1>6, WriteMoves
      <3>2. ASSUME NEW j \in Slots
            PROVE  chan'[h][j] = chan[h][j]
                   \/ (h = g /\ chan'[h][j] = Append(chan[h][j], Head(eventQueue[g])))
        <4>1. chan'[h][j] = IF h = g /\ j = link[g] /\ stream[g][j] = "up"
                            THEN Append(chan[h][j], Head(eventQueue[g])) ELSE chan[h][j]
          BY <1>0, <1>6, WriteMoves
        <4> QED
          BY <4>1
      <3> QED
        BY <3>1, <3>2
    <2>2. Head(eventQueue[g]) \in Event
      BY <2>1, TailIndex
    <2>3. Has(eventQueue'[h], e) => Has(eventQueue[h], e)
      BY <2>1, HasTail
    <2>4. ASSUME NEW j \in Slots, Has(chan'[h][j], e) PROVE Has(chan[h][j], e) \/ Has(eventQueue[h], e)
      <3>1. CASE chan'[h][j] = chan[h][j]
        BY <2>4, <3>1
      <3>2. CASE h = g /\ chan'[h][j] = Append(chan[h][j], Head(eventQueue[g]))
        <4>1. Has(chan[h][j], e) \/ e = Head(eventQueue[g])
          BY <1>0, <2>2, <2>4, <3>2, HasAppend
        <4>2. Has(eventQueue[g], Head(eventQueue[g]))
          BY <2>1, HasTail
        <4> QED
          BY <3>2, <4>1, <4>2
      <3> QED
        BY <2>1, <3>1, <3>2
    <2> QED
      BY <1>a, <1>b, <2>3, <2>4
  <1>7. ASSUME NEW g \in Gateways, Break(g) \/ GatewayRestarts(g) PROVE goal
    <2>1. \A j \in Slots : \A i \in DOMAIN chan'[h][j] :
            i \in DOMAIN chan[h][j] /\ chan'[h][j][i] = chan[h][j][i]
      BY <1>0, <1>7, BrokenCuts DEF Break, GatewayRestarts
    <2>2. \A j \in Slots : Has(chan'[h][j], e) => Has(chan[h][j], e)
      BY <2>1 DEF Has
    <2>3. eventQueue'[h] \in {eventQueue[h], <<>>}
      BY <1>0, <1>7 DEF Break, GatewayRestarts, TypeOK
    <2>4. Has(eventQueue'[h], e) => Has(eventQueue[h], e)
      BY <2>3 DEF Has
    <2> QED
      BY <1>a, <1>b, <2>2, <2>4
  <1>8. ASSUME LogicRestarts PROVE goal
    <2>1. eventQueue' = eventQueue /\ \A j \in Slots : chan'[h][j] = <<>>
      BY <1>8 DEF LogicRestarts
    <2> QED
      BY <1>a, <1>b, <2>1 DEF Has
  <1>9. ASSUME NEW g \in Gateways, ReadEnds(g) \/ \E k \in Slots : StreamGone(g, k) PROVE goal
    BY <1>1, <1>9 DEF ReadEnds, StreamGone
  <1>10. ASSUME NEW m \in Msgs, Push(m) \/ \E g \in Gateways : ReadPush(g, m) PROVE goal
    BY <1>1, <1>10 DEF Push, ReadPush
  <1>11. ASSUME UNCHANGED vars PROVE goal
    BY <1>1, <1>11 DEF vars, linkVars
  <1>12. goal
    BY <1>2, <1>3, <1>4, <1>5, <1>6, <1>7, <1>8, <1>9, <1>10, <1>11 DEF Next
  <1> QED
    BY <1>12 DEF goal

\* A session that was closed stays closed, and none opens twice.
LEMMA SessionsEnd ==
  ASSUME TypeOK, [Next]_vars, NEW s \in Sessions
  PROVE  /\ sess[s] = "closed" => sess'[s] = "closed"
         /\ sess[s] = "open" => sess'[s] \in {"open", "closed"}
         /\ sess'[s] = "new" => sess[s] = "new"
  <1>1. ASSUME NEW x \in Sessions, Connected(x) \/ Closing(x)
        PROVE  sess'[s] = sess[s] \/ (sess[s] = "new" /\ sess'[s] = "open")
                                  \/ (sess[s] = "open" /\ sess'[s] = "closed")
    BY <1>1 DEF Connected, Closing, TypeOK
  <1>2. ASSUME NEW g \in Gateways, GatewayRestarts(g)
        PROVE  sess'[s] = sess[s] \/ (sess[s] = "open" /\ sess'[s] = "closed")
    BY <1>2 DEF GatewayRestarts, TypeOK
  <1>3. \/ UNCHANGED sess
        \/ \E x \in Sessions : Connected(x) \/ Closing(x)
        \/ \E g \in Gateways : GatewayRestarts(g)
    BY Zenon DEF Next, HandleEvent, StreamGone, Push, ReadPush, Connect, Write, ReadEnds, Break,
                 LogicRestarts, vars
  <1> QED
    BY <1>1, <1>2, <1>3

\* A conn_close is about a session that was closed.
LEMMA CloseIsTrueNext == Inv /\ [Next]_vars => CloseIsTrue'
  <1> SUFFICES ASSUME Inv, [Next]_vars,
                      NEW h \in Gateways, NEW v \in Users, Pending(h, v, "close")'
               PROVE  \E s \in Sessions : GatewayOf[s] = h /\ UidOf[s] = v /\ sess'[s] = "closed"
    BY DEF CloseIsTrue
  <1>1. TypeOK /\ CloseIsTrue
    BY DEF Inv
  <1>2. CASE Pending(h, v, "close")
    <2>1. PICK s \in Sessions : GatewayOf[s] = h /\ UidOf[s] = v /\ sess[s] = "closed"
      BY <1>1, <1>2 DEF CloseIsTrue
    <2> QED
      BY <1>1, <2>1, SessionsEnd
  <1>3. CASE Grows(h, v)
    BY <1>1, <1>3 DEF Grows, Closing, TypeOK
  <1> QED
    BY <1>2, <1>3, PendingGrows

\* What taking from a queue and adding to it do to the order of its events.
LEMMA FollowsTail ==
  ASSUME NEW c \in Seq(Event), c # <<>>, NEW u \in Users, Follows(c, u)
  PROVE  /\ Follows(Tail(c), u)
         /\ Head(c) = Told("open", u) => Has(Tail(c), Told("close", u))
  <1>1. ASSUME NEW i \in DOMAIN Tail(c), Tail(c)[i] = Told("open", u)
        PROVE  \E j \in DOMAIN Tail(c) : j > i /\ Tail(c)[j] = Told("close", u)
    <2>1. i \in Nat /\ i + 1 \in DOMAIN c /\ c[i + 1] = Told("open", u)
      BY <1>1, TailIndex
    <2>2. PICK j \in DOMAIN c : j > i + 1 /\ c[j] = Told("close", u)
      BY <2>1 DEF Follows
    <2>3. j \in Nat
      BY TailIndex
    <2>4. j # 1 /\ j - 1 > i
      BY <2>1, <2>2, <2>3
    <2>5. j - 1 \in DOMAIN Tail(c) /\ Tail(c)[j - 1] = Told("close", u)
      BY <2>2, <2>4, TailIndex
    <2> QED
      BY <2>4, <2>5
  <1>2. ASSUME Head(c) = Told("open", u) PROVE Has(Tail(c), Told("close", u))
    <2>1. 1 \in DOMAIN c /\ c[1] = Told("open", u)
      BY <1>2, TailIndex
    <2>2. PICK j \in DOMAIN c : j > 1 /\ c[j] = Told("close", u)
      BY <2>1 DEF Follows
    <2>3. Has(c, Told("close", u))
      BY <2>2 DEF Has
    <2>4. Told("close", u) # Head(c)
      BY <1>2, EventKinds
    <2> QED
      BY <2>3, <2>4, HasTail
  <1> QED
    BY <1>1, <1>2 DEF Follows

\* Nothing but a conn_open of u that is added may miss its conn_close.
LEMMA FollowsAppend ==
  ASSUME NEW c \in Seq(Event), NEW x \in Event, NEW u \in Users
  PROVE  /\ Follows(c, u) /\ x # Told("open", u) => Follows(Append(c, x), u)
         /\ x = Told("close", u) => Follows(Append(c, x), u)
  <1>1. ASSUME Follows(c, u), x # Told("open", u),
               NEW i \in DOMAIN Append(c, x), Append(c, x)[i] = Told("open", u)
        PROVE  \E j \in DOMAIN Append(c, x) : j > i /\ Append(c, x)[j] = Told("close", u)
    <2>1. i \in DOMAIN c /\ c[i] = Told("open", u)
      BY <1>1, AppendIndex
    <2>2. PICK j \in DOMAIN c : j > i /\ c[j] = Told("close", u)
      BY <1>1, <2>1 DEF Follows
    <2> QED
      BY <2>2, AppendIndex
  <1>2. ASSUME x = Told("close", u),
               NEW i \in DOMAIN Append(c, x), Append(c, x)[i] = Told("open", u)
        PROVE  \E j \in DOMAIN Append(c, x) : j > i /\ Append(c, x)[j] = Told("close", u)
    <2>1. x # Told("open", u)
      BY <1>2, EventKinds
    <2>2. i \in DOMAIN c
      BY <1>2, <2>1, AppendIndex
    <2>3. Len(c) + 1 > i
      BY <2>2, AppendIndex
    <2> QED
      BY <1>2, <2>3, AppendIndex
  <1> QED
    BY <1>1, <1>2 DEF Follows

\* A queue without events.
LEMMA FollowsEmpty ==
  ASSUME NEW u
  PROVE  Follows(<<>>, u) /\ Follows(<<[op |-> "hello"]>>, u)
  <1>1. Follows(<<>>, u)
    BY DEF Follows
  <1>2. [op |-> "hello"] # Told("open", u)
    BY DEF Told
  <1>3. \A i \in DOMAIN <<[op |-> "hello"]>> : <<[op |-> "hello"]>>[i] # Told("open", u)
    BY <1>2
  <1> QED
    BY <1>1, <1>3 DEF Follows

\* A conn_open whose user has left is not the last word on him.
LEMMA CloseFollowsNext == Inv /\ [Next]_vars => CloseFollows'
  <1> SUFFICES ASSUME Inv, [Next]_vars,
                      NEW h \in Gateways, NEW v \in Users, OpenAt(h, v)' = {}
               PROVE  /\ Follows(eventQueue'[h], v)
                      /\ \A k \in Slots : stream'[h][k] = "up" =>
                           Follows(chan'[h][k], v) \/ Has(eventQueue'[h], Told("close", v))
    BY DEF CloseFollows
  <1> DEFINE G == /\ Follows(eventQueue'[h], v)
                  /\ \A k \in Slots : stream'[h][k] = "up" =>
                       Follows(chan'[h][k], v) \/ Has(eventQueue'[h], Told("close", v))
             H == /\ Follows(eventQueue[h], v)
                  /\ \A k \in Slots : stream[h][k] = "up" =>
                       Follows(chan[h][k], v) \/ Has(eventQueue[h], Told("close", v))
  <1>0. TypeOK /\ Streams /\ (\A k \in Slots : chan[h][k] \in Seq(Event)) /\ eventQueue[h] \in Seq(Event)
    BY DEF Inv, TypeOK
  <1>h. OpenAt(h, v) = {} => H
    BY DEF Inv, CloseFollows
  <1>u. UNCHANGED sess => H
    BY <1>h DEF OpenAt
  <1>n. Told("open", v) \in Event /\ Told("close", v) \in Event /\ Told("open", v) # Told("close", v)
    BY EventKinds
  <1>1. ASSUME UNCHANGED <<sess, eventQueue, chan, stream>> PROVE G
    BY <1>1, <1>u
  <1>2. ASSUME NEW s \in Sessions, Connected(s) PROVE G
    <2>1. UNCHANGED <<chan, stream>> /\ enqueue(s, "open") /\ sess' = [sess EXCEPT ![s] = "open"]
      BY <1>2 DEF Connected, linkVars
    <2>2. H /\ ~(GatewayOf[s] = h /\ UidOf[s] = v)
      <3>1. sess'[s] = "open"
        BY <1>0, <2>1 DEF TypeOK
      <3>2. \A x \in Sessions : sess[x] = "open" => sess'[x] = "open"
        BY <1>0, <2>1 DEF TypeOK
      <3>3. OpenAt(h, v) = {} /\ ~(GatewayOf[s] = h /\ UidOf[s] = v)
        BY <3>1, <3>2 DEF OpenAt
      <3> QED
        BY <1>h, <3>3
    <2>3. CASE GatewayOf[s] # h
      <3>1. eventQueue'[h] = eventQueue[h]
        BY <1>0, <2>1, <2>3, EnqueueAppends
      <3> QED
        BY <2>1, <2>2, <3>1
    <2>4. CASE GatewayOf[s] = h /\ UidOf[s] # v
      <3>1. UidOf[s] \in Users /\ eventQueue'[h] = Append(eventQueue[h], Told("open", UidOf[s]))
        BY <1>0, <2>1, <2>4, EnqueueAppends
      <3>2. Told("open", UidOf[s]) \in Event /\ Told("open", UidOf[s]) # Told("open", v)
        BY <2>4, <3>1, EventKinds
      <3>3. Follows(eventQueue'[h], v)
        BY <1>0, <2>2, <3>1, <3>2, FollowsAppend
      <3>4. Has(eventQueue[h], Told("close", v)) => Has(eventQueue'[h], Told("close", v))
        BY <1>0, <3>1, <3>2, HasAppend
      <3> QED
        BY <2>1, <2>2, <3>3, <3>4
    <2> QED
      BY <2>2, <2>3, <2>4
  <1>3. ASSUME NEW s \in Sessions, Closing(s) PROVE G
    <2>1. UNCHANGED <<chan, stream>> /\ enqueue(s, "close") /\ sess' = [sess EXCEPT ![s] = "closed"]
      BY <1>3 DEF Closing, linkVars
    <2>2. CASE GatewayOf[s] = h /\ UidOf[s] = v
      <3>1. eventQueue'[h] = Append(eventQueue[h], Told("close", v))
        BY <1>0, <2>1, <2>2, EnqueueAppends
      <3>2. Follows(eventQueue'[h], v)
        BY <1>0, <1>n, <3>1, FollowsAppend
      <3>3. Has(eventQueue'[h], Told("close", v))
        BY <1>0, <1>n, <3>1, HasAppend
      <3> QED
        BY <3>2, <3>3
    <2>3. CASE ~(GatewayOf[s] = h /\ UidOf[s] = v)
      <3>0. H
        <4>1. \A x \in Sessions : x # s => sess'[x] = sess[x]
          BY <1>0, <2>1 DEF TypeOK
        <4>2. OpenAt(h, v) = {}
          BY <2>3, <4>1 DEF OpenAt
        <4> QED
          BY <1>h, <4>2
      <3>1. CASE GatewayOf[s] # h
        <4>1. eventQueue'[h] = eventQueue[h]
          BY <1>0, <2>1, <3>1, EnqueueAppends
        <4> QED
          BY <2>1, <3>0, <4>1
      <3>2. CASE GatewayOf[s] = h
        <4>1. UidOf[s] \in Users /\ eventQueue'[h] = Append(eventQueue[h], Told("close", UidOf[s]))
          BY <1>0, <2>1, <3>2, EnqueueAppends
        <4>2. Told("close", UidOf[s]) \in Event /\ Told("close", UidOf[s]) # Told("open", v)
          BY <4>1, EventKinds
        <4>3. Follows(eventQueue'[h], v)
          BY <1>0, <3>0, <4>1, <4>2, FollowsAppend
        <4>4. Has(eventQueue[h], Told("close", v)) => Has(eventQueue'[h], Told("close", v))
          BY <1>0, <4>1, <4>2, HasAppend
        <4> QED
          BY <2>1, <3>0, <4>3, <4>4
      <3> QED
        BY <3>1, <3>2
    <2> QED
      BY <2>2, <2>3
  <1>4. ASSUME NEW g \in Gateways, NEW k \in Slots, HandleEvent(g, k) PROVE G
    <2>1. UNCHANGED <<sess, eventQueue, stream>>
      BY <1>4 DEF HandleEvent
    <2>2. H
      BY <1>u, <2>1
    <2>3. chan[g][k] # <<>> /\ \A j \in Slots :
            chan'[h][j] = IF h = g /\ j = k THEN Tail(chan[h][j]) ELSE chan[h][j]
      BY <1>0, <1>4, HandleTakes
    <2>4. \A j \in Slots : Follows(chan[h][j], v) => Follows(chan'[h][j], v)
      BY <1>0, <2>3, FollowsTail
    <2> QED
      BY <2>1, <2>2, <2>4
  <1>5. ASSUME NEW g \in Gateways, NEW k \in Slots, StreamGone(g, k) PROVE G
    <2>1. UNCHANGED <<sess, eventQueue, chan>> /\ \A j \in Slots : stream'[h][j] = "up" => stream[h][j] = "up"
      BY <1>0, <1>5 DEF StreamGone, TypeOK
    <2> QED
      BY <1>u, <2>1
  <1>6. ASSUME NEW g \in Gateways, Connect(g) PROVE G
    <2>1. UNCHANGED <<sess, eventQueue>>
      BY <1>6 DEF Connect
    <2>2. H
      BY <1>u, <2>1
    <2>3. PICK k \in Slots : \A j \in Slots :
            /\ chan'[h][j] = IF h = g /\ j = k THEN <<[op |-> "hello"]>> ELSE chan[h][j]
            /\ stream'[h][j] = IF h = g /\ j = k THEN "up" ELSE stream[h][j]
      BY <1>0, <1>6, ConnectGreets
    <2>4. ASSUME NEW j \in Slots, stream'[h][j] = "up"
          PROVE  Follows(chan'[h][j], v) \/ Has(eventQueue[h], Told("close", v))
      <3>1. CASE h = g /\ j = k
        BY <2>3, <3>1, FollowsEmpty
      <3>2. CASE ~(h = g /\ j = k)
        BY <2>2, <2>3, <2>4, <3>2
      <3> QED
        BY <3>1, <3>2
    <2> QED
      BY <2>1, <2>2, <2>4
  <1>7. ASSUME NEW g \in Gateways, Write(g) PROVE G
    <2>1. UNCHANGED <<sess, stream>>
      BY <1>7 DEF Write
    <2>2. H
      BY <1>u, <2>1
    <2>3. /\ eventQueue[g] # <<>> /\ link[g] \in Slots
          /\ eventQueue'[h] = IF h = g THEN Tail(eventQueue[g]) ELSE eventQueue[h]
          /\ \A j \in Slots :
               chan'[h][j] = IF h = g /\ j = link[g] /\ stream[g][j] = "up"
                             THEN Append(chan[h][j], Head(eventQueue[g])) ELSE chan[h][j]
      BY <1>0, <1>7, WriteMoves
    <2>4. CASE h # g
      <3>1. eventQueue'[h] = eventQueue[h] /\ \A j \in Slots : chan'[h][j] = chan[h][j]
        BY <2>3, <2>4
      <3> QED
        BY <2>1, <2>2, <3>1
    <2>5. CASE h = g
      <3> DEFINE q == eventQueue[h]
      <3>1. q # <<>> /\ q \in Seq(Event) /\ eventQueue'[h] = Tail(q) /\ Head(q) \in Event
        BY <1>0, <2>3, <2>5, TailIndex
      <3>2. Follows(eventQueue'[h], v)
        BY <2>2, <3>1, FollowsTail
      <3>3. ASSUME NEW j \in Slots, stream'[h][j] = "up"
            PROVE  Follows(chan'[h][j], v) \/ Has(Tail(q), Told("close", v))
        <4>1. stream[h][j] = "up" /\ link[h] = j
          BY <1>0, <2>1, <3>3 DEF Streams, StreamAt
        <4>2. chan'[h][j] = Append(chan[h][j], Head(q)) /\ chan[h][j] \in Seq(Event)
          BY <1>0, <2>3, <2>5, <4>1
        <4>3. CASE Head(q) = Told("open", v)
          BY <2>2, <3>1, <4>3, FollowsTail
        <4>4. CASE Head(q) = Told("close", v)
          BY <3>1, <4>2, <4>4, FollowsAppend
        <4>5. CASE Head(q) # Told("open", v) /\ Head(q) # Told("close", v)
          <5>1. CASE Follows(chan[h][j], v)
            BY <3>1, <4>2, <4>5, <5>1, FollowsAppend
          <5>2. CASE Has(q, Told("close", v))
            BY <3>1, <4>5, <5>2, HasTail
          <5> QED
            BY <2>2, <4>1, <5>1, <5>2
        <4> QED
          BY <4>3, <4>4, <4>5
      <3> QED
        BY <3>1, <3>2, <3>3
    <2> QED
      BY <2>4, <2>5
  <1>8. ASSUME NEW g \in Gateways, Break(g) \/ GatewayRestarts(g) PROVE G
    <2>1. \A j \in Slots :
            /\ stream'[h][j] = IF h \in {g} /\ stream[h][j] = "up" THEN "broken" ELSE stream[h][j]
            /\ h \notin {g} => chan'[h][j] = chan[h][j]
      BY <1>0, <1>8, BrokenCuts DEF Break, GatewayRestarts
    <2>2. CASE h # g
      <3>1. eventQueue'[h] = eventQueue[h] /\ \A s \in Sessions : GatewayOf[s] = h => sess'[s] = sess[s]
        BY <1>0, <1>8, <2>2 DEF Break, GatewayRestarts, TypeOK
      <3>2. OpenAt(h, v) = {}
        BY <3>1 DEF OpenAt
      <3> QED
        BY <1>h, <2>1, <2>2, <3>1, <3>2
    <2>3. CASE h = g
      <3>1. \A j \in Slots : stream'[h][j] # "up"
        BY <2>1, <2>3
      <3>2. CASE Break(g)
        BY <1>u, <3>1, <3>2 DEF Break
      <3>3. CASE GatewayRestarts(g)
        <4>1. eventQueue'[h] = <<>>
          BY <1>0, <2>3, <3>3 DEF GatewayRestarts, TypeOK
        <4> QED
          BY <3>1, <4>1, FollowsEmpty
      <3> QED
        BY <1>8, <3>2, <3>3
    <2> QED
      BY <2>2, <2>3
  <1>9. ASSUME LogicRestarts PROVE G
    BY <1>9, <1>u DEF LogicRestarts
  <1>10. ASSUME NEW g \in Gateways, ReadEnds(g) PROVE G
    BY <1>1, <1>10 DEF ReadEnds
  <1>11. ASSUME NEW m \in Msgs, Push(m) \/ \E g \in Gateways : ReadPush(g, m) PROVE G
    BY <1>1, <1>11 DEF Push, ReadPush
  <1>12. ASSUME UNCHANGED vars PROVE G
    BY <1>1, <1>12 DEF vars, linkVars
  <1>13. G
    <2> HIDE DEF G
    <2> QED
      BY <1>2, <1>3, <1>4, <1>5, <1>6, <1>7, <1>8, <1>9, <1>10, <1>11, <1>12 DEF Next
  <1> QED
    BY <1>13

Excused(g, u) ==
  \/ Pending(g, u, "close")
  \/ \E k \in Slots : stream[g][k] = "broken" /\ <<g, k>> \in greeted

\* Without a stream that is up, every route to a gateway is excused: the
\* handler that knows the gateway is one of a broken stream.
LEMMA CutOffExcuses ==
  ASSUME TypeOK, Streams, RoutesKnown, NEW u \in Users, userToGateway[u] # None,
         \A k \in Slots : stream[userToGateway[u]][k] # "up"
  PROVE  \E k \in Slots : stream[userToGateway[u]][k] = "broken" /\ <<userToGateway[u], k>> \in greeted
  <1>1. PICK k \in Slots : <<userToGateway[u], k>> \in greeted
    BY DEF RoutesKnown
  <1>2. userToGateway[u] \in Gateways
    BY DEF TypeOK
  <1>3. stream[userToGateway[u]][k] # "free"
    BY <1>1, <1>2 DEF Streams, StreamAt
  <1>4. stream[userToGateway[u]][k] \in {"free", "up", "broken"}
    BY <1>2 DEF TypeOK
  <1> QED
    BY <1>1, <1>3, <1>4

\* A user who has left a gateway stays routed to it only for a while.
LEMMA StaleRouteNext == Inv /\ [Next]_vars => StaleRouteExcused'
  <1> SUFFICES ASSUME Inv, [Next]_vars PROVE StaleRouteExcused'
    OBVIOUS
  <1>t. TypeOK'
    BY NextTypeOK DEF Inv
  <1> SUFFICES ASSUME NEW u \in Users, NEW g \in Gateways, userToGateway'[u] = g, OpenAt(g, u)' = {}
               PROVE  Excused(g, u)'
    BY <1>t DEF StaleRouteExcused, Excused, TypeOK
  <1> DEFINE e == Told("close", u)
  <1>0. /\ TypeOK /\ Streams /\ HelloFirst /\ RoutesKnown
        /\ (\A k \in Slots : chan[g][k] \in Seq(Event)) /\ eventQueue[g] \in Seq(Event)
        /\ g # None
    BY RoutesAssumption DEF Inv, TypeOK, RoutesAssumption
  <1>e. e \in Event /\ e # [op |-> "hello"] /\ \A v \in Users : e # Told("open", v)
    BY EventKinds
  <1>p. /\ Pending(g, u, "close") <=> Has(eventQueue[g], e) \/ \E k \in Slots : Has(chan[g][k], e)
        /\ Has(eventQueue'[g], e) \/ (\E k \in Slots : Has(chan'[g][k], e)) => Excused(g, u)'
    BY PendingHas DEF Excused
  <1>h. userToGateway[u] = g /\ OpenAt(g, u) = {} => Excused(g, u)
    BY <1>0 DEF Inv, StaleRouteExcused, Excused
  <1>s. UNCHANGED sess => OpenAt(g, u) = {}
    BY DEF OpenAt
  <1> HIDE DEF e
  <1>1. ASSUME UNCHANGED <<sess, userToGateway, eventQueue, chan, stream, greeted>> PROVE Excused(g, u)'
    BY <1>1, <1>h, <1>s DEF Excused, Pending
  <1>2. ASSUME NEW s \in Sessions, Connected(s) \/ Closing(s) PROVE Excused(g, u)'
    <2>1. PICK o \in {"open", "close"} :
            /\ UNCHANGED <<chan, stream, greeted, userToGateway>> /\ enqueue(s, o)
            /\ sess' = [sess EXCEPT ![s] = IF o = "open" THEN "open" ELSE "closed"]
      BY <1>2 DEF Connected, Closing, linkVars, regVars
    <2>2. eventQueue'[g] = IF g = GatewayOf[s] THEN Append(eventQueue[g], Told(o, UidOf[s])) ELSE eventQueue[g]
      BY <1>0, <2>1, EnqueueAppends
    <2>3. Told(o, UidOf[s]) \in Event
      BY <1>0, <2>1, EnqueueAppends, EventKinds
    <2>4. Has(eventQueue[g], e) => Has(eventQueue'[g], e)
      BY <1>0, <2>2, <2>3, HasAppend
    <2>5. CASE OpenAt(g, u) = {}
      BY <1>h, <1>p, <2>1, <2>4, <2>5 DEF Excused
    <2>6. CASE OpenAt(g, u) # {}
      <3>1. \A x \in Sessions : x # s => sess'[x] = sess[x]
        BY <1>0, <2>1 DEF TypeOK
      <3>2. GatewayOf[s] = g /\ UidOf[s] = u /\ sess'[s] # "open"
        BY <2>6, <3>1 DEF OpenAt
      <3>3. o = "close"
        BY <1>0, <2>1, <3>2 DEF TypeOK
      <3>4. Has(eventQueue'[g], e)
        BY <1>0, <2>2, <2>3, <3>2, <3>3, HasAppend DEF e
      <3> QED
        BY <1>p, <3>4
    <2> QED
      BY <2>5, <2>6
  <1>3. ASSUME NEW f \in Gateways, NEW k \in Slots, HandleEvent(f, k) PROVE Excused(g, u)'
    <2>1. UNCHANGED <<sess, eventQueue, stream>>
      BY <1>3 DEF HandleEvent
    <2>2. /\ chan[f][k] \in Seq(Event) /\ chan[f][k] # <<>>
          /\ \A j \in Slots : chan'[g][j] = IF g = f /\ j = k THEN Tail(chan[f][k]) ELSE chan[g][j]
      BY <1>0, <1>3, HandleTakes
    <2>3. /\ stream[f][k] # "free" /\ greeted \subseteq greeted'
          /\ Head(chan[f][k]).op # "hello" => <<f, k>> \in greeted
      BY <1>0, <1>3, ReadsAfterHello
    <2>4. ASSUME userToGateway[u] = g, ~(g = f /\ Head(chan[f][k]) = e) PROVE Excused(g, u)'
      <3>1. Excused(g, u)
        BY <1>h, <1>s, <2>1, <2>4
      <3>2. ASSUME NEW j \in Slots, Has(chan[g][j], e) PROVE Has(chan'[g][j], e)
        <4>1. CASE g = f /\ j = k
          BY <2>2, <2>4, <3>2, <4>1, HasTail
        <4>2. CASE ~(g = f /\ j = k)
          BY <2>2, <3>2, <4>2
        <4> QED
          BY <4>1, <4>2
      <3>3. CASE Pending(g, u, "close")
        BY <1>p, <2>1, <3>2, <3>3
      <3>4. CASE \E j \in Slots : stream[g][j] = "broken" /\ <<g, j>> \in greeted
        BY <2>1, <2>3, <3>4 DEF Excused
      <3> QED
        BY <3>1, <3>3, <3>4 DEF Excused
    <2>5. CASE Head(chan[f][k]) = [op |-> "hello"] /\ UNCHANGED <<userToGateway, last>>
      BY <1>e, <2>4, <2>5
    <2>6. ASSUME NEW w \in Users, Head(chan[f][k]) = Told("open", w),
                 userToGateway'[u] = IF u = w THEN f ELSE userToGateway[u]
          PROVE  Excused(g, u)'
      <3>1. CASE u # w
        BY <1>e, <2>4, <2>6, <3>1
      <3>2. CASE u = w
        <4>1. g = f
          BY <2>6, <3>2
        <4>2. <<g, k>> \in greeted /\ stream[g][k] \in {"up", "broken"}
          <5>1. Head(chan[f][k]).op # "hello"
            BY <2>6 DEF Told
          <5> QED
            BY <1>0, <2>3, <4>1, <5>1 DEF TypeOK
        <4>3. CASE stream[g][k] = "broken"
          BY <2>1, <2>3, <4>2, <4>3 DEF Excused
        <4>4. CASE stream[g][k] = "up"
          <5>1. Follows(chan[g][k], u) \/ Has(eventQueue[g], e)
            BY <1>s, <2>1, <4>4 DEF Inv, CloseFollows, e
          <5>2. Follows(chan[g][k], u) => Has(chan'[g][k], e)
            BY <2>2, <2>6, <3>2, <4>1, FollowsTail DEF e
          <5> QED
            BY <1>p, <2>1, <5>1, <5>2
        <4> QED
          BY <4>2, <4>3, <4>4
      <3> QED
        BY <3>1, <3>2
    <2>7. ASSUME NEW w \in Users, Head(chan[f][k]) = Told("close", w),
                 userToGateway'[u] = IF u = w /\ userToGateway[u] = f THEN None ELSE userToGateway[u]
          PROVE  Excused(g, u)'
      <3>1. userToGateway[u] = g /\ ~(u = w /\ g = f)
        BY <1>0, <2>7
      <3>2. ~(g = f /\ Head(chan[f][k]) = e)
        BY <2>7, <3>1, EventKinds DEF e
      <3> QED
        BY <2>4, <3>1, <3>2
    <2> QED
      BY <1>0, <1>3, <2>5, <2>6, <2>7, HandleKinds
  <1>4. ASSUME NEW f \in Gateways, NEW k \in Slots, StreamGone(f, k) PROVE Excused(g, u)'
    <2>1. UNCHANGED <<sess, eventQueue, chan>> /\ greeted' = greeted \ {<<f, k>>}
      BY <1>4 DEF StreamGone
    <2>2. userToGateway[u] = g /\ (g = f => <<f, k>> \notin greeted)
      BY <1>0, <1>4 DEF StreamGone, deregisterGateway, TypeOK
    <2>3. \A j \in Slots : ~(g = f /\ j = k) => stream'[g][j] = stream[g][j]
      BY <1>0, <1>4 DEF StreamGone, TypeOK
    <2>4. Excused(g, u)
      BY <1>h, <1>s, <2>1, <2>2
    <2>5. CASE Pending(g, u, "close")
      BY <1>p, <2>1, <2>5
    <2>6. ASSUME NEW j \in Slots, stream[g][j] = "broken", <<g, j>> \in greeted PROVE Excused(g, u)'
      <3>1. ~(g = f /\ j = k)
        BY <2>2, <2>6
      <3>2. stream'[g][j] = "broken" /\ <<g, j>> \in greeted'
        BY <2>1, <2>3, <2>6, <3>1
      <3> QED
        BY <3>2 DEF Excused
    <2> QED
      BY <2>4, <2>5, <2>6 DEF Excused
  <1>5. ASSUME NEW f \in Gateways, Connect(f) PROVE Excused(g, u)'
    <2>1. UNCHANGED <<sess, eventQueue, greeted, userToGateway>>
      BY <1>5 DEF Connect, regVars
    <2>2. PICK k \in Slots :
            /\ stream[f][k] = "free"
            /\ \A h \in Gateways, j \in Slots :
                 /\ chan'[h][j] = IF h = f /\ j = k THEN <<[op |-> "hello"]>> ELSE chan[h][j]
                 /\ stream'[h][j] = IF h = f /\ j = k THEN "up" ELSE stream[h][j]
      BY <1>0, <1>5, ConnectGreets
    <2>3. chan[f][k] = <<>> /\ ~Has(<<>>, e)
      <3>1. StreamAt(f, k)
        BY <1>0 DEF Streams
      <3>2. ~Has(<<>>, e)
        BY DEF Has
      <3> QED
        BY <2>2, <3>1, <3>2 DEF StreamAt
    <2>4. \A j \in Slots : Has(chan[g][j], e) => Has(chan'[g][j], e)
      <3> TAKE j \in Slots
      <3>1. CASE g = f /\ j = k
        BY <2>3, <3>1
      <3>2. CASE ~(g = f /\ j = k)
        BY <2>2, <3>2
      <3> QED
        BY <3>1, <3>2
    <2>5. \A j \in Slots : stream[g][j] = "broken" => stream'[g][j] = "broken"
      BY <2>2
    <2>6. Excused(g, u)
      BY <1>h, <1>s, <2>1
    <2> QED
      BY <1>p, <2>1, <2>4, <2>5, <2>6 DEF Excused
  <1>6. ASSUME NEW f \in Gateways, Write(f) PROVE Excused(g, u)'
    <2>1. UNCHANGED <<sess, stream, greeted, userToGateway>>
      BY <1>6 DEF Write, regVars
    <2>2. /\ eventQueue[f] # <<>> /\ eventQueue[f] \in Seq(Event) /\ link[f] \in Slots
          /\ eventQueue'[g] = IF g = f THEN Tail(eventQueue[f]) ELSE eventQueue[g]
          /\ \A j \in Slots :
               chan'[g][j] = IF g = f /\ j = link[f] /\ stream[f][j] = "up"
                             THEN Append(chan[g][j], Head(eventQueue[f])) ELSE chan[g][j]
      BY <1>0, <1>6, WriteMoves
    <2>3. Excused(g, u)
      BY <1>h, <1>s, <2>1
    <2>4. Head(eventQueue[f]) \in Event
      BY <2>2, TailIndex
    <2>5. \A j \in Slots : Has(chan[g][j], e) => Has(chan'[g][j], e)
      BY <1>0, <2>2, <2>4, HasAppend
    <2>6. CASE \E j \in Slots : stream[g][j] = "up"
      <3>1. Has(eventQueue[g], e) => Has(eventQueue'[g], e) \/ \E j \in Slots : Has(chan'[g][j], e)
        <4>1. CASE g # f
          BY <2>2, <4>1
        <4>2. CASE g = f
          <5>1. PICK j \in Slots : stream[g][j] = "up"
            BY <2>6
          <5>2. chan'[g][j] = Append(chan[g][j], Head(eventQueue[g]))
            BY <1>0, <2>2, <4>2, <5>1 DEF Streams, StreamAt
          <5>3. e = Head(eventQueue[g]) => Has(chan'[g][j], e)
            BY <1>0, <2>4, <4>2, <5>2, HasAppend
          <5>4. Has(eventQueue[g], e) => Has(eventQueue'[g], e) \/ e = Head(eventQueue[g])
            BY <2>2, <4>2, HasTail
          <5> QED
            BY <5>3, <5>4
        <4> QED
          BY <4>1, <4>2
      <3> QED
        BY <1>p, <2>1, <2>3, <2>5, <3>1 DEF Excused
    <2>7. CASE \A j \in Slots : stream[g][j] # "up"
      <3>1. \E k \in Slots : stream[g][k] = "broken" /\ <<g, k>> \in greeted
        BY <1>0, <2>1, <2>7, CutOffExcuses
      <3> QED
        BY <2>1, <3>1 DEF Excused
    <2> QED
      BY <2>6, <2>7
  <1>7. ASSUME NEW f \in Gateways, Break(f) \/ GatewayRestarts(f) PROVE Excused(g, u)'
    <2>1. UNCHANGED <<greeted, userToGateway>>
      BY <1>7 DEF Break, GatewayRestarts, regVars
    <2>2. \A j \in Slots :
            /\ stream'[g][j] = IF g \in {f} /\ stream[g][j] = "up" THEN "broken" ELSE stream[g][j]
            /\ g \notin {f} => chan'[g][j] = chan[g][j]
      BY <1>0, <1>7, BrokenCuts DEF Break, GatewayRestarts
    <2>3. CASE g # f
      <3>1. eventQueue'[g] = eventQueue[g] /\ \A s \in Sessions : GatewayOf[s] = g => sess'[s] = sess[s]
        BY <1>0, <1>7, <2>3 DEF Break, GatewayRestarts, TypeOK
      <3>2. OpenAt(g, u) = {}
        BY <3>1 DEF OpenAt
      <3>3. Excused(g, u)
        BY <1>h, <2>1, <3>2
      <3>4. \A j \in Slots : chan'[g][j] = chan[g][j] /\ stream'[g][j] = stream[g][j]
        BY <2>2, <2>3
      <3> QED
        BY <1>p, <2>1, <3>1, <3>3, <3>4 DEF Excused
    <2>4. CASE g = f
      <3>1. PICK k \in Slots : <<g, k>> \in greeted
        BY <1>0, <2>1 DEF RoutesKnown
      <3>2. stream[g][k] \in {"up", "broken"}
        BY <1>0, <3>1 DEF Streams, StreamAt, TypeOK
      <3>3. stream'[g][k] = "broken"
        BY <2>2, <2>4, <3>2
      <3> QED
        BY <2>1, <3>1, <3>3 DEF Excused
    <2> QED
      BY <2>3, <2>4
  <1>8. ASSUME LogicRestarts PROVE Excused(g, u)'
    BY <1>0, <1>8 DEF LogicRestarts
  <1>9. ASSUME NEW f \in Gateways, ReadEnds(f) PROVE Excused(g, u)'
    BY <1>1, <1>9 DEF ReadEnds, regVars
  <1>10. ASSUME NEW m \in Msgs, Push(m) \/ \E f \in Gateways : ReadPush(f, m) PROVE Excused(g, u)'
    BY <1>1, <1>10 DEF Push, ReadPush, regVars
  <1>11. ASSUME UNCHANGED vars PROVE Excused(g, u)'
    BY <1>1, <1>11 DEF vars, linkVars, regVars
  <1> QED
    BY <1>2, <1>3, <1>4, <1>5, <1>6, <1>7, <1>8, <1>9, <1>10, <1>11 DEF Next

\* The gateway whose conn_open came last keeps the user.
LEMMA LastGatewayNext == Inv /\ [Next]_vars => LastGatewayWins'
  <1> SUFFICES ASSUME Inv, [Next]_vars PROVE LastGatewayWins'
    OBVIOUS
  <1>t. TypeOK'
    BY NextTypeOK DEF Inv
  <1> SUFFICES ASSUME NEW u \in Users, NEW g \in Gateways, last'[u] = g, g \notin cut',
                      \A s \in Sessions : GatewayOf[s] = g /\ UidOf[s] = u /\ sess'[s] # "new" => sess'[s] = "open"
               PROVE  userToGateway'[u] = g
    BY <1>t DEF LastGatewayWins, TypeOK
  <1>0. TypeOK /\ Streams /\ CloseIsTrue /\ g # None
    BY RoutesAssumption DEF Inv, TypeOK, RoutesAssumption
  <1>1. \A s \in Sessions : GatewayOf[s] = g /\ UidOf[s] = u /\ sess[s] # "new" => sess[s] = "open"
    <2> TAKE s \in Sessions
    <2>1. sess[s] \in {"new", "open", "closed"} /\ sess'[s] \in {"new", "open", "closed"}
      BY <1>0, NextTypeOK DEF TypeOK
    <2> QED
      BY <1>0, <2>1, SessionsEnd
  <1>2. ASSUME last[u] = g, cut \subseteq cut' PROVE userToGateway[u] = g
    BY <1>0, <1>1, <1>2 DEF Inv, LastGatewayWins
  <1>3. ASSUME UNCHANGED <<userToGateway, last>>, cut \subseteq cut' PROVE userToGateway'[u] = g
    BY <1>2, <1>3
  <1>4. ASSUME NEW f \in Gateways, NEW k \in Slots, HandleEvent(f, k) PROVE userToGateway'[u] = g
    <2>1. UNCHANGED cut
      BY <1>4 DEF HandleEvent
    <2>2. CASE UNCHANGED <<userToGateway, last>>
      BY <1>3, <2>1, <2>2
    <2>3. ASSUME NEW w \in Users,
                 /\ userToGateway'[u] = IF u = w THEN f ELSE userToGateway[u]
                 /\ last'[u] = IF u = w THEN f ELSE last[u]
          PROVE  userToGateway'[u] = g
      BY <1>2, <2>1, <2>3
    <2>4. ASSUME NEW w \in Users, Head(chan[f][k]) = Told("close", w), UNCHANGED last,
                 userToGateway'[u] = IF u = w /\ userToGateway[u] = f THEN None ELSE userToGateway[u]
          PROVE  userToGateway'[u] = g
      <3>1. userToGateway[u] = g
        BY <1>2, <2>1, <2>4
      <3>2. ~(u = w /\ g = f)
        <4> SUFFICES ASSUME u = w, g = f PROVE FALSE
          OBVIOUS
        <4>1. Has(chan[f][k], Told("close", u))
          BY <1>0, <1>4, <2>4, HandleTakes, HasTail
        <4>2. Pending(g, u, "close")
          BY <4>1, PendingHas
        <4> QED
          BY <1>0, <1>1, <4>2 DEF CloseIsTrue
      <3> QED
        BY <2>4, <3>1, <3>2
    <2> QED
      BY <1>0, <1>4, <2>2, <2>3, <2>4, HandleKinds
  <1>5. ASSUME NEW f \in Gateways, NEW k \in Slots, StreamGone(f, k) PROVE userToGateway'[u] = g
    <2>1. UNCHANGED <<cut, last>> /\ stream[f][k] = "broken"
      BY <1>5 DEF StreamGone
    <2>2. f # g
      BY <1>0, <2>1 DEF Streams, StreamAt
    <2>3. userToGateway[u] = g
      BY <1>2, <2>1
    <2> QED
      BY <1>0, <1>5, <2>2, <2>3 DEF StreamGone, deregisterGateway, TypeOK
  <1>6. ASSUME NEW s \in Sessions, Connected(s) \/ Closing(s) PROVE userToGateway'[u] = g
    BY <1>3, <1>6 DEF Connected, Closing, regVars
  <1>7. ASSUME NEW f \in Gateways, Connect(f) \/ Write(f) \/ ReadEnds(f) PROVE userToGateway'[u] = g
    BY <1>3, <1>7 DEF Connect, Write, ReadEnds, regVars
  <1>8. ASSUME NEW f \in Gateways, Break(f) \/ GatewayRestarts(f) PROVE userToGateway'[u] = g
    BY <1>3, <1>8 DEF Break, GatewayRestarts, Broken, regVars
  <1>9. ASSUME NEW m \in Msgs, Push(m) \/ \E f \in Gateways : ReadPush(f, m) PROVE userToGateway'[u] = g
    BY <1>3, <1>9 DEF Push, ReadPush, regVars
  <1>10. ASSUME LogicRestarts PROVE userToGateway'[u] = g
    BY <1>10 DEF LogicRestarts
  <1>11. ASSUME UNCHANGED vars PROVE userToGateway'[u] = g
    BY <1>3, <1>11 DEF vars, regVars
  <1> QED
    BY <1>4, <1>5, <1>6, <1>7, <1>8, <1>9, <1>10, <1>11 DEF Next

-------------------------------------------------------------------------------
(* The theorems.                                                           *)

\* Every step keeps the invariant.
LEMMA NextInv == Inv /\ [Next]_vars => Inv'
  <1> SUFFICES ASSUME Inv, [Next]_vars PROVE Inv'
    OBVIOUS
  <1>1. TypeOK'
    BY NextTypeOK DEF Inv
  <1>2. Streams' /\ HelloFirst' /\ OwedOpen' /\ EveryDeviceGets'
    BY StreamsNext, HelloFirstNext, OwedNext
  <1>3. RoutesKnown' /\ CloseIsTrue' /\ CloseFollows'
    BY RoutesKnownNext, CloseIsTrueNext, CloseFollowsNext
  <1>4. StaleRouteExcused' /\ LastGatewayWins'
    BY StaleRouteNext, LastGatewayNext
  <1> QED
    BY <1>1, <1>2, <1>3, <1>4 DEF Inv

\* The invariant holds in every reachable state.
LEMMA Invariant == Spec => []Inv
  BY InitInv, NextInv, PTL DEF Spec

\* Every variable keeps its type (RegisterGateway, GatewayRegistry, streamLoop).
THEOREM TypeCorrect == Spec => []TypeOK
  <1>1. Inv => TypeOK
    BY DEF Inv
  <1> QED
    BY <1>1, Invariant, PTL

\* pushToUser finds streams with a living handler only, and what it wrote is on
\* its way until every session it was for has it, has closed or is cut off,
\* although the end of an old stream deregisters whatever replaced it.
THEOREM PushesLand == Spec => []PushLands
  <1>1. Inv => PushLands
    <2> SUFFICES ASSUME Inv PROVE PushLands
      OBVIOUS
    <2>1. TypeOK /\ Streams /\ EveryDeviceGets
      BY DEF Inv
    <2>2. ASSUME NEW g \in Gateways, gateways[g] # None PROVE stream[g][gateways[g]] # "free"
      <3>1. gateways[g] \in Slots
        BY <2>1, <2>2 DEF TypeOK
      <3> QED
        BY <2>1, <3>1 DEF Streams, StreamAt
    <2> QED
      BY <2>1, <2>2 DEF PushLands, RegisteredIsLive
  <1> QED
    BY <1>1, Invariant, PTL

\* A route to a gateway that the user has left is one whose conn_close is on its
\* way, or one that the end of a broken stream's handler will clear, whatever
\* events the breaks have lost.
THEOREM StaleRoutesAreExcused == Spec => []StaleRouteExcused
  <1>1. Inv => StaleRouteExcused
    BY DEF Inv
  <1> QED
    BY <1>1, Invariant, PTL

\* A user stays with the gateway that reported him last, as long as none of its
\* streams has broken and no session of his there has closed.
THEOREM LastGatewayKeeps == Spec => []LastGatewayWins
  <1>1. Inv => LastGatewayWins
    BY DEF Inv
  <1> QED
    BY <1>1, Invariant, PTL
===============================================================================
