---------------------------- MODULE AccountsProofs ----------------------------
(***************************************************************************)
(* For any users, tokens, handlers, times and limits: the rows a deleted   *)
(* account leaves behind, the answers to a friend request, and how long a  *)
(* lock and a revocation last.                                             *)
(***************************************************************************)
EXTENDS Accounts, TLAPS

\* What the SELECT of a handler found about the group, and that still holds when
\* it writes: the group never comes back.
GroupChecked ==
  \A h \in Handlers :
    /\ At(h, {"leave"}, "checked") => ~(group /\ handler[h].user = Owner)
    /\ At(h, {"kick"}, "checked") => handler[h].user = Owner

Answering(h, p) == At(h, {"accept", "reject"}, "checked") /\ Asked(h) = p

\* A friend request that no two handlers saw pending at once is in one hand at
\* most, and is undecided as long as it is.
OneHand ==
  /\ \A p \in Pairs \ overlapped :
       /\ \A g, h \in Handlers : Answering(g, p) /\ Answering(h, p) => g = h
       /\ \A h \in Handlers : Answering(h, p) => requests[p] \in {"none", "pending"}
       /\ decided[p] <= 1
  /\ \A p \in Pairs : requests[p] \in {"none", "pending"} => decided[p] = 0

\* A login that was not under way when the lock was set began when there was none.
LoginsLate ==
  \A h \in Handlers : handler[h].op = "login" /\ ~handler[h].early =>
    lockedUntil[handler[h].user] <= handler[h].at /\ handler[h].at <= clock

\* The key of a revoked token lives to the second in which the token ends.
KeyLasts ==
  /\ \A k \in revoked : issued[k] # Nobody /\ blacklist[k] >= Ticks * issued[k].exp
  /\ \A h \in Handlers : handler[h].op \in Ops => issued[handler[h].token] # Nobody

Inv == TypeOK /\ NoStrays /\ GroupChecked /\ OneHand /\ LoginsLate /\ KeyLasts

\* The step of a handler, whatever it is.
Move(h) ==
  \/ \E u \in Users : \E pw \in {password[u], MaxRequests + 1} : LoginBegin(h, u, pw)
  \/ LoginFails(h) \/ LoginSucceeds(h)
  \/ \E k \in Tokens, op \in Ops, peer \in Users : Request(h, k, op, peer)
  \/ Check(h) \/ Write(h) \/ WriteFails(h) \/ Revoke(h) \/ Logout(h)

-------------------------------------------------------------------------------
(* Types.                                                                  *)

\* A number lies between two multiples of its divisor.
LEMMA Division ==
  ASSUME NEW a \in Nat, NEW b \in Nat \ {0}
  PROVE  a \div b \in Nat /\ b * (a \div b) <= a /\ a < b * ((a \div b) + 1)
  OBVIOUS

\* The second a tick of the clock is in.
LEMMA SecondType ==
  ASSUME TypeOK
  PROVE  /\ clock \in Nat /\ Second \in Nat
         /\ Ticks * Second <= clock /\ clock < Ticks * (Second + 1)
  <1>1. clock \in Nat /\ Ticks \in Nat \ {0}
    BY AccountsAssumption DEF AccountsAssumption, TypeOK
  <1> QED
    BY <1>1, Division DEF Second

\* What kind of record a handler has follows from its op.
LEMMA HandlerType ==
  ASSUME TypeOK, NEW h \in Handlers
  PROVE  /\ handler[h].op = "login" => handler[h] \in Logins
         /\ handler[h].op \in Ops => handler[h] \in Acts
         /\ handler[h] \in {Free} \cup Logins \cup Acts
         /\ handler[h].op \in Ops \cup {"free", "login"}
  BY DEF TypeOK, Free, Logins, Acts, Ops

\* A handler that takes one step of its own leaves the others alone.
LEMMA BecomeType ==
  ASSUME TypeOK, NEW h \in Handlers, NEW r \in {Free} \cup Logins \cup Acts, Become(h, r)
  PROVE  /\ handler' \in [Handlers -> {Free} \cup Logins \cup Acts]
         /\ handler'[h] = r
         /\ \A g \in Handlers : g # h => handler'[g] = handler[g]
  BY DEF TypeOK, Become

\* A handler that goes on with its act keeps everything but the step.
LEMMA StepType ==
  ASSUME TypeOK, NEW h \in Handlers, handler[h].op \in Ops,
         NEW step \in {"authed", "checked", "written"}, Step(h, step)
  PROVE  /\ handler' \in [Handlers -> {Free} \cup Logins \cup Acts]
         /\ handler'[h] = [handler[h] EXCEPT !.step = step]
         /\ \A g \in Handlers : g # h => handler'[g] = handler[g]
  <1>1. handler[h] \in Acts
    BY HandlerType
  <1>2. [handler[h] EXCEPT !.step = step] \in Acts
    BY <1>1 DEF Acts
  <1> QED
    BY <1>2 DEF TypeOK, Step

\* A friend request has two different users.
LEMMA PairType ==
  ASSUME TypeOK, NEW h \in Handlers, handler[h].op \in Ops
  PROVE  Pair(h) \in Pairs /\ Asked(h) \in Pairs /\ handler[h].user \in Users
  <1>1. handler[h] \in Acts
    BY HandlerType
  <1> QED
    BY <1>1 DEF Acts, Pair, Asked, Pairs

\* The steps of a login keep the types.
LEMMA LoginTypeOK ==
  ASSUME TypeOK, NEW h \in Handlers,
         \/ \E u \in Users : \E pw \in {password[u], MaxRequests + 1} : LoginBegin(h, u, pw)
         \/ LoginFails(h) \/ LoginSucceeds(h)
  PROVE  TypeOK'
  <1>1. ASSUME NEW u \in Users, NEW pw, LoginBegin(h, u, pw) PROVE TypeOK'
    <2> DEFINE r == [op |-> "login", user |-> u, right |-> u \in users /\ pw = password[u],
                     at |-> clock, early |-> FALSE]
    <2>1. r \in Logins
      BY SecondType DEF Logins
    <2>2. Become(h, r) /\ started' \in 0..MaxRequests
      BY <1>1, AccountsAssumption DEF AccountsAssumption, LoginBegin, Arrive, TypeOK
    <2>3. handler' \in [Handlers -> {Free} \cup Logins \cup Acts]
      BY <2>1, <2>2, BecomeType
    <2> QED
      BY <1>1, <2>2, <2>3 DEF LoginBegin, TypeOK, login, relations, ghosts
  <1>2. ASSUME LoginFails(h) PROVE TypeOK'
    <2>1. handler[h] \in Logins
      BY <1>2, HandlerType DEF LoginFails
    <2>2. PICK u \in Users : u = handler[h].user
      BY <2>1 DEF Logins
    <2>3. recordLoginFailure(h, u)
      BY <1>2, <2>2 DEF LoginFails
    <2>4. Done(h) \/ handler' = Overtaken(h, u)
      BY <2>3 DEF recordLoginFailure
    <2>5. handler' \in [Handlers -> {Free} \cup Logins \cup Acts]
      <3>1. CASE Done(h)
        BY <3>1, BecomeType DEF Done
      <3>2. CASE handler' = Overtaken(h, u)
        <4>1. ASSUME NEW g \in Handlers, handler[g].op = "login"
              PROVE  [handler[g] EXCEPT !.early = TRUE] \in Logins
          BY <4>1, HandlerType DEF Logins
        <4> QED
          BY <3>2, <4>1 DEF Overtaken, TypeOK
      <3> QED
        BY <2>4, <3>1, <3>2
    <2>6. failures' \in [Users -> 0..(MaxFailures - 1)] /\ lockedUntil' \in [Users -> Nat]
      <3>1. handler[h].at + LockTime \in Nat
        BY <2>1, AccountsAssumption DEF AccountsAssumption, Logins
      <3>2. failures[u] \in Nat /\ MaxFailures \in Nat \ {0}
        BY AccountsAssumption DEF AccountsAssumption, TypeOK
      <3> QED
        BY <2>3, <3>1, <3>2 DEF recordLoginFailure, TypeOK
    <2> QED
      BY <1>2, <2>5, <2>6 DEF LoginFails, TypeOK, relations, ghosts
  <1>3. ASSUME LoginSucceeds(h) PROVE TypeOK'
    <2>1. handler[h] \in Logins
      BY <1>3, HandlerType DEF LoginSucceeds
    <2>2. PICK u \in Users : u = handler[h].user
      BY <2>1 DEF Logins
    <2>3. PICK k \in Tokens : issued' = [issued EXCEPT ![k] = [user |-> u, exp |-> Second + Life]]
      BY <1>3, <2>2 DEF LoginSucceeds, generateWithJti
    <2>4. Second + Life \in Nat
      BY SecondType, AccountsAssumption DEF AccountsAssumption
    <2>5. issued' \in [Tokens -> {Nobody} \cup [user : Users, exp : Nat]]
      BY <2>3, <2>4 DEF TypeOK
    <2>6. handler' \in [Handlers -> {Free} \cup Logins \cup Acts]
      BY <1>3, BecomeType DEF LoginSucceeds, Done
    <2>7. failures' \in [Users -> 0..(MaxFailures - 1)] /\ lockedUntil' \in [Users -> Nat]
      <3>1. 0 \in 0..(MaxFailures - 1)
        BY AccountsAssumption DEF AccountsAssumption
      <3>2. failures' = [failures EXCEPT ![u] = 0] /\ lockedUntil' = [lockedUntil EXCEPT ![u] = 0]
        BY <1>3, <2>2 DEF LoginSucceeds
      <3> QED
        BY <3>1, <3>2 DEF TypeOK
    <2> QED
      BY <1>3, <2>5, <2>6, <2>7 DEF LoginSucceeds, TypeOK, relations, ghosts
  <1> QED
    BY <1>1, <1>2, <1>3

\* So does a request that comes in: its user is the one of the token.
LEMMA RequestTypeOK ==
  ASSUME TypeOK, NEW h \in Handlers, NEW k \in Tokens, NEW op \in Ops, NEW peer \in Users,
         Request(h, k, op, peer)
  PROVE  TypeOK'
  <1> DEFINE u == issued[k].user
             r == [op |-> op, user |-> u, peer |-> peer, token |-> k, typed |-> password[u],
                   step |-> "authed"]
  <1>1. u \in Users /\ peer # u
    BY DEF Request, verify, TypeOK
  <1>2. r \in Acts
    BY <1>1 DEF Acts, TypeOK
  <1>3. Become(h, r) /\ started' \in 0..MaxRequests
    BY AccountsAssumption DEF AccountsAssumption, Request, Arrive, TypeOK
  <1>4. handler' \in [Handlers -> {Free} \cup Logins \cup Acts]
    BY <1>2, <1>3, BecomeType
  <1>5. faults' \in 0..MaxFaults
    BY AccountsAssumption DEF AccountsAssumption, Request, Fault, TypeOK
  <1> QED
    BY <1>3, <1>4, <1>5 DEF Request, TypeOK, login, relations, ghosts

\* So does the SELECT of a handler.
LEMMA CheckTypeOK == ASSUME TypeOK, NEW h \in Handlers, Check(h) PROVE TypeOK'
  <1>1. handler[h].op \in Ops
    BY DEF Check, At
  <1>2. Asked(h) \in Pairs
    BY <1>1, PairType
  <1>3. handler' \in [Handlers -> {Free} \cup Logins \cup Acts]
    BY <1>1, StepType, BecomeType DEF Check, Done
  <1>4. overlapped' \subseteq Pairs
    BY <1>2 DEF Check, TypeOK
  <1> QED
    BY <1>3, <1>4 DEF Check, TypeOK, login, relations

\* So does a revocation.
LEMMA RevokedTypeOK ==
  ASSUME TypeOK, NEW h \in Handlers, handler[h].op \in Ops, Revoked(h)
  PROVE  TypeOK'
  <1>1. handler[h].token \in Tokens
    BY HandlerType DEF Acts
  <1>2. PICK k \in Tokens : k = handler[h].token
    BY <1>1
  <1>3. revoke(k)
    BY <1>2 DEF Revoked
  <1>4. remainingSeconds(k) \in Nat
    BY SecondType DEF remainingSeconds, TypeOK, Nobody
  <1>5. clock + Ticks * remainingSeconds(k) \in Nat
    BY <1>4, SecondType, AccountsAssumption DEF AccountsAssumption
  <1>6. blacklist' \in [Tokens -> Nat] /\ revoked' \subseteq Tokens
    BY <1>3, <1>5 DEF revoke, TypeOK
  <1>7. faults' \in 0..MaxFaults
    BY <1>3, AccountsAssumption DEF AccountsAssumption, revoke, Fault, TypeOK
  <1>8. handler' \in [Handlers -> {Free} \cup Logins \cup Acts]
    BY BecomeType DEF Revoked, Done
  <1> QED
    BY <1>6, <1>7, <1>8 DEF Revoked, TypeOK, login, relations

\* So does a transaction that fails.
LEMMA WriteFailsTypeOK == ASSUME TypeOK, NEW h \in Handlers, WriteFails(h) PROVE TypeOK'
  <1>1. handler' \in [Handlers -> {Free} \cup Logins \cup Acts]
    BY BecomeType DEF WriteFails, Done
  <1>2. faults' \in 0..MaxFaults
    BY AccountsAssumption DEF AccountsAssumption, WriteFails, Fault, TypeOK
  <1> QED
    BY <1>1, <1>2 DEF WriteFails, TypeOK, login, relations, ghosts

\* Befriending two users keeps the friends pairs of users.
LEMMA BefriendType ==
  ASSUME TypeOK, NEW p \in Pairs, Befriend(p)
  PROVE  friends' \subseteq Pairs
  BY DEF TypeOK, Befriend, Both, Pairs

\* So do the writes of the services.
LEMMA WriteTypeOK == ASSUME TypeOK, NEW h \in Handlers, Write(h) PROVE TypeOK'
  <1>0. handler[h].op \in Ops
    BY DEF Write, WriteFriends, WriteGroup, addFriend, deleteFriend, sendRequest, handleRequest,
           joinGroup, leaveGroup, kickMember, deleteGroup, deleteAccount, changePassword, At, Ops
  <1>1. Pair(h) \in Pairs /\ Asked(h) \in Pairs /\ handler[h].user \in Users
    BY <1>0, PairType
  <1>2. handler' \in [Handlers -> {Free} \cup Logins \cup Acts]
    BY <1>0, BecomeType, StepType DEF Write, Done
  <1> DEFINE Rel == /\ users' \subseteq Users
                    /\ friends' \subseteq Pairs /\ members' \subseteq Users
                    /\ requests' \in [Pairs -> {"none", "pending", "accepted", "rejected"}]
                    /\ group' \in BOOLEAN
                    /\ decided' \in [Pairs -> Nat]
  <1>3. ASSUME WriteFriends(h) PROVE Rel
    <2>1. CASE addFriend(h)
      BY <1>1, <2>1, BefriendType DEF addFriend, TypeOK
    <2>2. CASE deleteFriend(h)
      BY <2>2 DEF deleteFriend, TypeOK
    <2>3. CASE sendRequest(h)
      BY <1>1, <2>3 DEF sendRequest, TypeOK
    <2>4. CASE handleRequest(h)
      <3>1. friends' \subseteq Pairs
        BY <1>1, <2>4, BefriendType DEF handleRequest, TypeOK
      <3>2. PICK a \in {"accepted", "rejected"} : Decide(Asked(h), a)
        BY <2>4 DEF handleRequest
      <3>3. /\ requests' \in [Pairs -> {"none", "pending", "accepted", "rejected"}]
            /\ decided' \in [Pairs -> Nat]
        BY <1>1, <3>2 DEF Decide, TypeOK
      <3> QED
        BY <2>4, <3>1, <3>3 DEF handleRequest, TypeOK
    <2> QED
      BY <1>3, <2>1, <2>2, <2>3, <2>4 DEF WriteFriends
  <1>4. ASSUME WriteGroup(h) PROVE Rel
    BY <1>1, <1>4 DEF WriteGroup, joinGroup, leaveGroup, kickMember, deleteGroup, TypeOK
  <1>5. ASSUME deleteAccount(h) PROVE Rel
    BY <1>1, <1>5 DEF deleteAccount, TypeOK
  <1>6. ASSUME changePassword(h) PROVE password' \in [Users -> Nat]
    BY <1>1, <1>6 DEF changePassword, TypeOK
  <1>7. Rel
    BY <1>3, <1>4, <1>5 DEF Write, relations, TypeOK
  <1>8. password' \in [Users -> Nat]
    BY <1>6 DEF Write, TypeOK
  <1> QED
    BY <1>2, <1>7, <1>8 DEF Write, TypeOK

\* Every step of a handler keeps the types.
LEMMA MoveTypeOK == ASSUME TypeOK, NEW h \in Handlers, Move(h) PROVE TypeOK'
  BY LoginTypeOK, RequestTypeOK, CheckTypeOK, WriteTypeOK, WriteFailsTypeOK, RevokedTypeOK
  DEF Move, Revoke, Logout, At, Ops

-------------------------------------------------------------------------------
(* What a step does to the handlers.                                       *)

\* The act of a handler after a step: it had it before, it has just passed the
\* check of its token or of its SELECT, or it has just written.
LEMMA HandlerMoves ==
  ASSUME TypeOK, NEW h \in Handlers, Move(h), NEW g \in Handlers, handler'[g].op \in Ops
  PROVE  \/ handler'[g] = handler[g]
         \/ /\ handler'[g].step = "authed"
            /\ issued[handler'[g].token] # Nobody
         \/ /\ handler[g].op \in Ops
            /\ handler'[g] = [handler[g] EXCEPT !.step = "written"]
         \/ /\ g = h /\ Check(h) /\ Allowed(h)
            /\ handler'[g] = [handler[g] EXCEPT !.step = "checked"]
  <1> USE DEF Ops
  <1>1. ASSUME Done(h) PROVE handler'[g] = handler[g]
    BY <1>1, BecomeType DEF Done, Free
  <1>2. ASSUME NEW u \in Users, NEW pw, LoginBegin(h, u, pw) PROVE handler'[g] = handler[g]
    BY <1>2 DEF LoginBegin, Arrive, Become, TypeOK
  <1>3. ASSUME LoginFails(h) PROVE handler'[g] = handler[g]
    <2>1. CASE handler' = Overtaken(h, handler[h].user)
      <3>1. g # h
        BY <2>1 DEF Overtaken, Free
      <3>2. ASSUME handler[g].op = "login" PROVE [handler[g] EXCEPT !.early = TRUE].op = "login"
        BY <3>2, HandlerType DEF Logins
      <3> QED
        BY <2>1, <3>1, <3>2 DEF Overtaken
    <2> QED
      BY <1>1, <1>3, <2>1 DEF LoginFails, recordLoginFailure
  <1>4. ASSUME NEW k \in Tokens, NEW op \in Ops, NEW peer \in Users, Request(h, k, op, peer)
        PROVE  \/ handler'[g] = handler[g]
               \/ handler'[g].step = "authed" /\ issued[handler'[g].token] # Nobody
    BY <1>4 DEF Request, Arrive, Become, verify, TypeOK
  <1>5. ASSUME Check(h)
        PROVE  \/ handler'[g] = handler[g]
               \/ /\ g = h /\ Check(h) /\ Allowed(h)
                  /\ handler'[g] = [handler[g] EXCEPT !.step = "checked"]
    <2>1. handler[h].op \in Ops
      BY <1>5 DEF Check, At
    <2> QED
      BY <1>1, <1>5, <2>1, StepType DEF Check
  <1>6. ASSUME Write(h)
        PROVE  \/ handler'[g] = handler[g]
               \/ /\ handler[g].op \in Ops
                  /\ handler'[g] = [handler[g] EXCEPT !.step = "written"]
    <2>1. ASSUME deleteAccount(h) \/ changePassword(h) PROVE handler[h].op \in Ops
      BY <2>1 DEF deleteAccount, changePassword, At
    <2> QED
      BY <1>1, <1>6, <2>1, StepType DEF Write
  <1> QED
    BY <1>1, <1>2, <1>3, <1>4, <1>5, <1>6
    DEF Move, LoginSucceeds, WriteFails, Revoke, Logout, Revoked

-------------------------------------------------------------------------------
(* Friends, requests and the group.                                        *)

\* The group never comes back, and neither does a user.
LEMMA NothingReturns ==
  ASSUME TypeOK, NEW h \in Handlers, Move(h)
  PROVE  (group' => group) /\ users' \subseteq users
  <1>1. ASSUME WriteFriends(h) PROVE users' = users /\ group' = group
    BY <1>1 DEF WriteFriends, addFriend, deleteFriend, sendRequest, handleRequest
  <1>2. ASSUME WriteGroup(h) PROVE users' = users /\ (group' = group \/ group' = FALSE)
    BY <1>2 DEF WriteGroup, joinGroup, leaveGroup, kickMember, deleteGroup
  <1>3. ASSUME deleteAccount(h) PROVE users' \subseteq users /\ (group' => group)
    BY <1>3 DEF deleteAccount
  <1>4. ASSUME Write(h) PROVE (group' => group) /\ users' \subseteq users
    <2>1. ASSUME UNCHANGED relations PROVE users' = users /\ group' = group
      BY <2>1 DEF relations
    <2>2. ASSUME users' = users, group' = group
          PROVE  (group' => group) /\ users' \subseteq users
      BY <2>2, Zenon
    <2>3. WriteFriends(h) \/ WriteGroup(h) \/ deleteAccount(h) \/ UNCHANGED relations
      BY <1>4 DEF Write
    <2> QED
      BY <1>1, <1>2, <1>3, <2>1, <2>2, <2>3, Zenon
  <1>5. Write(h) \/ UNCHANGED relations
    BY DEF Move, LoginBegin, LoginFails, LoginSucceeds, Request, Check, WriteFails,
           Revoke, Logout, Revoked
  <1>6. ASSUME UNCHANGED relations PROVE (group' => group) /\ users' \subseteq users
    <2>1. users' = users /\ group' = group
      BY <1>6 DEF relations
    <2> QED
      BY <2>1, Zenon
  <1> QED
    BY <1>4, <1>5, <1>6

\* Friendship stays mutual.
LEMMA BefriendMutual ==
  ASSUME TypeOK, NoStrays, NEW p \in Pairs, Befriend(p), UNCHANGED users
  PROVE  \A q \in friends' : Known(q)' /\ Both(q) \subseteq friends'
  <1> SUFFICES ASSUME NEW q \in friends' PROVE Known(q)' /\ Both(q) \subseteq friends'
    OBVIOUS
  <1>1. CASE q \in friends
    BY <1>1 DEF NoStrays, Befriend, Known
  <1>2. CASE q \notin friends
    <2>1. Known(p) /\ q \in Both(p) /\ friends' = friends \cup Both(p)
      BY <1>2 DEF Befriend
    <2>2. Both(q) = Both(p)
      BY <2>1 DEF Both, Pairs
    <2> QED
      BY <2>1, <2>2 DEF Known, Both
  <1> QED
    BY <1>1, <1>2

\* Every write of the services leaves whole rows.
LEMMA WriteNoStrays ==
  ASSUME TypeOK, NoStrays, GroupChecked, NEW h \in Handlers, Write(h)
  PROVE  NoStrays'
  <1> DEFINE F == \A q \in friends' : Known(q)' /\ Both(q) \subseteq friends'
             R == \A q \in Pairs : requests'[q] # "none" => Known(q)'
             M == /\ members' \subseteq users'
                  /\ group' => Owner \in members'
                  /\ ~group' => members' = {}
  <1>0. \A q : users' = users => Known(q)' = Known(q)
    BY DEF Known
  <1>1. UNCHANGED <<users, group, members>> => M
    BY DEF NoStrays
  <1>2. UNCHANGED <<users, friends>> => F
    BY <1>0 DEF NoStrays
  <1>3. UNCHANGED <<users, requests>> => R
    BY <1>0 DEF NoStrays
  <1>4. ASSUME addFriend(h) PROVE F /\ R /\ M
    <2>1. Pair(h) \in Pairs
      BY <1>4, PairType DEF addFriend, At, Ops
    <2> QED
      BY <1>1, <1>3, <1>4, <2>1, BefriendMutual DEF addFriend
  <1>5. ASSUME deleteFriend(h) PROVE F /\ R /\ M
    <2>1. Pair(h) \in Pairs
      BY <1>5, PairType DEF deleteFriend, At, Ops
    <2>2. PICK p \in Pairs : p = Pair(h)
      BY <2>1
    <2>3. friends' = friends \ Both(p)
      BY <1>5, <2>2 DEF deleteFriend
    <2>4. ASSUME NEW q \in friends' PROVE Known(q)' /\ Both(q) \subseteq friends'
      <3>1. q \in friends /\ q \in Pairs /\ q \notin Both(p)
        BY <2>3 DEF TypeOK
      <3>2. Both(q) \subseteq friends /\ Known(q)
        BY <3>1 DEF NoStrays
      <3>3. <<q[2], q[1]>> \notin Both(p)
        BY <3>1 DEF Both, Pairs
      <3> QED
        BY <1>0, <1>5, <2>3, <3>1, <3>2, <3>3 DEF Both, deleteFriend
    <2> QED
      BY <1>1, <1>3, <1>5, <2>4 DEF deleteFriend
  <1>6. ASSUME sendRequest(h) PROVE F /\ R /\ M
    <2>1. Pair(h) \in Pairs
      BY <1>6, PairType DEF sendRequest, At, Ops
    <2>2. R
      BY <1>0, <1>6, <2>1 DEF sendRequest, NoStrays, TypeOK
    <2> QED
      BY <1>1, <1>2, <1>6, <2>2 DEF sendRequest
  <1>7. ASSUME handleRequest(h) PROVE F /\ R /\ M
    <2>1. Asked(h) \in Pairs
      BY <1>7, PairType DEF handleRequest, At, Ops
    <2>2. \/ Befriend(Asked(h)) /\ UNCHANGED users
          \/ UNCHANGED <<users, friends>>
      BY <1>7 DEF handleRequest
    <2>3. PICK a \in {"accepted", "rejected"} : Decide(Asked(h), a)
      BY <1>7 DEF handleRequest
    <2>4. R
      BY <1>0, <1>7, <2>1, <2>3 DEF handleRequest, Decide, NoStrays, TypeOK
    <2> QED
      BY <1>1, <1>2, <1>7, <2>1, <2>2, <2>4, BefriendMutual DEF handleRequest
  <1>8. ASSUME WriteGroup(h) PROVE F /\ R /\ M
    <2>1. UNCHANGED <<users, friends, requests>>
      BY <1>8 DEF WriteGroup, joinGroup, leaveGroup, kickMember, deleteGroup
    <2>2. handler[h].op \in Ops
      BY <1>8 DEF WriteGroup, joinGroup, leaveGroup, kickMember, deleteGroup, At, Ops
    <2>3. handler[h] \in Acts
      BY <2>2, HandlerType
    <2>4. ASSUME joinGroup(h) PROVE M
      BY <2>4 DEF joinGroup, NoStrays
    <2>5. ASSUME leaveGroup(h) PROVE M
      BY <2>5 DEF leaveGroup, NoStrays, GroupChecked
    <2>6. ASSUME kickMember(h) PROVE M
      BY <2>3, <2>6 DEF kickMember, NoStrays, GroupChecked, Acts
    <2>7. ASSUME deleteGroup(h) PROVE M
      BY <2>7 DEF deleteGroup, NoStrays
    <2> QED
      BY <1>2, <1>3, <1>8, <2>1, <2>4, <2>5, <2>6, <2>7 DEF WriteGroup
  <1>9. ASSUME deleteAccount(h) PROVE F /\ R /\ M
    <2>1. PICK u : u = handler[h].user
      OBVIOUS
    <2>2. /\ users' = users \ {u}
          /\ friends' = {p \in friends : u \notin {p[1], p[2]}}
          /\ requests' = [p \in Pairs |-> IF u \in {p[1], p[2]} THEN "none" ELSE requests[p]]
          /\ group' = (group /\ u # Owner)
          /\ members' = IF u = Owner THEN {} ELSE members \ {u}
      BY <1>9, <2>1 DEF deleteAccount
    <2>3. F
      <3>1. \A q \in friends : q \in Pairs /\ Known(q) /\ Both(q) \subseteq friends
        BY DEF NoStrays, TypeOK
      <3> QED
        <4> SUFFICES ASSUME NEW q \in friends' PROVE Known(q)' /\ Both(q) \subseteq friends'
          OBVIOUS
        <4>1. q \in friends /\ u # q[1] /\ u # q[2]
          BY <2>2
        <4>2. <<q[2], q[1]>> \in friends'
          BY <2>2, <3>1, <4>1 DEF Both
        <4> QED
          BY <2>2, <3>1, <4>1, <4>2 DEF Known, Both
    <2>4. R
      BY <2>2 DEF NoStrays, Known
    <2>5. M
      BY <2>2 DEF NoStrays
    <2> QED
      BY <2>3, <2>4, <2>5
  <1>10. ASSUME UNCHANGED relations PROVE F /\ R /\ M
    BY <1>1, <1>2, <1>3, <1>10 DEF relations
  <1>11. F /\ R /\ M
    BY <1>4, <1>5, <1>6, <1>7, <1>8, <1>9, <1>10 DEF Write, WriteFriends
  <1> QED
    BY <1>11 DEF NoStrays

\* The checks that a handler has passed still hold when it comes to write.
LEMMA MoveGroupChecked ==
  ASSUME TypeOK, GroupChecked, NEW h \in Handlers, Move(h)
  PROVE  GroupChecked'
  <1> SUFFICES ASSUME NEW g \in Handlers
               PROVE  /\ At(g, {"leave"}, "checked")' => ~(group' /\ handler'[g].user = Owner)
                      /\ At(g, {"kick"}, "checked")' => handler'[g].user = Owner
    BY DEF GroupChecked
  <1>1. SUFFICES ASSUME handler'[g].op \in {"leave", "kick"}, handler'[g].step = "checked"
                 PROVE  /\ handler'[g].op = "leave" => ~(group' /\ handler'[g].user = Owner)
                        /\ handler'[g].op = "kick" => handler'[g].user = Owner
    BY DEF At
  <1>2. handler'[g].op \in Ops
    BY <1>1 DEF Ops
  <1>3. group' => group
    BY NothingReturns
  <1>4. CASE handler'[g] = handler[g]
    BY <1>1, <1>3, <1>4 DEF GroupChecked, At
  <1>5. CASE /\ g = h /\ Check(h) /\ Allowed(h)
             /\ handler'[g] = [handler[g] EXCEPT !.step = "checked"]
    <2>1. handler[g] \in Acts
      BY <1>5, HandlerType DEF Check, At, Ops
    <2>2. handler'[g].op = handler[g].op /\ handler'[g].user = handler[g].user
      BY <1>5, <2>1 DEF Acts
    <2>3. /\ handler[g].op = "leave" => ~(group /\ handler[g].user = Owner)
          /\ handler[g].op = "kick" => handler[g].user = Owner
      BY <1>5 DEF Allowed
    <2> QED
      BY <1>3, <2>2, <2>3
  <1>6. CASE handler'[g].step = "authed"
    BY <1>1, <1>6
  <1>7. CASE handler[g].op \in Ops /\ handler'[g] = [handler[g] EXCEPT !.step = "written"]
    BY <1>1, <1>7, HandlerType DEF Acts
  <1> QED
    BY <1>2, <1>4, <1>5, <1>6, <1>7, HandlerMoves

-------------------------------------------------------------------------------
(* Answers to friend requests.                                             *)

\* A handler that has a friend request in hand had it before, or has just seen
\* that it is pending.
LEMMA AnsweringMoves ==
  ASSUME TypeOK, NEW h \in Handlers, Move(h), NEW g \in Handlers, NEW p \in Pairs,
         Answering(g, p)'
  PROVE  \/ Answering(g, p) /\ handler'[g] = handler[g]
         \/ g = h /\ Check(h) /\ Allowed(h) /\ Asked(h) = p /\ handler[h].op \in {"accept", "reject"}
  <1>1. /\ handler'[g].op \in {"accept", "reject"} /\ handler'[g].step = "checked"
        /\ p = <<handler'[g].peer, handler'[g].user>>
    BY DEF Answering, At, Asked
  <1>2. handler'[g].op \in Ops
    BY <1>1 DEF Ops
  <1>4. CASE handler'[g] = handler[g]
    BY <1>1, <1>4 DEF Answering, At, Asked
  <1>5. CASE /\ g = h /\ Check(h) /\ Allowed(h)
             /\ handler'[g] = [handler[g] EXCEPT !.step = "checked"]
    <2>1. handler[g] \in Acts
      BY <1>5, HandlerType DEF Check, At, Ops
    <2>2. /\ handler'[g].op = handler[g].op /\ handler'[g].user = handler[g].user
          /\ handler'[g].peer = handler[g].peer
      BY <1>5, <2>1 DEF Acts
    <2> QED
      BY <1>1, <1>5, <2>2 DEF Asked
  <1>6. CASE handler'[g].step = "authed"
    BY <1>1, <1>6
  <1>7. CASE handler[g].op \in Ops /\ handler'[g] = [handler[g] EXCEPT !.step = "written"]
    BY <1>1, <1>7, HandlerType DEF Acts
  <1> QED
    BY <1>2, <1>4, <1>5, <1>6, <1>7, HandlerMoves

\* A second handler that finds a request pending leaves its mark.
LEMMA CheckOneHand ==
  ASSUME TypeOK, OneHand, NEW h \in Handlers, Check(h)
  PROVE  OneHand'
  <1>0. Move(h) /\ requests' = requests /\ decided' = decided /\ overlapped \subseteq overlapped'
    BY DEF Move, Check, relations
  <1>1. ASSUME NEW p \in Pairs \ overlapped', NEW g \in Handlers, Answering(g, p)'
        PROVE  requests[p] \in {"none", "pending"}
    <2>1. CASE Answering(g, p)
      BY <1>0, <1>1, <2>1 DEF OneHand
    <2>2. CASE Allowed(h) /\ Asked(h) = p /\ handler[h].op \in {"accept", "reject"}
      BY <2>2 DEF Allowed
    <2> QED
      BY <1>0, <1>1, <2>1, <2>2, AnsweringMoves
  <1>2. ASSUME NEW p \in Pairs \ overlapped', NEW g \in Handlers, Answering(g, p),
               Asked(h) = p, handler[h].op \in {"accept", "reject"}
        PROVE  g = h
    BY <1>2 DEF Check, Rivals, Answering
  <1>3. ASSUME NEW p \in Pairs \ overlapped', NEW f \in Handlers, NEW g \in Handlers,
               Answering(f, p)', Answering(g, p)'
        PROVE  f = g
    <2>1. ASSUME NEW e \in Handlers, Answering(e, p)'
          PROVE  \/ Answering(e, p)
                 \/ e = h /\ Asked(h) = p /\ handler[h].op \in {"accept", "reject"}
      BY <1>0, <2>1, AnsweringMoves
    <2>2. Answering(f, p) /\ Answering(g, p) => f = g
      BY <1>0 DEF OneHand
    <2> QED
      BY <1>2, <1>3, <2>1, <2>2
  <1>4. \A p \in Pairs \ overlapped' : decided'[p] <= 1
    BY <1>0 DEF OneHand
  <1> QED
    BY <1>0, <1>1, <1>3, <1>4 DEF OneHand

\* The answer is written by the only hand, and decides the request.
LEMMA AnswerOneHand ==
  ASSUME TypeOK, OneHand, NEW h \in Handlers, Write(h), handleRequest(h), Done(h)
  PROVE  OneHand'
  <1>0. Move(h) /\ overlapped' = overlapped
    BY DEF Move, Write
  <1>1. PICK q \in Pairs : q = Asked(h) /\ Answering(h, q)
    BY PairType DEF handleRequest, Answering, At, Ops
  <1>2. PICK a \in {"accepted", "rejected"} : Decide(q, a)
    BY <1>1 DEF handleRequest
  <1>3. \A p \in Pairs : p # q => requests'[p] = requests[p] /\ decided'[p] = decided[p]
    BY <1>2 DEF Decide, TypeOK
  <1>4. requests'[q] \in {"none", "pending"} => requests[q] = "none" /\ decided'[q] = decided[q]
    BY <1>2 DEF Decide, TypeOK
  <1>5. q \notin overlapped => decided[q] = 0
    BY <1>1 DEF OneHand
  <1>6. decided'[q] \in {decided[q], decided[q] + 1}
    BY <1>2 DEF Decide, TypeOK
  <1>7. handler'[h] = Free
    BY BecomeType DEF Done
  <1>8. ASSUME NEW g \in Handlers, NEW p \in Pairs, Answering(g, p)'
        PROVE  g # h /\ Answering(g, p)
    <2>1. g # h
      BY <1>7, <1>8 DEF Answering, At, Free
    <2> QED
      BY <1>0, <1>8, <2>1, AnsweringMoves
  <1>9. ASSUME NEW g \in Handlers, NEW p \in Pairs \ overlapped, Answering(g, p)'
        PROVE  p # q
    BY <1>1, <1>8, <1>9 DEF OneHand
  <1>10. ASSUME NEW p \in Pairs \ overlapped PROVE decided'[p] <= 1
    BY <1>3, <1>5, <1>6 DEF OneHand
  <1>11. ASSUME NEW p \in Pairs, requests'[p] \in {"none", "pending"} PROVE decided'[p] = 0
    BY <1>3, <1>4, <1>11 DEF OneHand
  <1>12. ASSUME NEW p \in Pairs \ overlapped, NEW g \in Handlers, Answering(g, p)'
         PROVE  requests'[p] \in {"none", "pending"}
    BY <1>3, <1>8, <1>9, <1>12 DEF OneHand
  <1>13. ASSUME NEW p \in Pairs \ overlapped, NEW f \in Handlers, NEW g \in Handlers,
                Answering(f, p)', Answering(g, p)'
         PROVE  f = g
    BY <1>8, <1>13 DEF OneHand
  <1> QED
    BY <1>0, <1>10, <1>11, <1>12, <1>13 DEF OneHand

\* Other steps leave a request undecided, or take it away with its account.
LEMMA OtherOneHand ==
  ASSUME TypeOK, OneHand, NEW h \in Handlers, Move(h), ~Check(h), overlapped' = overlapped,
         \A p \in Pairs :
           \/ requests'[p] = requests[p] /\ decided'[p] = decided[p]
           \/ requests[p] = "none" /\ requests'[p] = "pending" /\ decided'[p] = decided[p]
           \/ requests'[p] = "none" /\ decided'[p] = 0
  PROVE  OneHand'
  <1>1. ASSUME NEW g \in Handlers, NEW p \in Pairs, Answering(g, p)' PROVE Answering(g, p)
    BY <1>1, AnsweringMoves
  <1>2. ASSUME NEW p \in Pairs, requests'[p] \in {"none", "pending"} PROVE decided'[p] = 0
    BY <1>2 DEF OneHand
  <1>3. ASSUME NEW p \in Pairs \ overlapped PROVE decided'[p] <= 1
    BY DEF OneHand
  <1>4. ASSUME NEW p \in Pairs \ overlapped, NEW g \in Handlers, Answering(g, p)'
        PROVE  requests'[p] \in {"none", "pending"}
    BY <1>1, <1>4 DEF OneHand
  <1>5. ASSUME NEW p \in Pairs \ overlapped, NEW f \in Handlers, NEW g \in Handlers,
               Answering(f, p)', Answering(g, p)'
        PROVE  f = g
    BY <1>1, <1>5 DEF OneHand
  <1> QED
    BY <1>2, <1>3, <1>4, <1>5 DEF OneHand

\* Every step keeps a friend request in one hand.
LEMMA MoveOneHand ==
  ASSUME TypeOK, OneHand, NEW h \in Handlers, Move(h)
  PROVE  OneHand'
  <1> DEFINE Same == requests' = requests /\ decided' = decided
  <1>1. CASE Check(h)
    BY <1>1, CheckOneHand
  <1>2. CASE Write(h) /\ handleRequest(h)
    <2>1. Done(h)
      BY <1>2 DEF Write, handleRequest, deleteAccount, changePassword, At
    <2> QED
      BY <1>2, <2>1, AnswerOneHand
  <1>3. CASE Write(h) /\ sendRequest(h) /\ ~Check(h)
    <2>1. Pair(h) \in Pairs
      BY <1>3, PairType DEF sendRequest, At, Ops
    <2>2. decided' = decided /\ overlapped' = overlapped
      BY <1>3 DEF Write, sendRequest
    <2>3. \A p \in Pairs :
            \/ requests'[p] = requests[p]
            \/ requests[p] = "none" /\ requests'[p] = "pending"
      BY <1>3, <2>1 DEF sendRequest, TypeOK
    <2> QED
      BY <1>3, <2>2, <2>3, OtherOneHand
  <1>4. CASE Write(h) /\ deleteAccount(h) /\ ~Check(h)
    <2>1. overlapped' = overlapped
      BY <1>4 DEF Write
    <2>2. \A p \in Pairs :
            \/ requests'[p] = requests[p] /\ decided'[p] = decided[p]
            \/ requests'[p] = "none" /\ decided'[p] = 0
      BY <1>4 DEF deleteAccount
    <2> QED
      BY <1>4, <2>1, <2>2, OtherOneHand
  <1>5. CASE Same /\ overlapped' = overlapped /\ ~Check(h)
    BY <1>5, OtherOneHand
  <1>6. ASSUME Write(h), ~handleRequest(h), ~sendRequest(h), ~deleteAccount(h)
        PROVE  Same /\ overlapped' = overlapped
    BY <1>6 DEF Write, WriteFriends, WriteGroup, addFriend, deleteFriend, joinGroup, leaveGroup,
                kickMember, deleteGroup, relations
  <1>7. ASSUME ~Write(h), ~Check(h) PROVE Same /\ overlapped' = overlapped
    BY <1>7 DEF Move, LoginBegin, LoginFails, LoginSucceeds, Request, WriteFails, Revoke, Logout,
                Revoked, relations, ghosts
  <1> QED
    BY <1>1, <1>2, <1>3, <1>4, <1>5, <1>6, <1>7

-------------------------------------------------------------------------------
(* Locks.                                                                  *)

\* What a step that is not a login does to logins: it leaves them alone.
LEMMA LoginsStay ==
  ASSUME TypeOK, NEW h \in Handlers, Move(h), NEW g \in Handlers, handler'[g].op = "login",
         ~LoginFails(h), ~(\E u \in Users : \E pw \in {password[u], MaxRequests + 1} : LoginBegin(h, u, pw))
  PROVE  handler'[g] = handler[g]
  <1>1. ASSUME Done(h) PROVE handler'[g] = handler[g]
    BY <1>1, BecomeType DEF Done, Free
  <1>2. ASSUME NEW step \in {"authed", "checked", "written"}, Step(h, step), handler[h].op \in Ops
        PROVE  handler'[g] = handler[g]
    <2>1. CASE g = h
      <3>1. handler'[h].op \in Ops
        <4>1. handler[h] \in Acts /\ handler'[h] = [handler[h] EXCEPT !.step = step]
          BY <1>2, StepType, HandlerType
        <4> QED
          BY <4>1 DEF Acts
      <3> QED
        BY <2>1, <3>1 DEF Ops
    <2>2. CASE g # h
      BY <1>2, <2>2, StepType
    <2> QED
      BY <2>1, <2>2
  <1>3. ASSUME NEW k \in Tokens, NEW op \in Ops, NEW peer \in Users, Request(h, k, op, peer)
        PROVE  handler'[g] = handler[g]
    BY <1>3 DEF Request, Arrive, Become, TypeOK, Ops
  <1>4. ASSUME Check(h) PROVE handler'[g] = handler[g]
    BY <1>1, <1>2, <1>4 DEF Check, At
  <1>5. ASSUME Write(h) PROVE handler'[g] = handler[g]
    <2>1. ASSUME deleteAccount(h) \/ changePassword(h) PROVE handler[h].op \in Ops
      BY <2>1 DEF deleteAccount, changePassword, At, Ops
    <2> QED
      BY <1>1, <1>2, <1>5, <2>1 DEF Write
  <1> QED
    BY <1>1, <1>3, <1>4, <1>5 DEF Move, LoginSucceeds, WriteFails, Revoke, Logout, Revoked

\* Every step keeps the logins that are not early behind the lock.
LEMMA MoveLoginsLate ==
  ASSUME TypeOK, LoginsLate, NEW h \in Handlers, Move(h)
  PROVE  LoginsLate'
  <1> SUFFICES ASSUME NEW g \in Handlers, handler'[g].op = "login", ~handler'[g].early
               PROVE  /\ lockedUntil'[handler'[g].user] <= handler'[g].at
                      /\ handler'[g].at <= clock'
    BY DEF LoginsLate
  <1>0. clock' = clock /\ clock \in Nat
    BY SecondType DEF Move, LoginBegin, LoginFails, LoginSucceeds, Request, Check, Write, WriteFails,
                      Revoke, Logout, Revoked
  <1>1. ASSUME handler'[g] = handler[g], lockedUntil' = lockedUntil
        PROVE  /\ lockedUntil'[handler'[g].user] <= handler'[g].at
               /\ handler'[g].at <= clock'
    BY <1>0, <1>1 DEF LoginsLate
  <1>2. CASE \E u \in Users : \E pw \in {password[u], MaxRequests + 1} : LoginBegin(h, u, pw)
    <2>1. PICK u \in Users : \E pw \in {password[u], MaxRequests + 1} : LoginBegin(h, u, pw)
      BY <1>2
    <2>2. lockedUntil' = lockedUntil /\ lockedUntil[u] <= clock
      BY <1>0, <2>1 DEF LoginBegin, Locked, login, TypeOK
    <2>3. CASE g = h
      <3>1. handler'[h].user = u /\ handler'[h].at = clock
        BY <2>1 DEF LoginBegin, Arrive, Become, TypeOK
      <3> QED
        BY <1>0, <2>2, <2>3, <3>1
    <2>4. CASE g # h
      BY <1>1, <2>1, <2>2, <2>4 DEF LoginBegin, Arrive, Become, TypeOK
    <2> QED
      BY <2>3, <2>4
  <1>3. CASE LoginFails(h)
    <2>1. handler[h] \in Logins
      BY <1>3, HandlerType DEF LoginFails
    <2>2. PICK u \in Users : u = handler[h].user
      BY <2>1 DEF Logins
    <2>3. recordLoginFailure(h, u)
      BY <1>3, <2>2 DEF LoginFails
    <2>4. CASE Done(h) /\ UNCHANGED lockedUntil
      BY <1>1, <2>4, BecomeType DEF Done, Free
    <2>5. CASE /\ handler' = Overtaken(h, u)
               /\ lockedUntil' = [lockedUntil EXCEPT ![u] = handler[h].at + LockTime]
      <3>1. g # h
        BY <2>5 DEF Overtaken, Free
      <3>2. ~(handler[g].op = "login" /\ handler[g].user = u)
        <4>1. SUFFICES ASSUME handler[g].op = "login", handler[g].user = u PROVE FALSE
          OBVIOUS
        <4>2. handler'[g] = [handler[g] EXCEPT !.early = TRUE]
          BY <2>5, <3>1, <4>1 DEF Overtaken
        <4>3. handler[g] \in Logins
          BY <4>1, HandlerType
        <4> QED
          BY <4>2, <4>3 DEF Logins
      <3>3. handler'[g] = handler[g]
        BY <2>5, <3>1, <3>2 DEF Overtaken
      <3>4. lockedUntil'[handler'[g].user] = lockedUntil[handler[g].user]
        BY <2>5, <3>2, <3>3 DEF TypeOK
      <3> QED
        BY <1>0, <3>3, <3>4 DEF LoginsLate
    <2> QED
      BY <2>3, <2>4, <2>5 DEF recordLoginFailure
  <1>4. CASE LoginSucceeds(h)
    <2>1. handler'[g] = handler[g] /\ handler[g] \in Logins
      BY <1>4, BecomeType, HandlerType DEF LoginSucceeds, Done, Free
    <2>2. lockedUntil'[handler[g].user] \in {0, lockedUntil[handler[g].user]}
      BY <1>4, <2>1 DEF LoginSucceeds, TypeOK, Logins
    <2> QED
      BY <1>0, <2>1, <2>2 DEF LoginsLate, Logins
  <1>5. ASSUME ~LoginFails(h), ~LoginSucceeds(h) PROVE lockedUntil' = lockedUntil
    BY <1>5 DEF Move, LoginBegin, Request, Check, Write, WriteFails, Revoke, Logout, Revoked, login
  <1> QED
    BY <1>1, <1>2, <1>3, <1>4, <1>5, LoginsStay

-------------------------------------------------------------------------------
(* Tokens.                                                                 *)

\* A token that was issued stays as it is, and only revoke writes its key.
LEMMA TokensStay ==
  ASSUME TypeOK, NEW h \in Handlers, Move(h)
  PROVE  /\ \A k \in Tokens : issued[k] # Nobody => issued'[k] = issued[k]
         /\ Revoke(h) \/ Logout(h) \/ UNCHANGED <<blacklist, revoked>>
  <1>1. ASSUME LoginSucceeds(h), NEW k \in Tokens, issued[k] # Nobody PROVE issued'[k] = issued[k]
    BY <1>1 DEF LoginSucceeds, generateWithJti, TypeOK
  <1>2. ASSUME ~LoginSucceeds(h) PROVE issued' = issued
    BY <1>2 DEF Move, LoginBegin, LoginFails, Request, Check, Write, WriteFails, Revoke, Logout,
                Revoked, login
  <1>3. Revoke(h) \/ Logout(h) \/ UNCHANGED <<blacklist, revoked>>
    BY DEF Move, LoginBegin, LoginFails, LoginSucceeds, Request, Check, Write, WriteFails, ghosts
  <1> QED
    BY <1>1, <1>2, <1>3

\* A key set at tick c for the seconds that are left lasts to the last second.
LEMMA KeyArithmetic ==
  ASSUME NEW t \in Nat, NEW c \in Nat, NEW s \in Nat, NEW e \in Nat, t * s <= c, s <= e
  PROVE  c + t * (e - s) >= t * e
  <1>1. t * (e - s) = t * e - t * s
    OBVIOUS
  <1>2. t * e \in Nat /\ t * s \in Nat
    OBVIOUS
  <1> QED
    BY <1>1, <1>2

\* Every step keeps the keys of revoked tokens long enough.
LEMMA MoveKeyLasts ==
  ASSUME TypeOK, KeyLasts, NEW h \in Handlers, Move(h)
  PROVE  KeyLasts'
  <1>1. ASSUME NEW g \in Handlers, handler'[g].op \in Ops
        PROVE  issued'[handler'[g].token] # Nobody
    <2>1. handler'[g].token \in Tokens
      <3>1. TypeOK'
        BY MoveTypeOK
      <3>2. handler'[g] \in Acts
        BY <1>1, <3>1 DEF TypeOK, Free, Logins, Ops
      <3> QED
        BY <3>2 DEF Acts
    <2>2. issued[handler'[g].token] # Nobody
      <3>1. CASE handler'[g] = handler[g]
        BY <1>1, <3>1 DEF KeyLasts
      <3>2. ASSUME NEW step, handler[g].op \in Ops, handler'[g] = [handler[g] EXCEPT !.step = step]
            PROVE  issued[handler'[g].token] # Nobody
        <4>1. handler[g] \in Acts
          BY <3>2, HandlerType
        <4>2. handler'[g].token = handler[g].token
          BY <3>2, <4>1 DEF Acts
        <4> QED
          BY <3>2, <4>2 DEF KeyLasts
      <3>3. ASSUME Check(h) PROVE handler[h].op \in Ops
        BY <3>3 DEF Check, At
      <3> QED
        BY <1>1, <3>1, <3>2, <3>3, HandlerMoves
    <2> QED
      BY <2>1, <2>2, TokensStay
  <1>2. ASSUME NEW k \in revoked'
        PROVE  issued'[k] # Nobody /\ blacklist'[k] >= Ticks * issued'[k].exp
    <2>1. ASSUME k \in revoked, blacklist'[k] = blacklist[k]
          PROVE  issued'[k] # Nobody /\ blacklist'[k] >= Ticks * issued'[k].exp
      <3>1. k \in Tokens /\ issued[k] # Nobody
        BY <2>1 DEF KeyLasts, TypeOK
      <3> QED
        BY <2>1, <3>1, TokensStay DEF KeyLasts
    <2>2. CASE UNCHANGED <<blacklist, revoked>>
      BY <1>2, <2>1, <2>2
    <2>3. CASE Revoke(h) \/ Logout(h)
      <3>1. handler[h].op \in Ops /\ Revoked(h)
        BY <2>3 DEF Revoke, Logout, At, Ops
      <3>2. handler[h].token \in Tokens /\ issued[handler[h].token] # Nobody
        BY <3>1, HandlerType DEF Acts, KeyLasts
      <3>3. PICK j \in Tokens : j = handler[h].token /\ issued[j] # Nobody
        BY <3>2
      <3>4. revoke(j) /\ issued' = issued
        BY <3>1, <3>3 DEF Revoked, login
      <3>5. CASE UNCHANGED <<blacklist, revoked>>
        BY <1>2, <2>1, <3>5
      <3>6. CASE /\ remainingSeconds(j) > 0
                 /\ blacklist' = [blacklist EXCEPT ![j] = clock + Ticks * remainingSeconds(j)]
                 /\ revoked' = revoked \cup {j}
        <4>1. CASE k # j
          <5>1. k \in revoked /\ k \in Tokens
            BY <1>2, <3>6, <4>1 DEF TypeOK
          <5> QED
            BY <2>1, <3>6, <4>1, <5>1 DEF TypeOK
        <4>2. CASE k = j
          <5>1. issued[j].exp \in Nat
            BY DEF TypeOK, Nobody
          <5>2. remainingSeconds(j) = issued[j].exp - Second /\ Second <= issued[j].exp
            BY <3>6, <5>1, SecondType DEF remainingSeconds
          <5>3. clock + Ticks * (issued[j].exp - Second) >= Ticks * issued[j].exp
            BY <5>1, <5>2, SecondType, KeyArithmetic, AccountsAssumption DEF AccountsAssumption
          <5>4. blacklist'[j] = clock + Ticks * (issued[j].exp - Second)
            BY <3>6, <5>2 DEF TypeOK
          <5> QED
            BY <3>3, <3>4, <4>2, <5>3, <5>4
        <4> QED
          BY <4>1, <4>2
      <3> QED
        BY <3>4, <3>5, <3>6 DEF revoke
    <2> QED
      BY <2>2, <2>3, TokensStay
  <1> QED
    BY <1>1, <1>2 DEF KeyLasts

-------------------------------------------------------------------------------
(* The invariant.                                                          *)

\* At first everybody is there, and no request is under way.
LEMMA InitInv == Init => Inv
  <1> SUFFICES ASSUME Init PROVE Inv
    OBVIOUS
  <1>0. \A h \in Handlers : handler[h] = Free /\ handler[h].op = "free"
    BY DEF Init, Free
  <1>1. TypeOK
    BY AccountsAssumption DEF AccountsAssumption, Init, TypeOK, Nobody
  <1>2. NoStrays
    BY AccountsAssumption DEF AccountsAssumption, Init, NoStrays, Known, Pairs
  <1>3. GroupChecked /\ LoginsLate /\ KeyLasts
    BY <1>0 DEF Init, GroupChecked, LoginsLate, KeyLasts, At, Ops
  <1>4. OneHand
    BY <1>0 DEF Init, OneHand, Answering, At
  <1> QED
    BY <1>1, <1>2, <1>3, <1>4 DEF Inv

\* A step of a handler keeps the invariant.
LEMMA MoveInv == ASSUME Inv, NEW h \in Handlers, Move(h) PROVE Inv'
  <1> USE DEF Inv
  <1>1. TypeOK' /\ GroupChecked' /\ OneHand' /\ LoginsLate' /\ KeyLasts'
    BY MoveTypeOK, MoveGroupChecked, MoveOneHand, MoveLoginsLate, MoveKeyLasts
  <1>2. NoStrays'
    <2>1. CASE Write(h)
      BY <2>1, WriteNoStrays
    <2>2. CASE UNCHANGED relations
      BY <2>2 DEF relations, NoStrays, Known
    <2> QED
      BY <2>1, <2>2 DEF Move, LoginBegin, LoginFails, LoginSucceeds, Request, Check, WriteFails,
                        Revoke, Logout, Revoked
  <1> QED
    BY <1>1, <1>2

\* Time that passes, and nothing at all, keep it too.
LEMMA IdleInv ==
  ASSUME Inv, UNCHANGED <<login, blacklist, relations, handler, started, faults, ghosts>>,
         clock' \in 0..MaxClock, clock' >= clock
  PROVE  Inv'
  <1> USE DEF Inv
  <1>0. /\ UNCHANGED <<password, issued, failures, lockedUntil, blacklist>>
        /\ UNCHANGED <<users, friends, requests, group, members>>
        /\ UNCHANGED <<handler, started, faults, revoked, decided, overlapped>>
    BY DEF login, relations, ghosts
  <1>1. TypeOK'
    BY <1>0 DEF TypeOK
  <1>2. NoStrays' /\ GroupChecked' /\ KeyLasts'
    BY <1>0 DEF NoStrays, GroupChecked, KeyLasts, Known, At
  <1>3. OneHand'
    BY <1>0 DEF OneHand, Answering, At, Asked
  <1>4. LoginsLate'
    <2> SUFFICES ASSUME NEW h \in Handlers, handler[h].op = "login", ~handler[h].early
                 PROVE  lockedUntil[handler[h].user] <= handler[h].at /\ handler[h].at <= clock'
      BY <1>0 DEF LoginsLate
    <2>1. handler[h].at \in Nat /\ clock \in Nat /\ clock' \in Nat
      BY HandlerType, SecondType DEF Logins
    <2> QED
      BY <2>1 DEF LoginsLate
  <1> QED
    BY <1>1, <1>2, <1>3, <1>4

\* Every step keeps the invariant.
LEMMA NextInv == Inv /\ [Next]_vars => Inv'
  <1> SUFFICES ASSUME Inv, [Next]_vars PROVE Inv'
    OBVIOUS
  <1>0. TypeOK /\ clock \in Nat
    BY SecondType DEF Inv
  <1>1. CASE Tick
    BY <1>0, <1>1, IdleInv, AccountsAssumption DEF AccountsAssumption, Tick, TypeOK
  <1>2. CASE \E h \in Handlers : Move(h)
    BY <1>2, MoveInv
  <1>3. CASE UNCHANGED vars
    BY <1>0, <1>3, IdleInv DEF vars, TypeOK
  <1> QED
    BY <1>1, <1>2, <1>3 DEF Next, Move

\* The variables keep their types.
THEOREM TypeCorrect == Spec => []TypeOK
  BY InitInv, NextInv, PTL DEF Spec, Inv

\* Deleting an account or a group leaves nothing behind, whatever the handlers
\* had read before it; friendship is mutual, and the group has its owner
\* (UserService.deleteAccount, FriendService, GroupService).
THEOREM NothingStrays == Spec => []NoStrays
  BY InitInv, NextInv, PTL DEF Spec, Inv

\* A friend request takes effect once, as long as no two handlers saw it pending
\* at the same time (FriendService.handleRequest).
THEOREM RequestsDecidedOnce == Spec => []DecidedOnce
  <1>1. Inv => DecidedOnce
    BY DEF Inv, OneHand, DecidedOnce
  <1> QED
    BY <1>1, InitInv, NextInv, PTL DEF Spec

\* A login that began before the lock was set is all that shortens it
\* (UserService.login, recordLoginFailure).
THEOREM LocksLast == Spec => LockLasts
  <1> DEFINE Lifts(u) == Locked(u) /\ lockedUntil'[u] < lockedUntil[u] =>
       \E h \in Handlers : handler[h].op = "login" /\ handler[h].early /\ handler'[h] = Free
  <1>1. ASSUME Inv, [Next]_vars PROVE \A u \in Users : Lifts(u)
    <2> SUFFICES ASSUME NEW u \in Users, Locked(u), lockedUntil'[u] < lockedUntil[u]
                 PROVE  \E h \in Handlers : /\ handler[h].op = "login" /\ handler[h].early
                                            /\ handler'[h] = Free
      OBVIOUS
    <2>0. TypeOK /\ lockedUntil[u] \in Nat /\ lockedUntil[u] > clock /\ clock \in Nat
      BY <1>1, SecondType DEF Inv, TypeOK, Locked
    <2>1. lockedUntil' # lockedUntil
      BY <2>0
    <2>2. PICK h \in Handlers : Move(h)
      BY <1>1, <2>1 DEF Next, Move, Tick, vars, login
    <2>3. LoginFails(h) \/ LoginSucceeds(h)
      BY <2>1, <2>2 DEF Move, LoginBegin, Request, Check, Write, WriteFails, Revoke, Logout,
                        Revoked, login
    <2>4. handler[h].op = "login" /\ handler[h] \in Logins
      BY <2>0, <2>3, HandlerType DEF LoginFails, LoginSucceeds
    <2>5. handler'[h] = Free
      BY <2>0, <2>3, BecomeType DEF LoginFails, LoginSucceeds, recordLoginFailure, Done, Overtaken
    <2>6. handler[h].user = u
      BY <2>0, <2>3, <2>4 DEF LoginFails, LoginSucceeds, recordLoginFailure, TypeOK, Logins
    <2>7. handler[h].early
      <3>1. SUFFICES ASSUME ~handler[h].early PROVE FALSE
        OBVIOUS
      <3>2. lockedUntil[u] <= handler[h].at /\ handler[h].at <= clock /\ handler[h].at \in Nat
        BY <1>1, <2>4, <2>6, <3>1 DEF Inv, LoginsLate, Logins
      <3> QED
        BY <2>0, <3>2
    <2> QED
      BY <2>4, <2>5, <2>7
  <1> QED
    BY <1>1, InitInv, NextInv, PTL DEF Spec, LockLasts

\* A revoked token is refused to its end, but for its last second and for a
\* Redis that does not answer (JwtRevocationService.revoke, authFromRequest).
THEOREM RevokedTokensStayOut == Spec => RevokedStaysOut
  <1> DEFINE Enters(h) ==
       handler[h] = Free /\ handler'[h].op \in Ops /\ handler'[h].token \in revoked =>
         faults' > faults \/ Second = issued[handler'[h].token].exp
  <1>1. ASSUME Inv, [Next]_vars PROVE \A h \in Handlers : Enters(h)
    <2> SUFFICES ASSUME NEW g \in Handlers, handler[g] = Free, handler'[g].op \in Ops,
                        handler'[g].token \in revoked
                 PROVE  faults' > faults \/ Second = issued[handler'[g].token].exp
      OBVIOUS
    <2>0. TypeOK /\ Free.op \notin Ops
      BY <1>1 DEF Inv, Free, Ops
    <2>1. handler'[g] # handler[g]
      BY <2>0
    <2>2. PICK h \in Handlers : Move(h)
      BY <1>1, <2>1 DEF Next, Move, Tick, vars
    <2>3. PICK k \in Tokens, op \in Ops, peer \in Users : Request(h, k, op, peer)
      <3>1. ASSUME Done(h) PROVE FALSE
        BY <2>0, <2>1, <3>1, BecomeType DEF Done
      <3>2. ASSUME NEW step, Step(h, step), handler[h].op \in Ops PROVE FALSE
        BY <2>0, <2>1, <3>2 DEF Step, TypeOK
      <3>3. ASSUME NEW u, NEW pw, LoginBegin(h, u, pw) PROVE FALSE
        BY <2>0, <2>1, <3>3 DEF LoginBegin, Arrive, Become, TypeOK, Ops
      <3>4. ASSUME LoginFails(h) PROVE FALSE
        BY <2>0, <2>1, <3>1, <3>4 DEF LoginFails, recordLoginFailure, Overtaken, Free
      <3>5. ASSUME Check(h) PROVE FALSE
        BY <3>1, <3>2, <3>5 DEF Check, At
      <3>6. ASSUME Write(h) PROVE FALSE
        BY <3>1, <3>2, <3>6 DEF Write, deleteAccount, changePassword, At, Ops
      <3> QED
        BY <2>2, <3>1, <3>3, <3>4, <3>5, <3>6
        DEF Move, LoginSucceeds, WriteFails, Revoke, Logout, Revoked
    <2>4. handler'[g].token = k
      BY <2>0, <2>1, <2>3 DEF Request, Arrive, Become, TypeOK
    <2>5. CASE isRevoked(k)
      BY <2>0, <2>3, <2>5 DEF Request, Fault, TypeOK
    <2>6. CASE ~isRevoked(k)
      <3>1. /\ clock \in Nat /\ Second \in Nat /\ clock < Ticks * (Second + 1)
            /\ Ticks \in Nat /\ issued[k].exp \in Nat /\ blacklist[k] \in Nat
        BY <2>0, SecondType, AccountsAssumption DEF AccountsAssumption, TypeOK, Nobody
      <3>2. blacklist[k] <= clock /\ Second <= issued[k].exp
        BY <2>3, <2>6, <3>1 DEF isRevoked, Request, verify
      <3>3. Ticks * issued[k].exp <= blacklist[k]
        BY <1>1, <2>4, <3>1 DEF Inv, KeyLasts
      <3>4. Ticks * issued[k].exp < Ticks * (Second + 1)
        BY <3>1, <3>2, <3>3
      <3>5. issued[k].exp < Second + 1
        BY <3>1, <3>4
      <3> QED
        BY <2>4, <3>1, <3>2, <3>5
    <2> QED
      BY <2>5, <2>6
  <1> QED
    BY <1>1, InitInv, NextInv, PTL DEF Spec, RevokedStaysOut
===============================================================================
