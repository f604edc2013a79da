------------------------------- MODULE Accounts -------------------------------
(***************************************************************************)
(* The HTTP side of ChatServer: who may act, and what the acts leave in    *)
(* MySQL.  Login with its lock after failures, tokens and their            *)
(* revocation, change of password and deletion of the account              *)
(* (UserService, JWT, JwtRevocationService), friends and friend requests   *)
(* (FriendService), leaving, joining, kicking and dissolving               *)
(* (GroupService; how a group is made is the subject of Saga).  Handlers   *)
(* of several threads and instances run at once, and each of them reads    *)
(* before it writes.                                                       *)
(***************************************************************************)
EXTENDS Naturals, FiniteSets

CONSTANTS
  Users, Tokens, Handlers,
  Owner,          \* of the one group
  Life,           \* seconds a token is valid: 86400 in the code
  LockTime,       \* ticks of a lock: 15 minutes in the code
  MaxFailures,    \* failed logins before it: 5 in the code
  Ticks,          \* of a second: the clock is finer than the times in a token
  MaxClock,       \* bound: ticks
  MaxRequests,    \* bound: requests that come in
  MaxFaults       \* bound: calls to Redis and transactions that fail

ASSUME AccountsAssumption ==
  /\ Owner \in Users
  /\ Life \in Nat /\ LockTime \in Nat /\ MaxFailures \in Nat \ {0}
  /\ Ticks \in Nat \ {0}
  /\ MaxClock \in Nat /\ MaxRequests \in Nat /\ MaxFaults \in Nat

VARIABLES
  clock,
  users,        \* rows of users
  password,     \* of a user: how often it was changed
  issued,       \* the tokens handed out: whose, and when they end
  blacklist,    \* when the Redis key jwt_blacklist:<jti> of a token goes
  failures, lockedUntil,    \* loginAttempts_ of a user
  friends, requests,        \* rows of friends and friend_requests
  group, members,           \* the group is there; rows of group_members
  handler,      \* the request that a handler is busy with
  started, faults,
  revoked,      \* ghost: tokens that were put on the blacklist
  decided,      \* ghost: answers that took effect on a friend request
  overlapped    \* ghost: friend requests that two handlers saw pending at once

login == <<password, issued, failures, lockedUntil>>
relations == <<users, friends, requests, group, members>>
ghosts == <<revoked, decided, overlapped>>
vars == <<clock, login, blacklist, relations, handler, started, faults, ghosts>>

Pairs == {p \in Users \X Users : p[1] # p[2]}
Nobody == [user |-> "nobody", exp |-> 0]
Free == [op |-> "free"]
Second == clock \div Ticks

Ops == {"logout", "password", "account", "addFriend", "deleteFriend", "sendRequest",
        "accept", "reject", "join", "leave", "kick", "dissolve"}

\* What a handler is busy with, if anything: a login, or the request of a token.
Logins == [op : {"login"}, user : Users, right : BOOLEAN, at : Nat, early : BOOLEAN]
Acts == {r \in [op : Ops, user : Users, peer : Users, token : Tokens, typed : Nat,
                step : {"authed", "checked", "written"}] : r.peer # r.user}

TypeOK ==
  /\ clock \in 0..MaxClock
  /\ users \subseteq Users
  /\ password \in [Users -> Nat]
  /\ issued \in [Tokens -> {Nobody} \cup [user : Users, exp : Nat]]
  /\ blacklist \in [Tokens -> Nat]
  /\ failures \in [Users -> 0..(MaxFailures - 1)]
  /\ lockedUntil \in [Users -> Nat]
  /\ friends \subseteq Pairs /\ members \subseteq Users
  /\ requests \in [Pairs -> {"none", "pending", "accepted", "rejected"}]
  /\ group \in BOOLEAN
  /\ handler \in [Handlers -> {Free} \cup Logins \cup Acts]
  /\ started \in 0..MaxRequests /\ faults \in 0..MaxFaults
  /\ revoked \subseteq Tokens /\ overlapped \subseteq Pairs
  /\ decided \in [Pairs -> Nat]

\* Everybody is logged in and in the group; everybody has asked everybody to be his
\* friend, or nobody has.
Init ==
  /\ clock = 0
  /\ users = Users
  /\ password = [u \in Users |-> 0]
  /\ issued \in [Tokens -> {Nobody} \cup [user : Users, exp : {Life}]]
  /\ \A u \in Users : Cardinality({k \in Tokens : issued[k].user = u}) = 1
  /\ blacklist = [k \in Tokens |-> 0]
  /\ failures = [u \in Users |-> 0] /\ lockedUntil = [u \in Users |-> 0]
  /\ friends = {} /\ requests \in {[p \in Pairs |-> s] : s \in {"none", "pending"}}
  /\ group = TRUE /\ members = Users
  /\ handler = [h \in Handlers |-> Free]
  /\ started = 0 /\ faults = 0
  /\ revoked = {} /\ decided = [p \in Pairs |-> 0] /\ overlapped = {}

Tick ==
  /\ clock < MaxClock
  /\ clock' = clock + 1
  /\ UNCHANGED <<login, blacklist, relations, handler, started, faults, ghosts>>

Fault == faults < MaxFaults /\ faults' = faults + 1

Become(h, r) == handler' = [handler EXCEPT ![h] = r]
Done(h) == Become(h, Free)

Arrive(h, r) ==
  /\ handler[h] = Free
  /\ started < MaxRequests
  /\ started' = started + 1
  /\ Become(h, r)

-------------------------------------------------------------------------------
(* UserService.login.                                                      *)

Locked(u) == lockedUntil[u] > clock

\* Mutation: the lock is not looked at.
LoginBeginLocked(h, u, pw) ==
  /\ Arrive(h, [op |-> "login", user |-> u, right |-> u \in users /\ pw = password[u],
                at |-> clock, early |-> FALSE])
  /\ UNCHANGED <<clock, login, blacklist, relations, faults, ghosts>>

\* The lock is looked at and the hash is read; the check of the password, which
\* takes long, comes after both.
LoginBegin(h, u, pw) ==
  /\ ~Locked(u)
  /\ Arrive(h, [op |-> "login", user |-> u, right |-> u \in users /\ pw = password[u],
                at |-> clock, early |-> FALSE])
  /\ UNCHANGED <<clock, login, blacklist, relations, faults, ghosts>>

\* Logins of the user that are under way when the lock is set.
Overtaken(h, u) ==
  [g \in Handlers |-> IF g # h /\ handler[g].op = "login" /\ handler[g].user = u
                      THEN [handler[g] EXCEPT !.early = TRUE]
                      ELSE IF g = h THEN Free ELSE handler[g]]

recordLoginFailure(h, u) ==
  \/ /\ failures[u] + 1 < MaxFailures
     /\ failures' = [failures EXCEPT ![u] = @ + 1]
     /\ Done(h)
     /\ UNCHANGED lockedUntil
  \/ /\ failures[u] + 1 >= MaxFailures
     /\ failures' = [failures EXCEPT ![u] = 0]
     /\ lockedUntil' = [lockedUntil EXCEPT ![u] = handler[h].at + LockTime]
     /\ handler' = Overtaken(h, u)

LoginFails(h) ==
  /\ handler[h].op = "login" /\ ~handler[h].right
  /\ recordLoginFailure(h, handler[h].user)
  /\ UNCHANGED <<clock, password, issued, blacklist, relations, started, faults, ghosts>>

generateWithJti(k, u) == issued' = [issued EXCEPT ![k] = [user |-> u, exp |-> Second + Life]]

LoginSucceeds(h) ==
  LET u == handler[h].user IN
  /\ handler[h].op = "login" /\ handler[h].right
  /\ failures' = [failures EXCEPT ![u] = 0]
  /\ lockedUntil' = [lockedUntil EXCEPT ![u] = 0]
  /\ \E k \in Tokens : issued[k] = Nobody /\ generateWithJti(k, u)
  /\ Done(h)
  /\ UNCHANGED <<clock, password, blacklist, relations, started, faults, ghosts>>

-------------------------------------------------------------------------------
(* authFromRequest: the token is not over, and not on the blacklist or     *)
(* Redis cannot say.                                                       *)

verify(k) == issued[k] # Nobody /\ Second <= issued[k].exp
isRevoked(k) == blacklist[k] > clock

\* A request of the token's user about another one; he types his password as it is.
Request(h, k, op, peer) ==
  LET u == issued[k].user IN
  /\ verify(k)
  /\ peer # u
  /\ (~isRevoked(k) /\ UNCHANGED faults) \/ Fault
  /\ Arrive(h, [op |-> op, user |-> u, peer |-> peer, token |-> k, typed |-> password[u],
                step |-> "authed"])
  /\ UNCHANGED <<clock, login, blacklist, relations, ghosts>>

\* revoke: the key lives for the seconds the token has left.
remainingSeconds(k) == IF issued[k].exp > Second THEN issued[k].exp - Second ELSE 0

\* Mutation: the time to live is given in the wrong unit.
revokeShort(k) ==
  /\ remainingSeconds(k) > 0
  /\ blacklist' = [blacklist EXCEPT ![k] = clock + remainingSeconds(k)]
  /\ revoked' = revoked \cup {k}
  /\ UNCHANGED faults

revoke(k) ==
  \/ /\ remainingSeconds(k) > 0
     /\ blacklist' = [blacklist EXCEPT ![k] = clock + Ticks * remainingSeconds(k)]
     /\ revoked' = revoked \cup {k}
     /\ UNCHANGED faults
  \/ /\ (remainingSeconds(k) = 0 /\ UNCHANGED faults) \/ Fault
     /\ UNCHANGED <<blacklist, revoked>>

At(h, ops, step) == handler[h].op \in ops /\ handler[h].step = step
Step(h, step) == handler' = [handler EXCEPT ![h].step = step]

Revoked(h) ==
  /\ revoke(handler[h].token)
  /\ Done(h)
  /\ UNCHANGED <<clock, login, relations, started, decided, overlapped>>

Logout(h) == At(h, {"logout"}, "authed") /\ Revoked(h)

\* The end of a change of password and of a deletion.
Revoke(h) == At(h, {"password", "account"}, "written") /\ Revoked(h)

-------------------------------------------------------------------------------
(* The services.  An INSERT IGNORE of a row whose user or group is gone is *)
(* ignored like a double one, and the answer is success all the same.      *)

Pair(h) == <<handler[h].user, handler[h].peer>>
Asked(h) == <<handler[h].peer, handler[h].user>>    \* the one that h answers
Both(p) == {p, <<p[2], p[1]>>}
Known(p) == p[1] \in users /\ p[2] \in users

Befriend(p) == friends' = IF Known(p) THEN friends \cup Both(p) ELSE friends

\* Mutation: handleRequest without status=0.
AllowedAnyStatus(h) ==
  LET op == handler[h].op  u == handler[h].user IN
  CASE op \in {"accept", "reject"} -> requests[Asked(h)] # "none"
    [] op = "sendRequest" -> Pair(h) \notin friends
    [] OTHER -> FALSE

\* The SELECT that a handler begins with.
Allowed(h) ==
  LET op == handler[h].op  u == handler[h].user IN
  CASE op \in {"password", "account"} -> u \in users /\ password[u] = handler[h].typed
    [] op = "sendRequest" -> Pair(h) \notin friends
    [] op \in {"accept", "reject"} -> requests[Asked(h)] = "pending"
    [] op = "leave" -> ~(group /\ u = Owner)
    [] op \in {"kick", "dissolve"} -> group /\ u = Owner
    [] OTHER -> FALSE

\* Others that saw the same friend request pending and have not written yet.
Rivals(h) ==
  {g \in Handlers \ {h} : /\ At(g, {"accept", "reject"}, "checked")
                          /\ Asked(g) = Asked(h)}

Check(h) ==
  /\ At(h, Ops \ {"logout", "addFriend", "deleteFriend", "join"}, "authed")
  /\ IF Allowed(h) THEN Step(h, "checked") ELSE Done(h)
  /\ overlapped' = IF handler[h].op \in {"accept", "reject"} /\ Rivals(h) # {}
                   THEN overlapped \cup {Asked(h)} ELSE overlapped
  /\ UNCHANGED <<clock, login, blacklist, relations, started, faults, revoked, decided>>

addFriend(h) ==
  /\ At(h, {"addFriend"}, "authed")
  /\ Befriend(Pair(h))
  /\ UNCHANGED <<users, requests, group, members, decided>>

deleteFriend(h) ==
  /\ At(h, {"deleteFriend"}, "authed")
  /\ friends' = friends \ Both(Pair(h))
  /\ UNCHANGED <<users, requests, group, members, decided>>

sendRequest(h) ==
  /\ At(h, {"sendRequest"}, "checked")
  /\ requests' = IF Known(Pair(h)) /\ requests[Pair(h)] = "none"
                 THEN [requests EXCEPT ![Pair(h)] = "pending"] ELSE requests
  /\ UNCHANGED <<users, friends, group, members, decided>>

\* The UPDATE finds the row unless a deleted account took it along.
Decide(p, answer) ==
  /\ requests' = IF requests[p] = "none" THEN requests ELSE [requests EXCEPT ![p] = answer]
  /\ decided' = IF requests[p] \in {"none", answer} THEN decided ELSE [decided EXCEPT ![p] = @ + 1]

handleRequest(h) ==
  /\ \/ /\ At(h, {"accept"}, "checked")
        /\ Decide(Asked(h), "accepted")
        /\ Befriend(Asked(h))
     \/ /\ At(h, {"reject"}, "checked")
        /\ Decide(Asked(h), "rejected")
        /\ UNCHANGED friends
  /\ UNCHANGED <<users, group, members>>

joinGroup(h) ==
  LET u == handler[h].user IN
  /\ At(h, {"join"}, "authed")
  /\ members' = IF group /\ u \in users THEN members \cup {u} ELSE members
  /\ UNCHANGED <<users, friends, requests, group, decided>>

leaveGroup(h) ==
  /\ At(h, {"leave"}, "checked")
  /\ members' = members \ {handler[h].user}
  /\ UNCHANGED <<users, friends, requests, group, decided>>

kickMember(h) ==
  /\ At(h, {"kick"}, "checked")
  /\ members' = members \ {handler[h].peer}
  /\ UNCHANGED <<users, friends, requests, group, decided>>

deleteGroup(h) ==
  /\ At(h, {"dissolve"}, "checked")
  /\ members' = {}
  /\ group' = FALSE
  /\ UNCHANGED <<users, friends, requests, decided>>

\* Mutation: the groups of the user stay.
deleteAccountOnly(h) ==
  LET u == handler[h].user IN
  /\ At(h, {"account"}, "checked")
  /\ users' = users \ {u}
  /\ friends' = {p \in friends : u \notin {p[1], p[2]}}
  /\ requests' = [p \in Pairs |-> IF u \in {p[1], p[2]} THEN "none" ELSE requests[p]]
  /\ members' = members \ {u}
  /\ UNCHANGED <<group, decided>>

\* Deletes what is named, and by the foreign keys the groups the user owned.
deleteAccount(h) ==
  LET u == handler[h].user IN
  /\ At(h, {"account"}, "checked")
  /\ users' = users \ {u}
  /\ friends' = {p \in friends : u \notin {p[1], p[2]}}
  /\ requests' = [p \in Pairs |-> IF u \in {p[1], p[2]} THEN "none" ELSE requests[p]]
  /\ decided' = [p \in Pairs |-> IF u \in {p[1], p[2]} THEN 0 ELSE decided[p]]
  /\ group' = (group /\ u # Owner)
  /\ members' = IF u = Owner THEN {} ELSE members \ {u}

changePassword(h) ==
  /\ At(h, {"password"}, "checked")
  /\ password' = [password EXCEPT ![handler[h].user] = @ + 1]

WriteFriends(h) == addFriend(h) \/ deleteFriend(h) \/ sendRequest(h) \/ handleRequest(h)
WriteGroup(h) == joinGroup(h) \/ leaveGroup(h) \/ kickMember(h) \/ deleteGroup(h)

Write(h) ==
  /\ \/ /\ WriteFriends(h) \/ WriteGroup(h)
        /\ Done(h)
        /\ UNCHANGED password
     \/ deleteAccount(h) /\ Step(h, "written") /\ UNCHANGED password
     \/ changePassword(h) /\ Step(h, "written") /\ UNCHANGED <<relations, decided>>
  /\ UNCHANGED <<clock, issued, blacklist, failures, lockedUntil, started, faults, revoked, overlapped>>

\* A statement or the commit fails: nothing is written.
WriteFails(h) ==
  /\ At(h, {"addFriend", "deleteFriend", "join"}, "authed") \/ At(h, Ops, "checked")
  /\ Fault
  /\ Done(h)
  /\ UNCHANGED <<clock, login, blacklist, relations, started, ghosts>>

Next ==
  \/ Tick
  \/ \E h \in Handlers :
       \/ \E u \in Users : \E pw \in {password[u], MaxRequests + 1} : LoginBegin(h, u, pw)
       \/ LoginFails(h) \/ LoginSucceeds(h)
       \/ \E k \in Tokens, op \in Ops, peer \in Users : Request(h, k, op, peer)
       \/ Check(h) \/ Write(h) \/ WriteFails(h) \/ Revoke(h) \/ Logout(h)

Spec == Init /\ [][Next]_vars

-------------------------------------------------------------------------------
\* A token that was revoked opens no more requests, unless Redis does not answer:
\* but for the last second of the token, which the blacklist does not cover.
RevokedStaysOut ==
  [][\A h \in Handlers :
       handler[h] = Free /\ handler'[h].op \in Ops /\ handler'[h].token \in revoked =>
         faults' > faults \/ Second = issued[handler'[h].token].exp]_vars

\* A lock lasts its time: only a login that was under way when it was set lifts it.
LockLasts ==
  [][\A u \in Users : Locked(u) /\ lockedUntil'[u] < lockedUntil[u] =>
       \E h \in Handlers : handler[h].op = "login" /\ handler[h].early /\ handler'[h] = Free]_vars

\* A friend request is answered once, accepted or rejected, unless two answers overlap.
DecidedOnce == \A p \in Pairs \ overlapped : decided[p] <= 1

\* No row mentions an account that was deleted or a group that is gone, whatever was
\* under way then; friendship is mutual, and the group has its owner.
NoStrays ==
  /\ \A p \in friends : Known(p) /\ Both(p) \subseteq friends
  /\ \A p \in Pairs : requests[p] # "none" => Known(p)
  /\ members \subseteq users
  /\ group => Owner \in members
  /\ ~group => members = {}
===============================================================================
