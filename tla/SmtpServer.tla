----------------------------- MODULE SmtpServer -----------------------------
(***************************************************************************)
(* The accept loop and the session threads of src/smtp/smtp_server.cpp,    *)
(* with the limits of src/core/connection_manager.cpp and                  *)
(* src/core/rate_limiter.cpp that admit a connection, and the shutdown.    *)
(*                                                                         *)
(* A session is a thread; the dialogue it holds is the module SmtpSession  *)
(* and here only the places where it takes and gives back what it shares:  *)
(* the counters, its descriptor, and its entry in clientSockets_.  How     *)
(* much time passes between two steps is left open, so that any call may   *)
(* find a window of one minute, or five, expired.                          *)
(***************************************************************************)
EXTENDS Integers, FiniteSets

CONSTANTS
  Conn,       \* the clients; each has one connection at a time
  Ip,         \* their addresses
  IpOf,       \* IpOf[c]: the address of c
  Fd,         \* the descriptors of the process
  NoFd,       \* no descriptor
  Free,       \* holder of an unused descriptor
  Other,      \* holder: another part of the process
  GlobalMax,  \* globalMax_
  PerIpMax,   \* perIPMax_
  ConnLimit,  \* CONN_LIMIT
  MaxRate,    \* bound on the count of connections in a window
  TlsPort     \* port_ == 465

ASSUME ServerNames ==
  /\ IpOf \in [Conn -> Ip]
  /\ NoFd \notin Fd /\ Free \notin Conn /\ Other \notin Conn /\ Free # Other
ASSUME ServerClients == IsFiniteSet(Conn) /\ IsFiniteSet(Ip)
ASSUME ServerLimits ==
  /\ GlobalMax \in Nat /\ PerIpMax \in Nat /\ ConnLimit \in Nat /\ MaxRate \in Nat
  /\ TlsPort \in BOOLEAN

VARIABLES
  running,   \* running_
  listening, \* the listening socket is open
  acc,       \* where the accept loop is
  cur,       \* the connection in the hands of the accept loop
  stopper,   \* where SmtpServer::stop is
  conn,      \* conn[c]: where the connection of c and its thread are
  fd,        \* fd[c]: the descriptor that c's thread was started with
  holder,    \* holder[f]: who uses descriptor f
  sockets,   \* clientSockets_, as the descriptor numbers that occur in it
  active,    \* activeConnections_
  perIp,     \* ipConnections_[ip].count
  rate,      \* RateLimiter::conn_[ip].count
  leaked     \* the permits that failed handshakes have kept, by ip

loopvars == <<running, listening, acc, cur, stopper>>
fdvars   == <<fd, holder, sockets>>
limits   == <<active, perIp, rate, leaked>>
srvvars  == <<loopvars, conn, fdvars, limits>>

AccPlaces  == {"off", "loop", "accept", "acquire", "count", "rate", "refund", "refund2"}
StopPlaces == {"none", "listener", "join", "joining", "done"}
ConnPlaces == {"away", "waiting", "loop", "shake", "unshake", "greet", "serve", "closed",
               "release", "release2", "erase"}

\* The connections whose thread runs, and those that hold a permit of the
\* ConnectionManager.
Threads  == {c \in Conn : conn[c] \notin {"away", "waiting", "loop"}}
Counted(c) ==
  \/ conn[c] \in {"shake", "greet", "serve", "closed", "release"}
  \/ conn[c] = "loop" /\ acc \in {"rate", "refund"}
InIp(c) ==
  \/ conn[c] \in {"shake", "greet", "serve", "closed", "release", "release2"}
  \/ conn[c] = "loop" /\ acc \in {"count", "rate", "refund", "refund2"}

SrvTypeOK ==
  /\ running \in BOOLEAN /\ listening \in BOOLEAN
  /\ acc \in AccPlaces
  /\ cur \in Conn
  /\ stopper \in StopPlaces
  /\ conn \in [Conn -> ConnPlaces]
  /\ fd \in [Conn -> Fd \cup {NoFd}]
  /\ holder \in [Fd -> Conn \cup {Free, Other}]
  /\ sockets \subseteq Fd
  /\ active \in Int
  /\ perIp \in [Ip -> Nat]
  /\ rate \in [Ip -> 0..MaxRate]
  /\ leaked \in [Ip -> Nat]

SrvInit ==
  /\ running = FALSE /\ listening = FALSE
  /\ acc = "off" /\ cur \in Conn /\ stopper = "none"
  /\ conn = [c \in Conn |-> "away"]
  /\ fd = [c \in Conn |-> NoFd]
  /\ holder = [f \in Fd |-> Free]
  /\ sockets = {}
  /\ active = 0
  /\ perIp = [i \in Ip |-> 0]
  /\ rate = [i \in Ip |-> 0]
  /\ leaked = [i \in Ip |-> 0]

-----------------------------------------------------------------------------
\* A client connects: the connection waits in the listener's backlog.
Arrive(c) ==
  /\ conn[c] = "away" /\ listening
  /\ conn' = [conn EXCEPT ![c] = "waiting"]
  /\ UNCHANGED <<loopvars, fdvars, limits>>

\* Another part of the process (IMAP, delivery, administration) opens or
\* closes a socket; the system gives out any free number.
OtherOpens(f) ==
  /\ holder[f] = Free
  /\ holder' = [holder EXCEPT ![f] = Other]
  /\ UNCHANGED <<loopvars, conn, fd, sockets, limits>>

OtherCloses(f) ==
  /\ holder[f] = Other
  /\ holder' = [holder EXCEPT ![f] = Free]
  /\ UNCHANGED <<loopvars, conn, fd, sockets, limits>>

\* closesocket goes by the number, whoever uses it now.
Close(f) == holder' = [holder EXCEPT ![f] = Free]

-----------------------------------------------------------------------------
(* SmtpServer::start and run.                                              *)

\* start; run opens the listener, or fails to and returns.
Start ==
  /\ stopper = "none" /\ ~running /\ acc = "off"
  /\ running' = TRUE
  /\ \/ listening' = TRUE /\ acc' = "loop"
     \/ listening' = FALSE /\ acc' = "off"
  /\ UNCHANGED <<cur, stopper, conn, fdvars, limits>>

\* Top of the loop.  checkResourceLimits only logs; at the global limit the
\* loop sleeps and tries again.
LoopTop ==
  /\ acc = "loop"
  /\ \/ ~running /\ acc' = "off" /\ listening' = FALSE
     \/ running /\ active < GlobalMax /\ acc' = "accept" /\ UNCHANGED listening
  /\ UNCHANGED <<running, cur, stopper, conn, fdvars, limits>>

Accept(c) ==
  /\ acc = "accept" /\ listening /\ conn[c] = "waiting"
  /\ acc' = "acquire" /\ cur' = c
  /\ conn' = [conn EXCEPT ![c] = "loop"]
  /\ \E f \in Fd : /\ holder[f] = Free
                   /\ holder' = [holder EXCEPT ![f] = c]
                   /\ fd' = [fd EXCEPT ![c] = f]
  /\ UNCHANGED <<running, listening, stopper, sockets, limits>>

\* accept fails because stop has closed the listener.
AcceptEnds ==
  /\ acc = "accept" /\ ~listening
  /\ acc' = "off"
  /\ UNCHANGED <<running, listening, cur, stopper, conn, fdvars, limits>>

\* closesocket(client); continue
Refuse ==
  /\ acc' = "loop"
  /\ Close(fd[cur])
  /\ conn' = [conn EXCEPT ![cur] = "away"]
  /\ fd' = [fd EXCEPT ![cur] = NoFd]

\* tryAcquireConnection: the global check, then under the mutex the check of
\* the address, whose count is forgotten after five minutes without access.
Acquire ==
  /\ acc = "acquire"
  /\ \E stale \in BOOLEAN :
       LET count == IF stale THEN 0 ELSE perIp[IpOf[cur]]
       IN  /\ active < GlobalMax /\ count < PerIpMax
           /\ perIp' = [perIp EXCEPT ![IpOf[cur]] = count + 1]
  /\ acc' = "count"
  /\ UNCHANGED <<running, listening, cur, stopper, conn, fdvars, active, rate, leaked>>

AcquireFails ==
  /\ acc = "acquire"
  /\ active >= GlobalMax \/ perIp[IpOf[cur]] >= PerIpMax
  /\ Refuse
  /\ UNCHANGED <<running, listening, cur, stopper, sockets, limits>>

\* activeConnections_++, outside the mutex.
Count ==
  /\ acc = "count"
  /\ active' = active + 1
  /\ acc' = "rate"
  /\ UNCHANGED <<running, listening, cur, stopper, conn, fdvars, perIp, rate, leaked>>

\* RateLimiter::allowConnection(ip) counts the call and returns ok.  A call
\* that finds the window expired begins a new one.
AllowConnection(ip, ok) ==
  \E expired \in BOOLEAN :
    LET count == IF expired THEN 1 ELSE rate[ip] + 1
    IN  /\ count <= MaxRate
        /\ ok <=> count <= ConnLimit
        /\ rate' = [rate EXCEPT ![ip] = count]

\* The rate limiter lets the connection in: it is listed and gets its thread.
Spawn ==
  /\ acc = "rate"
  /\ AllowConnection(IpOf[cur], TRUE)
  /\ sockets' = sockets \cup {fd[cur]}
  /\ conn' = [conn EXCEPT ![cur] = IF TlsPort THEN "shake" ELSE "greet"]
  /\ acc' = "loop"
  /\ UNCHANGED <<running, listening, cur, stopper, fd, holder, active, perIp, leaked>>

OverRate ==
  /\ acc = "rate"
  /\ AllowConnection(IpOf[cur], FALSE)
  /\ acc' = "refund"
  /\ UNCHANGED <<running, listening, cur, stopper, conn, fdvars, active, perIp, leaked>>

\* ConnectionManager::releaseConnection, first the atomic counter...
ReleaseGlobal == active' = active - 1

\* ...then, under the mutex, the count of the address.
ReleaseIp(ip) == perIp' = [perIp EXCEPT ![ip] = IF @ > 0 THEN @ - 1 ELSE 0]

Refund ==
  /\ acc = "refund"
  /\ ReleaseGlobal
  /\ acc' = "refund2"
  /\ UNCHANGED <<running, listening, cur, stopper, conn, fdvars, perIp, rate, leaked>>

RefundIp ==
  /\ acc = "refund2"
  /\ ReleaseIp(IpOf[cur])
  /\ Refuse
  /\ UNCHANGED <<running, listening, cur, stopper, sockets, active, rate, leaked>>

-----------------------------------------------------------------------------
(* The thread of a session.                                                *)

ThreadGo(c, from, to) ==
  /\ conn[c] = from
  /\ conn' = [conn EXCEPT ![c] = to]

\* The TLS handshake of port 465.
Handshake(c) ==
  /\ ThreadGo(c, "shake", "greet")
  /\ UNCHANGED <<loopvars, fdvars, limits>>

\* It fails: the socket is closed, the thread leaves the list and ends.  The
\* connection manager is not told, and goes on counting the connection.
HandshakeFails(c) ==
  /\ ThreadGo(c, "shake", "unshake")
  /\ Close(fd[c])
  /\ leaked' = [leaked EXCEPT ![IpOf[c]] = @ + 1]
  /\ UNCHANGED <<loopvars, fd, sockets, active, perIp, rate>>

HandshakeGone(c) ==
  /\ ThreadGo(c, "unshake", "away")
  /\ sockets' = sockets \ {fd[c]}
  /\ fd' = [fd EXCEPT ![c] = NoFd]
  /\ UNCHANGED <<loopvars, holder, limits>>

\* SmtpSession::run asks the rate limiter once more.
Greet(c) ==
  /\ ThreadGo(c, "greet", "serve")
  /\ \E expired \in BOOLEAN :
       LET count == IF expired THEN 1 ELSE rate[IpOf[c]] + 1
       IN  /\ count <= MaxRate /\ count <= ConnLimit
           /\ rate' = [rate EXCEPT ![IpOf[c]] = count]
  /\ UNCHANGED <<loopvars, fdvars, active, perIp, leaked>>

\* Fault: the refused session gives back the permit that its thread gives
\* back once more.
GreetFails_Releases(c) ==
  /\ ThreadGo(c, "greet", "release")
  /\ AllowConnection(IpOf[c], FALSE)
  /\ Close(fd[c])
  /\ active' = active - 1
  /\ UNCHANGED <<loopvars, fd, sockets, perIp, leaked>>

\* "421 Too many connections": the socket is closed, and run returns before
\* it reaches its clean-up.
GreetFails(c) ==
  /\ ThreadGo(c, "greet", "release")
  /\ AllowConnection(IpOf[c], FALSE)
  /\ Close(fd[c])
  /\ UNCHANGED <<loopvars, fd, sockets, active, perIp, leaked>>

\* The dialogue ends; run closes its socket, whose number stays listed.
EndSession(c) ==
  /\ ThreadGo(c, "serve", "closed")
  /\ Close(fd[c])
  /\ UNCHANGED <<loopvars, fd, sockets, limits>>

\* RateLimiter::releaseConnection
ReleaseRate(c) ==
  /\ ThreadGo(c, "closed", "release")
  /\ rate' = [rate EXCEPT ![IpOf[c]] = IF @ > 0 THEN @ - 1 ELSE 0]
  /\ UNCHANGED <<loopvars, fdvars, active, perIp, leaked>>

\* Fault: the counter is given back twice.
Release_Twice(c) ==
  /\ ThreadGo(c, "release", "release2")
  /\ active' = active - 2
  /\ UNCHANGED <<loopvars, fdvars, perIp, rate, leaked>>

Release(c) ==
  /\ ThreadGo(c, "release", "release2")
  /\ ReleaseGlobal
  /\ UNCHANGED <<loopvars, fdvars, perIp, rate, leaked>>

\* Fault: the count of the address is not given back.
ReleaseAddress_Forgets(c) ==
  /\ ThreadGo(c, "release2", "erase")
  /\ UNCHANGED <<loopvars, fdvars, limits>>

ReleaseAddress(c) ==
  /\ ThreadGo(c, "release2", "erase")
  /\ ReleaseIp(IpOf[c])
  /\ UNCHANGED <<loopvars, fdvars, active, rate, leaked>>

\* clientSockets_.erase(std::remove(...)): every entry of that number goes.
EraseSocket(c) ==
  /\ ThreadGo(c, "erase", "away")
  /\ sockets' = sockets \ {fd[c]}
  /\ fd' = [fd EXCEPT ![c] = NoFd]
  /\ UNCHANGED <<loopvars, holder, limits>>

\* What the thread does without waiting for its client.
SessionStep(c) ==
  \/ HandshakeGone(c) \/ Greet(c) \/ GreetFails(c) \/ ReleaseRate(c)
  \/ Release(c) \/ ReleaseAddress(c) \/ EraseSocket(c)

\* What it does when the client sends something or closes, and also when
\* its socket was closed under it.
ClientStep(c) == Handshake(c) \/ HandshakeFails(c) \/ EndSession(c)
Woken(c) ==
  /\ conn[c] \in {"shake", "serve"} /\ holder[fd[c]] # c
  /\ HandshakeFails(c) \/ EndSession(c)

-----------------------------------------------------------------------------
(* SmtpServer::stop.                                                       *)

StopBegin ==
  /\ stopper = "none" /\ running
  /\ running' = FALSE
  /\ stopper' = "listener"
  /\ UNCHANGED <<listening, acc, cur, conn, fdvars, limits>>

\* The listener is closed; connections in its backlog are lost.
StopListener ==
  /\ stopper = "listener"
  /\ listening' = FALSE
  /\ stopper' = "join"
  /\ conn' = [c \in Conn |-> IF conn[c] = "waiting" THEN "away" ELSE conn[c]]
  /\ UNCHANGED <<running, acc, cur, fdvars, limits>>

\* Fault: the client sockets are closed without waiting for the accept loop.
CloseClients_Early ==
  /\ stopper = "join"
  /\ stopper' = "joining"
  /\ holder' = [f \in Fd |-> IF f \in sockets THEN Free ELSE holder[f]]
  /\ sockets' = {}
  /\ UNCHANGED <<running, listening, acc, cur, conn, fd, limits>>

\* thread_.join(), then "Close all client sockets to wake session threads".
CloseClients ==
  /\ stopper = "join" /\ acc = "off"
  /\ stopper' = "joining"
  /\ holder' = [f \in Fd |-> IF f \in sockets THEN Free ELSE holder[f]]
  /\ sockets' = {}
  /\ UNCHANGED <<running, listening, acc, cur, conn, fd, limits>>

\* All session threads are joined.
StopEnds ==
  /\ stopper = "joining" /\ Threads = {}
  /\ stopper' = "done"
  /\ UNCHANGED <<running, listening, acc, cur, conn, fdvars, limits>>

-----------------------------------------------------------------------------
AccStep ==
  \/ LoopTop \/ AcceptEnds \/ Acquire \/ AcquireFails \/ Count
  \/ Spawn \/ OverRate \/ Refund \/ RefundIp

StopStep == StopListener \/ CloseClients \/ StopEnds

SrvNext ==
  \/ \E c \in Conn : Arrive(c) \/ Accept(c) \/ SessionStep(c) \/ ClientStep(c)
  \/ \E f \in Fd : OtherOpens(f) \/ OtherCloses(f)
  \/ Start \/ AccStep \/ StopBegin \/ StopStep

SrvSpec == SrvInit /\ [][SrvNext]_srvvars

\* Threads run unless they wait for a client.
SrvFairSpec ==
  /\ SrvSpec
  /\ WF_srvvars(AccStep) /\ WF_srvvars(StopStep)
  /\ \A c \in Conn : WF_srvvars(SessionStep(c)) /\ WF_srvvars(Woken(c))

-----------------------------------------------------------------------------
(* What the server promises.                                               *)

\* The permits that the failed handshakes of each address have kept.
Lost == UNION {{<<i, n>> : n \in 1..leaked[i]} : i \in Ip}

\* The permits that are taken: by connections, and by failed handshakes.
Taken == Cardinality({c \in Conn : Counted(c)}) + Cardinality(Lost)

\* The global counter is the number of those: no order of admissions,
\* refusals and endings loses another permit or invents one.
PermitsBalance == active = Taken

\* Types, with counters that are never negative, and the balance.
SrvInv == SrvTypeOK /\ PermitsBalance

\* Never more permits are taken than the global limit allows, although the
\* counter is read, and later raised, without a lock.
GlobalBounded == Taken <= GlobalMax

\* The count of an address never exceeds its connections and those whose
\* handshake failed: no client is refused for any other that is gone.
NoPhantoms ==
  \A i \in Ip : perIp[i] <= Cardinality({c \in Conn : IpOf[c] = i /\ InIp(c)}) + leaked[i]

\* A session that waits for its client can be woken by stop(): its socket
\* is in the list of those that stop() closes.
WaitingIsListed ==
  \A c \in Conn : conn[c] \in {"shake", "serve"} /\ holder[fd[c]] = c => fd[c] \in sockets

\* As long as that is so, stop() returns whatever the clients do.
StopReturns == []WaitingIsListed => (stopper = "listener" ~> stopper = "done")

-----------------------------------------------------------------------------
(* The inductive invariant.                                                *)

\* The accept loop has one connection in its hands, and what has a thread or
\* is in those hands has a descriptor.
InHands ==
  /\ \A c \in Conn : conn[c] = "loop" <=>
       acc \in {"acquire", "count", "rate", "refund", "refund2"} /\ cur = c
  /\ \A c \in Conn : conn[c] \in {"away", "waiting"} <=> fd[c] = NoFd

\* The accept loop raises the counter after a look that still holds: what
\* others do in between lowers it.
RoomSeen == acc = "count" => active < GlobalMax

\* How far stop() has come, and what it has seen to.
Stopped ==
  /\ stopper # "none" => ~running
  /\ stopper \in {"join", "joining", "done"} =>
       ~listening /\ \A c \in Conn : conn[c] # "waiting"
  /\ stopper \in {"joining", "done"} => acc = "off"
  /\ stopper = "done" => Threads = {}

\* When stop() has returned, no thread and no connection is left, and the
\* counter holds only what the failed handshakes have kept.
StopLeavesLost ==
  stopper = "done" => (\A c \in Conn : conn[c] = "away") /\ active = Cardinality(Lost)

SrvIInv == SrvInv /\ GlobalBounded /\ NoPhantoms /\ InHands /\ RoomSeen /\ Stopped
=============================================================================
