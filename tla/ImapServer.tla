----------------------------- MODULE ImapServer -----------------------------
(***************************************************************************)
(* The accept loop, the session threads and the shutdown of                *)
(* src/imap/imap_server.cpp.                                               *)
(*                                                                         *)
(* Descriptors are numbers that the system gives out again, and closing    *)
(* goes by the number: a session closes its socket and its thread closes   *)
(* the same number once more; stop() and run() both close the listener.    *)
(* The rate limiter, whose counts are modelled in SmtpServer, answers yes  *)
(* or no.  The dialogue of a session is left out but for its end.          *)
(***************************************************************************)
EXTENDS Integers, FiniteSets

CONSTANTS
  Conn,      \* the clients; each has one connection at a time
  Fd,        \* the descriptors of the process
  NoFd,      \* INVALID_SOCKET
  Free,      \* holder of an unused descriptor
  Listener,  \* holder: the listening socket
  MaxConn,   \* config.globalMaxConnections
  TlsPort    \* port_ == 993

ASSUME ImapNames  == NoFd \notin Fd /\ Free \notin Conn /\ Listener \notin Conn /\ Free # Listener
ASSUME ImapLimits == MaxConn \in Nat \ {0} /\ TlsPort \in BOOLEAN
ASSUME ImapClients == IsFiniteSet(Conn)

VARIABLES
  running,    \* running_
  listenSock, \* listenSock_
  acc,        \* where run() is
  cur,        \* the connection in its hands
  stopper,    \* where stop() is
  conn,       \* conn[c]: where the connection of c and its thread are
  fd,         \* fd[c]: the descriptor that c's thread was started with
  holder,     \* holder[f]: who uses descriptor f
  active      \* activeConnections

imaploop == <<running, listenSock, acc, cur, stopper>>
imapvars == <<imaploop, conn, fd, holder, active>>

\* The connections whose thread runs, and those of them that are counted.
Threads == {c \in Conn : conn[c] \notin {"away", "waiting", "loop"}}
Counted == {c \in Conn : conn[c] \in {"shake", "serve", "closed", "uncount"}}

ImapTypeOK ==
  /\ running \in BOOLEAN
  /\ listenSock \in Fd \cup {NoFd}
  /\ acc \in {"off", "loop", "accept", "admit", "closing", "close"}
  /\ cur \in Conn
  /\ stopper \in {"none", "begin", "close", "join", "sessions", "done"}
  /\ conn \in [Conn -> {"away", "waiting", "loop", "begin", "shake", "serve", "closed", "uncount"}]
  /\ fd \in [Conn -> Fd \cup {NoFd}]
  /\ holder \in [Fd -> Conn \cup {Free, Listener}]
  /\ active \in 0..Cardinality(Conn)

ImapInit ==
  /\ running = FALSE /\ listenSock = NoFd
  /\ acc = "off" /\ cur \in Conn /\ stopper = "none"
  /\ conn = [c \in Conn |-> "away"]
  /\ fd = [c \in Conn |-> NoFd]
  /\ holder = [f \in Fd |-> Free]
  /\ active = 0

Close(f) == holder' = [holder EXCEPT ![f] = Free]

-----------------------------------------------------------------------------
\* accept() on listenSock_ finds a listening socket.
Open == listenSock # NoFd /\ holder[listenSock] = Listener

\* A client connects: the connection waits in the listener's backlog.
Arrive(c) ==
  /\ conn[c] = "away" /\ \E f \in Fd : holder[f] = Listener
  /\ conn' = [conn EXCEPT ![c] = "waiting"]
  /\ UNCHANGED <<imaploop, fd, holder, active>>

\* start; run opens the listener, or fails to and returns.  When it is bind
\* that fails, listenSock_ keeps the number of the socket that was closed.
Start ==
  /\ stopper = "none" /\ ~running /\ acc = "off"
  /\ running' = TRUE
  /\ \/ \E f \in Fd : /\ holder[f] = Free
                      /\ holder' = [holder EXCEPT ![f] = Listener]
                      /\ listenSock' = f
                      /\ acc' = "loop"
     \/ /\ listenSock' \in {NoFd} \cup {f \in Fd : holder[f] = Free}
        /\ UNCHANGED <<holder, acc>>
  /\ UNCHANGED <<cur, stopper, conn, fd, active>>

\* Top of the loop: at the limit it sleeps and tries again.
LoopTop ==
  /\ acc = "loop"
  /\ \/ ~running /\ acc' = "closing"
     \/ running /\ active < MaxConn /\ acc' = "accept"
  /\ UNCHANGED <<running, listenSock, cur, stopper, conn, fd, holder, active>>

Accept(c) ==
  /\ acc = "accept" /\ Open /\ conn[c] = "waiting"
  /\ acc' = "admit" /\ cur' = c
  /\ conn' = [conn EXCEPT ![c] = "loop"]
  /\ \E f \in Fd : /\ holder[f] = Free
                   /\ holder' = [holder EXCEPT ![f] = c]
                   /\ fd' = [fd EXCEPT ![c] = f]
  /\ UNCHANGED <<running, listenSock, stopper, active>>

\* accept fails: stop has closed the listener.
AcceptFails ==
  /\ acc = "accept" /\ ~Open
  /\ acc' = IF running THEN "loop" ELSE "closing"
  /\ UNCHANGED <<running, listenSock, cur, stopper, conn, fd, holder, active>>

\* The rate limiter says no.
Refuse ==
  /\ acc = "admit"
  /\ acc' = "loop"
  /\ Close(fd[cur])
  /\ conn' = [conn EXCEPT ![cur] = "away"]
  /\ fd' = [fd EXCEPT ![cur] = NoFd]
  /\ UNCHANGED <<running, listenSock, cur, stopper, active>>

\* It says yes, or the address is not known: the thread is made and listed.
Spawn ==
  /\ acc = "admit"
  /\ acc' = "loop"
  /\ conn' = [conn EXCEPT ![cur] = "begin"]
  /\ UNCHANGED <<running, listenSock, cur, stopper, fd, holder, active>>

\* The connections that wait when the listener is closed are lost.
Backlog == conn' = [c \in Conn |-> IF conn[c] = "waiting" THEN "away" ELSE conn[c]]

\* The end of run, in two steps: the test, and the closing.
EndTest ==
  /\ acc = "closing"
  /\ acc' = IF listenSock # NoFd THEN "close" ELSE "off"
  /\ UNCHANGED <<running, listenSock, cur, stopper, conn, fd, holder, active>>

EndClose ==
  /\ acc = "close"
  /\ IF listenSock # NoFd THEN Close(listenSock) ELSE UNCHANGED holder
  /\ listenSock' = NoFd
  /\ acc' = "off"
  /\ Backlog
  /\ UNCHANGED <<running, cur, stopper, fd, active>>

-----------------------------------------------------------------------------
(* The thread of a session.                                                *)

ThreadGo(c, from, to) ==
  /\ conn[c] = from
  /\ conn' = [conn EXCEPT ![c] = to]

\* activeConnections++, the first thing that the thread does.
Count(c) ==
  /\ ThreadGo(c, "begin", IF TlsPort THEN "shake" ELSE "serve")
  /\ active' = active + 1
  /\ UNCHANGED <<imaploop, fd, holder>>

Handshake(c) ==
  /\ ThreadGo(c, "shake", "serve")
  /\ UNCHANGED <<imaploop, fd, holder, active>>

\* Fault: a failed handshake ends the thread without lowering the counter.
HandshakeFails_Counted(c) ==
  /\ ThreadGo(c, "shake", "away")
  /\ Close(fd[c])
  /\ fd' = [fd EXCEPT ![c] = NoFd]
  /\ UNCHANGED <<imaploop, active>>

\* It fails: the socket is closed...
HandshakeFails(c) ==
  /\ ThreadGo(c, "shake", "uncount")
  /\ Close(fd[c])
  /\ UNCHANGED <<imaploop, fd, active>>

\* ImapSession::run ends, by LOGOUT or because nothing can be read: it closes
\* the socket...
EndSession(c) ==
  /\ ThreadGo(c, "serve", "closed")
  /\ Close(fd[c])
  /\ UNCHANGED <<imaploop, fd, active>>

\* ...and the thread closes the same number.
CloseAgain(c) ==
  /\ ThreadGo(c, "closed", "uncount")
  /\ Close(fd[c])
  /\ UNCHANGED <<imaploop, fd, active>>

\* activeConnections--, and the thread ends.
Uncount(c) ==
  /\ ThreadGo(c, "uncount", "away")
  /\ active' = active - 1
  /\ fd' = [fd EXCEPT ![c] = NoFd]
  /\ UNCHANGED <<imaploop, holder>>

\* What the thread does by itself, and what waits for its client - unless the
\* socket was closed under it.
SessionStep(c) == Count(c) \/ CloseAgain(c) \/ Uncount(c)
ClientStep(c)  == Handshake(c) \/ HandshakeFails(c) \/ EndSession(c)
ClientLeaves(c) == HandshakeFails(c) \/ EndSession(c)

-----------------------------------------------------------------------------
(* ImapServer::stop.                                                       *)

StopBegin ==
  /\ stopper = "none" /\ running
  /\ running' = FALSE
  /\ stopper' = "begin"
  /\ UNCHANGED <<listenSock, acc, cur, conn, fd, holder, active>>

StopTest ==
  /\ stopper = "begin"
  /\ stopper' = IF listenSock # NoFd THEN "close" ELSE "join"
  /\ UNCHANGED <<running, listenSock, acc, cur, conn, fd, holder, active>>

\* Fault: the listener stays open.
StopListener_Open ==
  /\ stopper = "close"
  /\ stopper' = "join"
  /\ UNCHANGED <<running, listenSock, acc, cur, conn, fd, holder, active>>

\* shutdown and closesocket of the listener.
StopListener ==
  /\ stopper = "close"
  /\ stopper' = "join"
  /\ IF listenSock # NoFd THEN Close(listenSock) ELSE UNCHANGED holder
  /\ listenSock' = NoFd
  /\ Backlog
  /\ UNCHANGED <<running, acc, cur, fd, active>>

\* thread_.join()
StopJoin ==
  /\ stopper = "join" /\ acc = "off"
  /\ stopper' = "sessions"
  /\ UNCHANGED <<running, listenSock, acc, cur, conn, fd, holder, active>>

\* Fault: only the accept loop is joined.
StopEnds_Early ==
  /\ stopper = "sessions"
  /\ stopper' = "done"
  /\ UNCHANGED <<running, listenSock, acc, cur, conn, fd, holder, active>>

\* "Join any active session threads"
StopEnds ==
  /\ stopper = "sessions" /\ Threads = {}
  /\ stopper' = "done"
  /\ UNCHANGED <<running, listenSock, acc, cur, conn, fd, holder, active>>

-----------------------------------------------------------------------------
AccStep == LoopTop \/ AcceptFails \/ Refuse \/ Spawn \/ EndTest \/ EndClose
StopStep == StopTest \/ StopListener \/ StopJoin \/ StopEnds

ImapNext ==
  \/ \E c \in Conn : Arrive(c) \/ Accept(c) \/ SessionStep(c) \/ ClientStep(c)
  \/ Start \/ AccStep \/ StopBegin \/ StopStep

ImapSpec == ImapInit /\ [][ImapNext]_imapvars

\* The threads of the server run, and every client leaves in the end: one
\* that stays connected keeps its thread, which stop() joins.
ImapLeavingSpec ==
  /\ ImapSpec
  /\ WF_imapvars(AccStep) /\ WF_imapvars(StopStep)
  /\ \A c \in Conn : WF_imapvars(SessionStep(c)) /\ WF_imapvars(ClientLeaves(c))

-----------------------------------------------------------------------------
(* What the server promises.                                               *)

\* The counter is the number of threads between its two ends, whichever way
\* they end.
CountBalances == active = Cardinality(Counted)

\* Types, with a counter that is never negative, and the balance.
ImapInv == ImapTypeOK /\ CountBalances

\* When stop() has returned, nothing of the server is left: no thread, no
\* open descriptor, no connection in the counter.
StopLeavesNothing ==
  stopper = "done" =>
    /\ Threads = {} /\ active = 0
    /\ \A f \in Fd : holder[f] = Free

\* stop() returns if the clients leave.
StopReturns == stopper = "begin" ~> stopper = "done"

-----------------------------------------------------------------------------
(* The invariant.                                                          *)

\* Who holds a descriptor.  The converse does not hold: CloseAgain may close a
\* number that another connection was given by then.
Held ==
  \A f \in Fd :
    /\ holder[f] = Listener => listenSock = f
    /\ holder[f] \in Conn => /\ fd[holder[f]] = f
                             /\ conn[holder[f]] \in {"loop", "begin", "shake", "serve"}

\* What the accept loop has in its hands, and what stop() has seen to.
LoopIn ==
  /\ \A c \in Conn : conn[c] = "loop" <=> acc = "admit" /\ cur = c
  /\ ~running /\ stopper = "none" => listenSock = NoFd
  /\ stopper \in {"join", "sessions", "done"} => listenSock = NoFd
  /\ stopper \in {"sessions", "done"} => acc = "off"
  /\ stopper = "done" => Threads = {}

ImapIInv == ImapInv /\ Held /\ LoopIn
=============================================================================
