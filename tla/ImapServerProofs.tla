-------------------------- MODULE ImapServerProofs --------------------------
(***************************************************************************)
(* For any clients, descriptors and limit: the counter of the IMAP server  *)
(* balances, and stop() leaves nothing behind, although descriptors are    *)
(* closed by numbers that may be somebody else's by then.                  *)
(***************************************************************************)
EXTENDS ImapServer, FiniteSetTheorems, TLAPS

\* The counted connections are some of the clients.
LEMMA CountedIsFinite ==
  /\ IsFiniteSet(Counted) /\ Cardinality(Counted) \in 0..Cardinality(Conn)
  /\ IsFiniteSet(Counted') /\ Cardinality(Counted') \in 0..Cardinality(Conn)
<1>1. Counted \subseteq Conn /\ Counted' \subseteq Conn
  BY DEF Counted
<1> QED
  BY <1>1, ImapClients, FS_Subset, FS_CardinalityType

\* Nothing has been started.
LEMMA ImapInvInit == ImapInit => ImapIInv
<1> SUFFICES ASSUME ImapInit PROVE ImapIInv
  OBVIOUS
<1>1. Cardinality(Conn) \in Nat
  BY ImapClients, FS_CardinalityType
<1>2. Counted = {}
  BY DEF ImapInit, Counted
<1>3. ImapInv
  <2>1. ImapTypeOK
    <3>1. active \in 0..Cardinality(Conn)
      BY <1>1 DEF ImapInit
    <3>2. /\ conn \in [Conn -> {"away", "waiting", "loop", "begin", "shake", "serve", "closed",
                               "uncount"}]
          /\ fd \in [Conn -> Fd \cup {NoFd}] /\ holder \in [Fd -> Conn \cup {Free, Listener}]
      BY DEF ImapInit
    <3> QED
      BY <3>1, <3>2 DEF ImapInit, ImapTypeOK
  <2>2. CountBalances
    BY <1>2, FS_EmptySet DEF ImapInit, CountBalances
  <2> QED
    BY <2>1, <2>2 DEF ImapInv
<1> QED
  BY <1>3, ImapNames DEF ImapInit, ImapIInv, Held, LoopIn

-----------------------------------------------------------------------------
(* What a step does to the counted connections.                            *)

\* Most steps neither count a connection nor stop counting one.
LEMMA CountedKept ==
  ASSUME ImapTypeOK, CountBalances, active' = active,
         \A c \in Conn : conn'[c] \in {"shake", "serve", "closed", "uncount"}
                         <=> conn[c] \in {"shake", "serve", "closed", "uncount"}
  PROVE  CountBalances' /\ active' \in 0..Cardinality(Conn)
<1>1. Counted' = Counted
  BY DEF Counted
<1> QED
  BY <1>1, CountedIsFinite DEF CountBalances

\* The first step of a thread counts it (activeConnections++).
LEMMA CountedUp ==
  ASSUME ImapTypeOK, CountBalances, NEW c \in Conn, Count(c)
  PROVE  CountBalances' /\ active' \in 0..Cardinality(Conn)
<1>1. Counted' = Counted \cup {c} /\ c \notin Counted
  BY DEF Count, ThreadGo, ImapTypeOK, Counted
<1>2. Cardinality(Counted') = Cardinality(Counted) + 1
  BY <1>1, CountedIsFinite, FS_AddElement
<1> QED
  BY <1>2, CountedIsFinite DEF CountBalances, Count

\* And its last step stops counting it (activeConnections--).
LEMMA CountedDown ==
  ASSUME ImapTypeOK, CountBalances, NEW c \in Conn, Uncount(c)
  PROVE  CountBalances' /\ active' \in 0..Cardinality(Conn)
<1>1. Counted' = Counted \ {c} /\ c \in Counted
  BY DEF Uncount, ThreadGo, ImapTypeOK, Counted
<1>2. Cardinality(Counted') = Cardinality(Counted) - 1
  BY <1>1, CountedIsFinite, FS_RemoveElement
<1> QED
  BY <1>2, CountedIsFinite DEF CountBalances, Uncount

-----------------------------------------------------------------------------
(* The steps.                                                              *)

\* A client, and the thread of its session.
LEMMA ConnKeeps ==
  ASSUME ImapIInv, NEW c \in Conn, Arrive(c) \/ SessionStep(c) \/ ClientStep(c)
  PROVE  ImapIInv'
<1> USE ImapNames, ImapLimits
<1> USE DEF ImapIInv, ImapInv, imaploop
<1>1. CASE Arrive(c)
  <2>1. CountBalances' /\ active' \in 0..Cardinality(Conn)
    BY <1>1, CountedKept DEF Arrive, ImapTypeOK
  <2>2. Held'
    BY <1>1 DEF Arrive, ImapTypeOK, Held
  <2>3. LoopIn'
    BY <1>1 DEF Arrive, ImapTypeOK, LoopIn, Held, Threads
  <2> QED
    BY <1>1, <2>1, <2>2, <2>3 DEF Arrive, ImapTypeOK
<1>2. CASE Count(c)
  <2>1. CountBalances' /\ active' \in 0..Cardinality(Conn)
    BY <1>2, CountedUp
  <2>2. Held' /\ LoopIn'
    BY <1>2 DEF Count, ThreadGo, ImapTypeOK, Held, LoopIn, Threads
  <2> QED
    BY <1>2, <2>1, <2>2 DEF Count, ThreadGo, ImapTypeOK
<1>3. CASE Uncount(c)
  <2>1. CountBalances' /\ active' \in 0..Cardinality(Conn)
    BY <1>3, CountedDown
  <2>2. Held' /\ LoopIn'
    BY <1>3 DEF Uncount, ThreadGo, ImapTypeOK, Held, LoopIn, Threads
  <2> QED
    BY <1>3, <2>1, <2>2 DEF Uncount, ThreadGo, ImapTypeOK
<1>4. CASE Handshake(c)
  <2>1. CountBalances' /\ active' \in 0..Cardinality(Conn)
    BY <1>4, CountedKept DEF Handshake, ThreadGo, ImapTypeOK
  <2>2. Held' /\ LoopIn'
    BY <1>4 DEF Handshake, ThreadGo, ImapTypeOK, Held, LoopIn, Threads
  <2> QED
    BY <1>4, <2>1, <2>2 DEF Handshake, ThreadGo, ImapTypeOK
<1>5. CASE HandshakeFails(c) \/ EndSession(c) \/ CloseAgain(c)
  <2>1. CountBalances' /\ active' \in 0..Cardinality(Conn)
    BY <1>5, CountedKept DEF HandshakeFails, EndSession, CloseAgain, ThreadGo, ImapTypeOK
  <2>2. /\ holder' = [holder EXCEPT ![fd[c]] = Free] /\ UNCHANGED <<imaploop, fd>>
        /\ \E x \in {"closed", "uncount"} : conn' = [conn EXCEPT ![c] = x]
        /\ conn[c] \in {"shake", "serve", "closed"}
    BY <1>5 DEF HandshakeFails, EndSession, CloseAgain, ThreadGo, Close
  <2>3. Held'
    BY <2>2 DEF ImapTypeOK, Held
  <2>4. LoopIn'
    BY <2>2 DEF ImapTypeOK, LoopIn, Threads
  <2> QED
    BY <2>1, <2>2, <2>3, <2>4 DEF ImapTypeOK
<1> QED
  BY <1>1, <1>2, <1>3, <1>4, <1>5 DEF SessionStep, ClientStep

\* start and the accept loop.
LEMMA AcceptKeeps ==
  ASSUME ImapIInv, Start \/ AccStep \/ \E c \in Conn : Accept(c)
  PROVE  ImapIInv'
<1> USE ImapNames, ImapLimits
<1> USE DEF ImapIInv, ImapInv
<1>1. CASE Start
  <2>1. CountBalances' /\ active' \in 0..Cardinality(Conn)
    BY <1>1, CountedKept DEF Start
  <2>2. ImapTypeOK'
    BY <1>1, <2>1 DEF Start, ImapTypeOK
  <2>3. Held'
    BY <1>1 DEF Start, ImapTypeOK, Held, LoopIn
  <2>4. LoopIn'
    BY <1>1 DEF Start, ImapTypeOK, LoopIn, Threads
  <2> QED
    BY <2>1, <2>2, <2>3, <2>4
<1>2. CASE LoopTop \/ AcceptFails \/ EndTest
  <2>1. UNCHANGED <<running, listenSock, cur, stopper, conn, fd, holder, active>>
    BY <1>2 DEF LoopTop, AcceptFails, EndTest
  <2>2. /\ acc \in {"loop", "accept", "closing"}
        /\ acc' \in {"closing", "accept", "loop", "close", "off"}
    BY <1>2 DEF LoopTop, AcceptFails, EndTest
  <2>3. CountBalances' /\ active' \in 0..Cardinality(Conn)
    BY <2>1, CountedKept
  <2> QED
    BY <2>1, <2>2, <2>3 DEF ImapTypeOK, Held, LoopIn, Threads
<1>3. CASE Refuse \/ Spawn
  <2>1. /\ acc = "admit" /\ acc' = "loop" /\ conn[cur] = "loop" /\ cur \in Conn
        /\ UNCHANGED <<running, listenSock, cur, stopper, active>>
    BY <1>3 DEF Refuse, Spawn, LoopIn, ImapTypeOK
  <2>2. CountBalances' /\ active' \in 0..Cardinality(Conn)
    BY <1>3, <2>1, CountedKept DEF Refuse, Spawn, ImapTypeOK
  <2>3. Held'
    BY <1>3, <2>1 DEF Refuse, Spawn, Close, ImapTypeOK, Held
  <2>4. LoopIn'
    BY <1>3, <2>1 DEF Refuse, Spawn, ImapTypeOK, LoopIn, Threads
  <2>5. ImapTypeOK'
    BY <1>3, <2>1, <2>2 DEF Refuse, Spawn, Close, ImapTypeOK
  <2> QED
    BY <2>2, <2>3, <2>4, <2>5
<1>4. CASE EndClose
  <2>1. CountBalances' /\ active' \in 0..Cardinality(Conn)
    BY <1>4, CountedKept DEF EndClose, Backlog
  <2>2. ImapTypeOK'
    BY <1>4, <2>1 DEF EndClose, Backlog, Close, ImapTypeOK
  <2>3. Held'
    BY <1>4 DEF EndClose, Backlog, Close, ImapTypeOK, Held
  <2>4. LoopIn'
    BY <1>4 DEF EndClose, Backlog, ImapTypeOK, LoopIn, Threads
  <2> QED
    BY <2>1, <2>2, <2>3, <2>4
<1>5. ASSUME NEW c \in Conn, Accept(c) PROVE ImapIInv'
  <2>1. CountBalances' /\ active' \in 0..Cardinality(Conn)
    BY <1>5, CountedKept DEF Accept, ImapTypeOK
  <2>2. ImapTypeOK'
    BY <1>5, <2>1 DEF Accept, ImapTypeOK
  <2>3. Held'
    BY <1>5 DEF Accept, ImapTypeOK, Held
  <2>4. LoopIn'
    BY <1>5 DEF Accept, ImapTypeOK, LoopIn, Threads
  <2> QED
    BY <2>1, <2>2, <2>3, <2>4
<1> QED
  BY <1>1, <1>2, <1>3, <1>4, <1>5 DEF AccStep

\* stop: what it has passed stays as it left it.
LEMMA StopKeeps ==
  ASSUME ImapIInv, StopBegin \/ StopStep
  PROVE  ImapIInv'
<1> USE ImapNames, ImapLimits
<1> USE DEF ImapIInv, ImapInv
<1>1. CASE StopBegin \/ StopTest \/ StopJoin \/ StopEnds
  <2>1. UNCHANGED <<listenSock, acc, cur, conn, fd, holder, active>>
    BY <1>1 DEF StopBegin, StopTest, StopJoin, StopEnds
  <2>2. CountBalances' /\ active' \in 0..Cardinality(Conn)
    BY <2>1, CountedKept
  <2>3. Held'
    BY <2>1 DEF Held
  <2>4. LoopIn'
    BY <1>1, <2>1 DEF StopBegin, StopTest, StopJoin, StopEnds, LoopIn, Threads
  <2> QED
    BY <1>1, <2>1, <2>2, <2>3, <2>4 DEF StopBegin, StopTest, StopJoin, StopEnds, ImapTypeOK
<1>2. CASE StopListener
  <2>1. CountBalances' /\ active' \in 0..Cardinality(Conn)
    BY <1>2, CountedKept DEF StopListener, Backlog
  <2>2. ImapTypeOK'
    BY <1>2, <2>1 DEF StopListener, Backlog, Close, ImapTypeOK
  <2>3. Held'
    BY <1>2 DEF StopListener, Backlog, Close, ImapTypeOK, Held
  <2>4. LoopIn'
    BY <1>2 DEF StopListener, Backlog, ImapTypeOK, LoopIn, Threads
  <2> QED
    BY <2>1, <2>2, <2>3, <2>4
<1> QED
  BY <1>1, <1>2 DEF StopStep

-----------------------------------------------------------------------------
(* The theorems.                                                           *)

\* ImapIInv is inductive.
THEOREM ImapInvariant == ImapSpec => []ImapIInv
<1>1. ImapIInv /\ [ImapNext]_imapvars => ImapIInv'
  <2> SUFFICES ASSUME ImapIInv, [ImapNext]_imapvars PROVE ImapIInv'
    OBVIOUS
  <2>1. CASE UNCHANGED imapvars
    <3>1. Threads' = Threads /\ Counted' = Counted
      BY <2>1 DEF imapvars, imaploop, Threads, Counted
    <3> QED
      BY <2>1, <3>1 DEF imapvars, imaploop, ImapIInv, ImapInv, ImapTypeOK, CountBalances, Held,
                        LoopIn
  <2> QED
    BY <2>1, ConnKeeps, AcceptKeeps, StopKeeps DEF ImapNext
<1> QED
  BY ImapInvInit, <1>1, PTL DEF ImapSpec

\* The counter is never negative, and is the number of the threads that are
\* between its two ends (handle of ImapServer).
THEOREM ImapCounts == ImapSpec => []ImapInv
BY ImapInvariant, PTL DEF ImapIInv

\* When stop() has returned no thread, no descriptor and no count is left.
THEOREM ImapStopLeavesNothing == ImapSpec => []StopLeavesNothing
<1>1. ImapIInv => StopLeavesNothing
  <2> SUFFICES ASSUME ImapIInv, stopper = "done" PROVE /\ Threads = {} /\ active = 0
                                                       /\ \A f \in Fd : holder[f] = Free
    BY DEF StopLeavesNothing
  <2>1. Threads = {} /\ \A c \in Conn : conn[c] \in {"away", "waiting"}
    BY DEF ImapIInv, ImapInv, ImapTypeOK, LoopIn, Threads
  <2>2. Counted = {}
    BY <2>1 DEF Counted
  <2>3. \A f \in Fd : holder[f] = Free
    BY <2>1, ImapNames DEF ImapIInv, ImapInv, ImapTypeOK, Held, LoopIn
  <2> QED
    BY <2>1, <2>2, <2>3, FS_EmptySet DEF ImapIInv, ImapInv, CountBalances
<1> QED
  BY ImapInvariant, <1>1, PTL
=============================================================================
