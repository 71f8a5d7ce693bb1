-------------------------- MODULE SmtpServerProofs --------------------------
(***************************************************************************)
(* For any clients, addresses, descriptors and limits: the counters that   *)
(* admit a connection lose no permit but those of failed handshakes, the   *)
(* global limit is kept although it is looked at and raised in two steps   *)
(* without a lock, and no client is refused for one that is gone.  The     *)
(* invariant is SrvIInv of SmtpServer.                                     *)
(*                                                                         *)
(* What a step does to control and to the counters is proved apart: the    *)
(* counters need only know which connections began or ceased to count.     *)
(***************************************************************************)
EXTENDS SmtpServer, FiniteSetTheorems, TLAPS

Counting == {c \in Conn : Counted(c)}
OfIp(i)  == {c \in Conn : IpOf[c] = i /\ InIp(c)}

-----------------------------------------------------------------------------
(* The sets that are counted.                                              *)

\* The counted connections are some of the clients.
LEMMA ClientsFinite ==
  /\ IsFiniteSet(Counting) /\ Cardinality(Counting) \in Nat
  /\ IsFiniteSet(Counting') /\ Cardinality(Counting') \in Nat
  /\ \A i \in Ip : /\ IsFiniteSet(OfIp(i)) /\ Cardinality(OfIp(i)) \in Nat
                   /\ IsFiniteSet(OfIp(i)') /\ Cardinality(OfIp(i)') \in Nat
<1>1. Counting \subseteq Conn /\ Counting' \subseteq Conn
  BY DEF Counting
<1>2. \A i \in Ip : OfIp(i) \subseteq Conn /\ OfIp(i)' \subseteq Conn
  BY DEF OfIp
<1> QED
  BY <1>1, <1>2, ServerClients, FS_Subset, FS_CardinalityType

\* The permits that are lost are finitely many.
LEMMA LostFinite ==
  ASSUME leaked \in [Ip -> Nat]
  PROVE  IsFiniteSet(Lost) /\ Cardinality(Lost) \in Nat
<1> DEFINE Of == [i \in Ip |-> {<<i, n>> : n \in 1..leaked[i]}]
           All == {Of[i] : i \in Ip}
<1>1. ASSUME NEW i \in Ip PROVE IsFiniteSet(Of[i])
  <2>1. IsFiniteSet({i}) /\ IsFiniteSet(1..leaked[i])
    <3>1. leaked[i] \in Int /\ 1 \in Int
      OBVIOUS
    <3> HIDE DEF Of
    <3> QED
      BY <3>1, FS_Singleton, FS_Interval
  <2>2. Of[i] = {i} \X (1..leaked[i])
    OBVIOUS
  <2> HIDE DEF Of
  <2> QED
    BY <2>1, <2>2, FS_Product
<1>2. IsFiniteSet(All)
  <2> HIDE DEF Of
  <2>1. Of \in [Ip -> All]
    BY DEF Of
  <2>2. Of \in Surjection(Ip, All)
    BY <2>1 DEF Surjection
  <2> QED
    BY <2>2, ServerClients, FS_Surjection
<1>3. Lost = UNION All
  <2>1. All = {{<<i, n>> : n \in 1..leaked[i]} : i \in Ip}
    OBVIOUS
  <2> HIDE DEF All
  <2> QED
    BY <2>1 DEF Lost
<1> HIDE DEF Of
<1>4. \A T \in All : IsFiniteSet(T)
  BY <1>1
<1> HIDE DEF All
<1> QED
  BY <1>2, <1>3, <1>4, FS_UNION, FS_CardinalityType

\* A failed handshake loses one permit more.
LEMMA LostMore ==
  ASSUME leaked \in [Ip -> Nat], NEW i \in Ip, leaked' = [leaked EXCEPT ![i] = @ + 1]
  PROVE  Cardinality(Lost') = Cardinality(Lost) + 1
<1>1. Lost' = Lost \cup {<<i, leaked[i] + 1>>} /\ <<i, leaked[i] + 1>> \notin Lost
  BY DEF Lost
<1> QED
  BY <1>1, LostFinite, FS_AddElement

-----------------------------------------------------------------------------
(* What a step does to the counters.                                       *)

Bounds == PermitsBalance /\ GlobalBounded /\ NoPhantoms /\ RoomSeen

\* The types of what is counted.
CountTypes == active \in Int /\ perIp \in [Ip -> Nat] /\ leaked \in [Ip -> Nat]

\* The sums are numbers.
LEMMA TakenIs ==
  ASSUME CountTypes
  PROVE  Taken = Cardinality(Counting) + Cardinality(Lost) /\ Taken \in Nat
BY ClientsFinite, LostFinite DEF Taken, Counting, CountTypes

\* Nobody begins to count or ceases to.
LEMMA SameTaken ==
  ASSUME \A c \in Conn : Counted(c)' <=> Counted(c), leaked' = leaked
  PROVE  Taken' = Taken
<1>1. Counting' = Counting /\ Lost' = Lost
  BY DEF Counting, Lost
<1> QED
  BY <1>1 DEF Taken, Counting

LEMMA SamePhantoms ==
  ASSUME NoPhantoms, \A c \in Conn : InIp(c)' <=> InIp(c), UNCHANGED <<perIp, leaked>>
  PROVE  NoPhantoms'
<1>1. \A i \in Ip : OfIp(i)' = OfIp(i)
  BY DEF OfIp
<1> QED
  BY <1>1 DEF NoPhantoms, OfIp

\* A step that neither admits a connection nor lets one go.
LEMMA Steady ==
  ASSUME Bounds, UNCHANGED <<active, perIp, leaked>>, acc' = "count" => acc = "count",
         \A c \in Conn : (Counted(c)' <=> Counted(c)) /\ (InIp(c)' <=> InIp(c))
  PROVE  Bounds'
BY SameTaken, SamePhantoms DEF Bounds, PermitsBalance, GlobalBounded, RoomSeen

\* releaseConnection, its first half: the permit of c is given back.
LEMMA PermitBack ==
  ASSUME Bounds, CountTypes, NEW c \in Conn, Counted(c), active' = active - 1,
         UNCHANGED <<perIp, leaked>>, acc' = "count" => acc = "count",
         \A d \in Conn : Counted(d)' <=> Counted(d) /\ d # c,
         \A d \in Conn : InIp(d)' <=> InIp(d)
  PROVE  Bounds'
<1>1. Counting' = Counting \ {c} /\ c \in Counting /\ Lost' = Lost
  BY DEF Counting, Lost
<1>2. Cardinality(Counting') = Cardinality(Counting) - 1
  BY <1>1, ClientsFinite, FS_RemoveElement
<1>3. Taken' = Taken - 1 /\ Taken \in Nat
  BY <1>1, <1>2, TakenIs, ClientsFinite, LostFinite DEF Taken, Counting, CountTypes
<1> QED
  BY <1>3, SamePhantoms, ServerLimits
     DEF Bounds, CountTypes, PermitsBalance, GlobalBounded, RoomSeen

\* Its second half: c is no longer counted for its address.
LEMMA AddressBack ==
  ASSUME Bounds, CountTypes, NEW c \in Conn, InIp(c), ReleaseIp(IpOf[c]),
         UNCHANGED <<active, leaked>>, acc' = "count" => acc = "count",
         \A d \in Conn : Counted(d)' <=> Counted(d),
         \A d \in Conn : InIp(d)' <=> InIp(d) /\ d # c
  PROVE  Bounds'
<1>1. ASSUME NEW i \in Ip PROVE perIp'[i] <= Cardinality(OfIp(i)') + leaked'[i]
  <2>1. perIp[i] <= Cardinality(OfIp(i)) + leaked[i] /\ perIp[i] \in Nat /\ leaked[i] \in Nat
    BY DEF Bounds, NoPhantoms, OfIp, CountTypes
  <2>2. CASE i = IpOf[c]
    <3>1. OfIp(i)' = OfIp(i) \ {c} /\ c \in OfIp(i)
      BY <2>2 DEF OfIp
    <3>2. Cardinality(OfIp(i)') = Cardinality(OfIp(i)) - 1
      BY <3>1, ClientsFinite, FS_RemoveElement
    <3>3. perIp'[i] = IF perIp[i] > 0 THEN perIp[i] - 1 ELSE 0
      BY <2>2 DEF ReleaseIp, CountTypes
    <3> QED
      BY <2>1, <3>2, <3>3, ClientsFinite
  <2>3. CASE i # IpOf[c]
    <3>1. OfIp(i)' = OfIp(i) /\ perIp'[i] = perIp[i]
      BY <2>3 DEF OfIp, ReleaseIp, CountTypes
    <3> QED
      BY <2>1, <3>1
  <2> QED
    BY <2>2, <2>3
<1> QED
  BY <1>1, SameTaken DEF Bounds, NoPhantoms, OfIp, PermitsBalance, GlobalBounded, RoomSeen

\* A handshake fails: what c held is lost.
LEMMA PermitLost ==
  ASSUME Bounds, CountTypes, NEW c \in Conn, Counted(c), InIp(c), IpOf[c] \in Ip,
         leaked' = [leaked EXCEPT ![IpOf[c]] = @ + 1],
         UNCHANGED <<active, perIp>>, acc' = "count" => acc = "count",
         \A d \in Conn : (Counted(d)' <=> Counted(d) /\ d # c) /\ (InIp(d)' <=> InIp(d) /\ d # c)
  PROVE  Bounds'
<1>1. Counting' = Counting \ {c} /\ c \in Counting
  BY DEF Counting
<1>2. Cardinality(Counting') = Cardinality(Counting) - 1
  BY <1>1, ClientsFinite, FS_RemoveElement
<1>3. Cardinality(Lost') = Cardinality(Lost) + 1
  BY LostMore DEF CountTypes
<1>4. Taken' = Taken
  BY <1>2, <1>3, ClientsFinite, LostFinite DEF Taken, Counting, CountTypes
<1>5. ASSUME NEW i \in Ip PROVE perIp'[i] <= Cardinality(OfIp(i)') + leaked'[i]
  <2>1. perIp[i] <= Cardinality(OfIp(i)) + leaked[i] /\ perIp[i] \in Nat /\ leaked[i] \in Nat
    BY DEF Bounds, NoPhantoms, OfIp, CountTypes
  <2>2. CASE i = IpOf[c]
    <3>1. OfIp(i)' = OfIp(i) \ {c} /\ c \in OfIp(i)
      BY <2>2 DEF OfIp
    <3>2. Cardinality(OfIp(i)') = Cardinality(OfIp(i)) - 1
      BY <3>1, ClientsFinite, FS_RemoveElement
    <3>3. leaked'[i] = leaked[i] + 1
      BY <2>2 DEF CountTypes
    <3> QED
      BY <2>1, <3>2, <3>3, ClientsFinite
  <2>3. CASE i # IpOf[c]
    <3>1. OfIp(i)' = OfIp(i) /\ leaked'[i] = leaked[i]
      BY <2>3 DEF OfIp, CountTypes
    <3> QED
      BY <2>1, <3>1
  <2> QED
    BY <2>2, <2>3
<1> QED
  BY <1>4, <1>5 DEF Bounds, NoPhantoms, OfIp, PermitsBalance, GlobalBounded, RoomSeen

\* tryAcquireConnection counts c for its address, having seen room.
LEMMA AddressTaken ==
  ASSUME Bounds, CountTypes, NEW c \in Conn, ~InIp(c), active < GlobalMax,
         NEW n \in 0..perIp[IpOf[c]], perIp' = [perIp EXCEPT ![IpOf[c]] = n + 1],
         UNCHANGED <<active, leaked>>,
         \A d \in Conn : Counted(d)' <=> Counted(d),
         \A d \in Conn : InIp(d)' <=> InIp(d) \/ d = c
  PROVE  Bounds'
<1>1. ASSUME NEW i \in Ip PROVE perIp'[i] <= Cardinality(OfIp(i)') + leaked'[i]
  <2>1. perIp[i] <= Cardinality(OfIp(i)) + leaked[i] /\ perIp[i] \in Nat /\ leaked[i] \in Nat
    BY DEF Bounds, NoPhantoms, OfIp, CountTypes
  <2>2. CASE i = IpOf[c]
    <3>1. OfIp(i)' = OfIp(i) \cup {c} /\ c \notin OfIp(i)
      BY <2>2 DEF OfIp
    <3>2. Cardinality(OfIp(i)') = Cardinality(OfIp(i)) + 1
      BY <3>1, ClientsFinite, FS_AddElement
    <3>3. perIp'[i] = n + 1 /\ n <= perIp[i] /\ n \in Nat
      BY <2>1, <2>2 DEF CountTypes
    <3> QED
      BY <2>1, <3>2, <3>3, ClientsFinite
  <2>3. CASE i # IpOf[c]
    <3>1. OfIp(i)' = OfIp(i) /\ perIp'[i] = perIp[i]
      BY <2>3 DEF OfIp, CountTypes
    <3> QED
      BY <2>1, <3>1
  <2> QED
    BY <2>2, <2>3
<1> QED
  BY <1>1, SameTaken DEF Bounds, NoPhantoms, OfIp, PermitsBalance, GlobalBounded, RoomSeen

\* And then raises the counter.
LEMMA PermitTaken ==
  ASSUME Bounds, CountTypes, NEW c \in Conn, ~Counted(c), active' = active + 1,
         acc = "count", acc' # "count", UNCHANGED <<perIp, leaked>>,
         \A d \in Conn : Counted(d)' <=> Counted(d) \/ d = c,
         \A d \in Conn : InIp(d)' <=> InIp(d)
  PROVE  Bounds'
<1>1. Counting' = Counting \cup {c} /\ c \notin Counting /\ Lost' = Lost
  BY DEF Counting, Lost
<1>2. Cardinality(Counting') = Cardinality(Counting) + 1
  BY <1>1, ClientsFinite, FS_AddElement
<1>3. Taken' = Taken + 1 /\ Taken \in Nat
  BY <1>1, <1>2, TakenIs, ClientsFinite, LostFinite DEF Taken, Counting, CountTypes
<1> QED
  BY <1>3, SamePhantoms, ServerLimits
     DEF Bounds, CountTypes, PermitsBalance, GlobalBounded, RoomSeen

-----------------------------------------------------------------------------
(* The steps.                                                              *)

\* The invariant, as control and counters.
LEMMA Parts ==
  /\ SrvIInv <=> SrvTypeOK /\ InHands /\ Stopped /\ Bounds
  /\ SrvIInv' <=> SrvTypeOK' /\ InHands' /\ Stopped' /\ Bounds'
BY DEF SrvIInv, SrvInv, Bounds

\* Nothing has been started.
LEMMA SrvInvInit == SrvInit => SrvIInv
<1> SUFFICES ASSUME SrvInit PROVE SrvIInv
  OBVIOUS
<1> USE ServerNames, ServerLimits
<1>1. SrvTypeOK
  <2>1. rate \in [Ip -> 0..MaxRate]
    BY DEF SrvInit
  <2>2. conn \in [Conn -> ConnPlaces] /\ acc \in AccPlaces /\ stopper \in StopPlaces
    BY DEF SrvInit, AccPlaces, StopPlaces, ConnPlaces
  <2>3. fd \in [Conn -> Fd \cup {NoFd}] /\ holder \in [Fd -> Conn \cup {Free, Other}]
    BY DEF SrvInit
  <2>4. perIp \in [Ip -> Nat] /\ leaked \in [Ip -> Nat] /\ active \in Int
    BY DEF SrvInit
  <2>5. running \in BOOLEAN /\ listening \in BOOLEAN /\ cur \in Conn /\ sockets \subseteq Fd
    BY DEF SrvInit
  <2> QED
    BY <2>1, <2>2, <2>3, <2>4, <2>5 DEF SrvTypeOK
<1>2. InHands /\ Stopped
  BY DEF SrvInit, InHands, Stopped
<1>3. Counting = {} /\ Lost = {}
  BY DEF SrvInit, Counting, Counted, Lost
<1>4. Taken = 0 /\ active = 0
  BY <1>3, FS_EmptySet DEF SrvInit, Taken, Counting
<1>5. \A i \in Ip : perIp[i] <= Cardinality(OfIp(i)) + leaked[i]
  BY ClientsFinite DEF SrvInit
<1> QED
  BY <1>1, <1>2, <1>4, <1>5, Parts
     DEF Bounds, PermitsBalance, GlobalBounded, NoPhantoms, OfIp, RoomSeen, SrvInit

\* A client arrives, or another part of the process uses a descriptor.
LEMMA OthersKeep ==
  ASSUME SrvIInv,
         (\E c \in Conn : Arrive(c)) \/ (\E f \in Fd : OtherOpens(f) \/ OtherCloses(f))
  PROVE  SrvIInv'
<1> USE ServerNames, Parts
<1> USE DEF loopvars, fdvars, limits
<1>1. ASSUME NEW c \in Conn, Arrive(c) PROVE SrvIInv'
  <2>1. SrvTypeOK'
    BY <1>1 DEF Arrive, SrvTypeOK, ConnPlaces
  <2>2. InHands' /\ Stopped'
    BY <1>1 DEF Arrive, SrvTypeOK, InHands, Stopped, Threads
  <2>3. \A d \in Conn : (Counted(d)' <=> Counted(d)) /\ (InIp(d)' <=> InIp(d))
    BY <1>1 DEF Arrive, SrvTypeOK, Counted, InIp
  <2> QED
    BY <1>1, <2>1, <2>2, <2>3, Steady DEF Arrive
<1>2. ASSUME NEW f \in Fd, OtherOpens(f) \/ OtherCloses(f) PROVE SrvIInv'
  <2>1. SrvTypeOK' /\ UNCHANGED <<loopvars, conn, fd, sockets, limits>>
    BY <1>2 DEF OtherOpens, OtherCloses, SrvTypeOK
  <2>2. InHands' /\ Stopped'
    BY <2>1 DEF InHands, Stopped, Threads
  <2>3. \A d \in Conn : (Counted(d)' <=> Counted(d)) /\ (InIp(d)' <=> InIp(d))
    BY <2>1 DEF Counted, InIp
  <2> QED
    BY <2>1, <2>2, <2>3, Steady
<1> QED
  BY <1>1, <1>2

\* start, and the accept loop up to the limits.
LEMMA LoopKeeps ==
  ASSUME SrvIInv, Start \/ LoopTop \/ AcceptEnds \/ (\E c \in Conn : Accept(c))
  PROVE  SrvIInv'
<1> USE ServerNames, Parts
<1> USE DEF fdvars, limits
<1>1. CASE Start \/ LoopTop \/ AcceptEnds
  <2>1. /\ UNCHANGED <<cur, stopper, conn, fdvars, limits>>
        /\ acc \in {"off", "loop", "accept"} /\ acc' \in {"off", "loop", "accept"}
    BY <1>1 DEF Start, LoopTop, AcceptEnds
  <2>2. SrvTypeOK'
    BY <1>1, <2>1 DEF Start, LoopTop, AcceptEnds, SrvTypeOK, AccPlaces
  <2>3. InHands'
    BY <2>1 DEF InHands
  <2>4. Stopped'
    BY <1>1, <2>1 DEF Start, LoopTop, AcceptEnds, Stopped, Threads
  <2>5. \A d \in Conn : (Counted(d)' <=> Counted(d)) /\ (InIp(d)' <=> InIp(d))
    BY <2>1 DEF Counted, InIp
  <2> QED
    BY <2>1, <2>2, <2>3, <2>4, <2>5, Steady
<1>2. ASSUME NEW c \in Conn, Accept(c) PROVE SrvIInv'
  <2>1. SrvTypeOK'
    BY <1>2 DEF Accept, SrvTypeOK, AccPlaces, ConnPlaces
  <2>2. InHands'
    BY <1>2 DEF Accept, SrvTypeOK, InHands
  <2>3. Stopped'
    BY <1>2 DEF Accept, SrvTypeOK, Stopped, Threads
  <2>4. \A d \in Conn : (Counted(d)' <=> Counted(d)) /\ (InIp(d)' <=> InIp(d))
    BY <1>2 DEF Accept, SrvTypeOK, InHands, Counted, InIp
  <2> QED
    BY <1>2, <2>1, <2>2, <2>3, <2>4, Steady DEF Accept
<1> QED
  BY <1>1, <1>2

\* allowConnection keeps the counts of the rate limiter within their bound.
LEMMA RateCounted ==
  ASSUME rate \in [Ip -> 0..MaxRate], NEW ip \in Ip, NEW ok \in BOOLEAN, AllowConnection(ip, ok)
  PROVE  rate' \in [Ip -> 0..MaxRate]
<1>1. PICK expired \in BOOLEAN :
        LET count == IF expired THEN 1 ELSE rate[ip] + 1
        IN  count <= MaxRate /\ rate' = [rate EXCEPT ![ip] = count]
  BY DEF AllowConnection
<1>2. rate[ip] \in Nat
  OBVIOUS
<1> DEFINE count == IF expired THEN 1 ELSE rate[ip] + 1
<1>3. count \in 0..MaxRate
  BY <1>1, <1>2, ServerLimits
<1> QED
  BY <1>1, <1>3

\* tryAcquireConnection, and the rate limiter after it.
LEMMA AdmitKeeps ==
  ASSUME SrvIInv, Acquire \/ AcquireFails \/ Count \/ Spawn \/ OverRate
  PROVE  SrvIInv'
<1> USE ServerNames, Parts
<1> USE DEF fdvars, limits
<1>0. /\ CountTypes /\ cur \in Conn /\ IpOf[cur] \in Ip /\ conn \in [Conn -> ConnPlaces]
      /\ acc \in {"acquire", "count", "rate"} /\ conn[cur] = "loop" /\ fd[cur] \in Fd
      /\ \A c \in Conn : c # cur => conn[c] # "loop"
  BY DEF Acquire, AcquireFails, Count, Spawn, OverRate, SrvTypeOK, CountTypes, InHands
<1>1. CASE Acquire
  <2>1. PICK n \in 0..perIp[IpOf[cur]] : perIp' = [perIp EXCEPT ![IpOf[cur]] = n + 1]
    <3>1. PICK stale \in BOOLEAN :
            perIp' = [perIp EXCEPT ![IpOf[cur]] = (IF stale THEN 0 ELSE perIp[IpOf[cur]]) + 1]
      BY <1>1 DEF Acquire
    <3>2. perIp[IpOf[cur]] \in Nat
      BY <1>0 DEF CountTypes
    <3>3. (IF stale THEN 0 ELSE perIp[IpOf[cur]]) \in 0..perIp[IpOf[cur]]
      BY <3>2
    <3> QED
      BY <3>1, <3>3
  <2>2. /\ acc = "acquire" /\ acc' = "count" /\ active < GlobalMax
        /\ UNCHANGED <<running, listening, cur, stopper, conn, fdvars, active, rate, leaked>>
    BY <1>1 DEF Acquire
  <2>3. SrvTypeOK'
    BY <1>0, <2>1, <2>2 DEF SrvTypeOK, AccPlaces
  <2>4. InHands' /\ Stopped'
    BY <1>0, <2>2 DEF InHands, Stopped, Threads
  <2>5. /\ ~InIp(cur) /\ \A d \in Conn : Counted(d)' <=> Counted(d)
        /\ \A d \in Conn : InIp(d)' <=> InIp(d) \/ d = cur
    BY <1>0, <2>2 DEF Counted, InIp
  <2> QED
    BY <1>0, <2>1, <2>2, <2>3, <2>4, <2>5, AddressTaken
<1>2. CASE AcquireFails
  <2>1. /\ acc = "acquire" /\ acc' = "loop" /\ conn' = [conn EXCEPT ![cur] = "away"]
        /\ UNCHANGED <<running, listening, cur, stopper, sockets, limits>>
    BY <1>2 DEF AcquireFails, Refuse
  <2>2. SrvTypeOK'
    BY <1>0, <1>2, <2>1 DEF AcquireFails, Refuse, Close, SrvTypeOK, AccPlaces, ConnPlaces
  <2>3. InHands'
    BY <1>0, <1>2, <2>1 DEF AcquireFails, Refuse, InHands, SrvTypeOK
  <2>4. Stopped'
    BY <1>0, <2>1 DEF Stopped, Threads
  <2>5. \A d \in Conn : (Counted(d)' <=> Counted(d)) /\ (InIp(d)' <=> InIp(d))
    BY <1>0, <2>1 DEF Counted, InIp
  <2> QED
    BY <2>1, <2>2, <2>3, <2>4, <2>5, Steady
<1>3. CASE Count
  <2>1. /\ acc = "count" /\ acc' = "rate" /\ active' = active + 1
        /\ UNCHANGED <<running, listening, cur, stopper, conn, fdvars, perIp, rate, leaked>>
    BY <1>3 DEF Count
  <2>2. SrvTypeOK'
    BY <2>1 DEF SrvTypeOK, AccPlaces
  <2>3. InHands' /\ Stopped'
    BY <1>0, <2>1 DEF InHands, Stopped, Threads
  <2>4. /\ ~Counted(cur) /\ \A d \in Conn : InIp(d)' <=> InIp(d)
        /\ \A d \in Conn : Counted(d)' <=> Counted(d) \/ d = cur
    BY <1>0, <2>1 DEF Counted, InIp
  <2> QED
    BY <1>0, <2>1, <2>2, <2>3, <2>4, PermitTaken
<1>4. CASE Spawn
  <2>1. /\ acc = "rate" /\ acc' = "loop" /\ sockets' = sockets \cup {fd[cur]}
        /\ \E x \in {"shake", "greet"} : conn' = [conn EXCEPT ![cur] = x]
        /\ UNCHANGED <<running, listening, cur, stopper, fd, holder, active, perIp, leaked>>
    BY <1>0, <1>4 DEF Spawn
  <2>6. rate' \in [Ip -> 0..MaxRate]
    BY <1>0, <1>4, RateCounted DEF Spawn, SrvTypeOK
  <2>2. SrvTypeOK'
    BY <1>0, <2>1, <2>6 DEF SrvTypeOK, AccPlaces, ConnPlaces
  <2>3. InHands'
    BY <1>0, <2>1 DEF InHands
  <2>4. Stopped'
    BY <1>0, <2>1 DEF Stopped, Threads
  <2>5. \A d \in Conn : (Counted(d)' <=> Counted(d)) /\ (InIp(d)' <=> InIp(d))
    BY <1>0, <2>1 DEF Counted, InIp
  <2> QED
    BY <2>1, <2>2, <2>3, <2>4, <2>5, Steady
<1>5. CASE OverRate
  <2>1. /\ acc = "rate" /\ acc' = "refund"
        /\ UNCHANGED <<running, listening, cur, stopper, conn, fdvars, active, perIp, leaked>>
    BY <1>0, <1>5 DEF OverRate
  <2>5. rate' \in [Ip -> 0..MaxRate]
    BY <1>0, <1>5, RateCounted DEF OverRate, SrvTypeOK
  <2>2. SrvTypeOK'
    BY <1>0, <2>1, <2>5 DEF SrvTypeOK, AccPlaces
  <2>3. InHands' /\ Stopped'
    BY <1>0, <2>1 DEF InHands, Stopped, Threads
  <2>4. \A d \in Conn : (Counted(d)' <=> Counted(d)) /\ (InIp(d)' <=> InIp(d))
    BY <1>0, <2>1 DEF Counted, InIp
  <2> QED
    BY <2>1, <2>2, <2>3, <2>4, Steady
<1> QED
  BY <1>1, <1>2, <1>3, <1>4, <1>5

\* The accept loop gives back what it took for a connection over the rate.
LEMMA RefundKeeps ==
  ASSUME SrvIInv, Refund \/ RefundIp
  PROVE  SrvIInv'
<1> USE ServerNames, Parts
<1> USE DEF fdvars
<1>0. /\ CountTypes /\ cur \in Conn /\ IpOf[cur] \in Ip /\ conn \in [Conn -> ConnPlaces]
      /\ acc \in {"refund", "refund2"} /\ conn[cur] = "loop" /\ fd[cur] \in Fd
      /\ \A c \in Conn : c # cur => conn[c] # "loop"
  BY DEF Refund, RefundIp, SrvTypeOK, CountTypes, InHands
<1>1. CASE Refund
  <2>1. /\ acc = "refund" /\ acc' = "refund2" /\ active' = active - 1
        /\ UNCHANGED <<running, listening, cur, stopper, conn, fdvars, perIp, rate, leaked>>
    BY <1>1 DEF Refund, ReleaseGlobal
  <2>2. SrvTypeOK'
    BY <2>1 DEF SrvTypeOK, AccPlaces
  <2>3. InHands' /\ Stopped'
    BY <1>0, <2>1 DEF InHands, Stopped, Threads
  <2>4. /\ Counted(cur) /\ \A d \in Conn : InIp(d)' <=> InIp(d)
        /\ \A d \in Conn : Counted(d)' <=> Counted(d) /\ d # cur
    BY <1>0, <2>1 DEF Counted, InIp
  <2> QED
    BY <1>0, <2>1, <2>2, <2>3, <2>4, PermitBack
<1>2. CASE RefundIp
  <2>1. /\ acc = "refund2" /\ acc' = "loop" /\ conn' = [conn EXCEPT ![cur] = "away"]
        /\ UNCHANGED <<running, listening, cur, stopper, sockets, active, rate, leaked>>
        /\ ReleaseIp(IpOf[cur])
    BY <1>2 DEF RefundIp, Refuse
  <2>2. perIp' \in [Ip -> Nat]
    BY <1>0, <2>1 DEF ReleaseIp, CountTypes
  <2>3. SrvTypeOK'
    BY <1>0, <1>2, <2>1, <2>2 DEF RefundIp, Refuse, Close, SrvTypeOK, AccPlaces, ConnPlaces
  <2>4. InHands'
    BY <1>0, <1>2, <2>1 DEF RefundIp, Refuse, InHands, SrvTypeOK
  <2>5. Stopped'
    BY <1>0, <2>1 DEF Stopped, Threads
  <2>6. /\ InIp(cur) /\ \A d \in Conn : Counted(d)' <=> Counted(d)
        /\ \A d \in Conn : InIp(d)' <=> InIp(d) /\ d # cur
    BY <1>0, <2>1 DEF Counted, InIp
  <2> QED
    BY <1>0, <2>1, <2>3, <2>4, <2>5, <2>6, AddressBack
<1> QED
  BY <1>1, <1>2

\* The thread of a session, waiting for its client or not.
LEMMA ThreadKeeps ==
  ASSUME SrvIInv, NEW c \in Conn, SessionStep(c) \/ ClientStep(c)
  PROVE  SrvIInv'
<1> USE ServerNames, Parts
<1> USE DEF loopvars, fdvars, limits, ThreadGo
<1>0. /\ CountTypes /\ IpOf[c] \in Ip /\ conn \in [Conn -> ConnPlaces]
      /\ rate \in [Ip -> 0..MaxRate]
  BY DEF SrvTypeOK, CountTypes
<1>1. CASE HandshakeFails(c)
  <2>1. /\ conn[c] = "shake" /\ conn' = [conn EXCEPT ![c] = "unshake"]
        /\ leaked' = [leaked EXCEPT ![IpOf[c]] = @ + 1]
        /\ UNCHANGED <<loopvars, fd, sockets, active, perIp, rate>>
    BY <1>1 DEF HandshakeFails
  <2>2. SrvTypeOK'
    <3>1. leaked' \in [Ip -> Nat]
      BY <1>0, <2>1 DEF CountTypes
    <3>2. holder' \in [Fd -> Conn \cup {Free, Other}]
      BY <1>1 DEF HandshakeFails, Close, SrvTypeOK
    <3> QED
      BY <1>0, <2>1, <3>1, <3>2 DEF SrvTypeOK, ConnPlaces
  <2>3. InHands' /\ Stopped'
    BY <1>0, <2>1 DEF InHands, Stopped, Threads
  <2>4. /\ Counted(c) /\ InIp(c)
        /\ \A d \in Conn : /\ Counted(d)' <=> Counted(d) /\ d # c
                           /\ InIp(d)' <=> InIp(d) /\ d # c
    BY <1>0, <2>1 DEF Counted, InIp
  <2> QED
    BY <1>0, <2>1, <2>2, <2>3, <2>4, PermitLost
<1>2. CASE Release(c)
  <2>1. /\ conn[c] = "release" /\ conn' = [conn EXCEPT ![c] = "release2"]
        /\ active' = active - 1 /\ UNCHANGED <<loopvars, fdvars, perIp, rate, leaked>>
    BY <1>2 DEF Release, ReleaseGlobal
  <2>2. SrvTypeOK'
    BY <1>0, <2>1 DEF SrvTypeOK, ConnPlaces
  <2>3. InHands' /\ Stopped'
    BY <1>0, <2>1 DEF InHands, Stopped, Threads
  <2>4. /\ Counted(c) /\ \A d \in Conn : InIp(d)' <=> InIp(d)
        /\ \A d \in Conn : Counted(d)' <=> Counted(d) /\ d # c
    BY <1>0, <2>1 DEF Counted, InIp
  <2> QED
    BY <1>0, <2>1, <2>2, <2>3, <2>4, PermitBack
<1>3. CASE ReleaseAddress(c)
  <2>1. /\ conn[c] = "release2" /\ conn' = [conn EXCEPT ![c] = "erase"]
        /\ ReleaseIp(IpOf[c]) /\ UNCHANGED <<loopvars, fdvars, active, rate, leaked>>
    BY <1>3 DEF ReleaseAddress
  <2>2. perIp' \in [Ip -> Nat]
    BY <1>0, <2>1 DEF ReleaseIp, CountTypes
  <2>3. SrvTypeOK'
    BY <1>0, <2>1, <2>2 DEF SrvTypeOK, ConnPlaces
  <2>4. InHands' /\ Stopped'
    BY <1>0, <2>1 DEF InHands, Stopped, Threads
  <2>5. /\ InIp(c) /\ \A d \in Conn : Counted(d)' <=> Counted(d)
        /\ \A d \in Conn : InIp(d)' <=> InIp(d) /\ d # c
    BY <1>0, <2>1 DEF Counted, InIp
  <2> QED
    BY <1>0, <2>1, <2>3, <2>4, <2>5, AddressBack
<1>4. CASE Handshake(c) \/ Greet(c) \/ GreetFails(c) \/ EndSession(c) \/ ReleaseRate(c)
  <2>1. /\ UNCHANGED <<loopvars, fd, sockets, active, perIp, leaked>>
        /\ conn[c] \in {"shake", "greet", "serve", "closed"}
        /\ \E x \in {"greet", "serve", "closed", "release"} : conn' = [conn EXCEPT ![c] = x]
    BY <1>4 DEF Handshake, Greet, GreetFails, EndSession, ReleaseRate
  <2>2. holder' \in [Fd -> Conn \cup {Free, Other}]
    BY <1>4 DEF Handshake, Greet, GreetFails, EndSession, ReleaseRate, Close, SrvTypeOK
  <2>3. rate' \in [Ip -> 0..MaxRate]
    <3>1. CASE Handshake(c) \/ EndSession(c)
      BY <1>0, <3>1 DEF Handshake, EndSession
    <3>2. CASE Greet(c)
      <4>1. AllowConnection(IpOf[c], TRUE)
        BY <3>2 DEF Greet, AllowConnection
      <4> QED
        BY <1>0, <4>1, RateCounted
    <3>3. CASE GreetFails(c)
      BY <1>0, <3>3, RateCounted DEF GreetFails
    <3>4. CASE ReleaseRate(c)
      <4>1. rate[IpOf[c]] \in 0..MaxRate
        BY <1>0
      <4>2. (IF rate[IpOf[c]] > 0 THEN rate[IpOf[c]] - 1 ELSE 0) \in 0..MaxRate
        BY <4>1, ServerLimits
      <4> QED
        BY <1>0, <3>4, <4>2 DEF ReleaseRate
    <3> QED
      BY <1>4, <3>1, <3>2, <3>3, <3>4
  <2>4. SrvTypeOK'
    BY <1>0, <2>1, <2>2, <2>3 DEF SrvTypeOK, ConnPlaces
  <2>5. InHands' /\ Stopped'
    BY <1>0, <2>1 DEF InHands, Stopped, Threads
  <2>6. \A d \in Conn : (Counted(d)' <=> Counted(d)) /\ (InIp(d)' <=> InIp(d))
    BY <1>0, <2>1 DEF Counted, InIp
  <2> QED
    BY <2>1, <2>4, <2>5, <2>6, Steady
<1>5. CASE HandshakeGone(c) \/ EraseSocket(c)
  <2>1. /\ UNCHANGED <<loopvars, holder, limits>> /\ conn[c] \in {"unshake", "erase"}
        /\ conn' = [conn EXCEPT ![c] = "away"] /\ sockets' = sockets \ {fd[c]}
        /\ fd' = [fd EXCEPT ![c] = NoFd]
    BY <1>5 DEF HandshakeGone, EraseSocket
  <2>2. SrvTypeOK'
    BY <1>0, <2>1 DEF SrvTypeOK, ConnPlaces
  <2>3. InHands'
    BY <1>0, <2>1 DEF SrvTypeOK, InHands
  <2>4. Stopped'
    BY <1>0, <2>1 DEF Stopped, Threads
  <2>5. \A d \in Conn : (Counted(d)' <=> Counted(d)) /\ (InIp(d)' <=> InIp(d))
    BY <1>0, <2>1 DEF Counted, InIp
  <2> QED
    BY <2>1, <2>2, <2>3, <2>4, <2>5, Steady
<1> QED
  BY <1>1, <1>2, <1>3, <1>4, <1>5 DEF SessionStep, ClientStep

\* stop: what it has passed stays as it left it.
LEMMA StopKeeps ==
  ASSUME SrvIInv, StopBegin \/ StopStep
  PROVE  SrvIInv'
<1> USE ServerNames, Parts
<1> USE DEF fdvars, limits
<1>1. CASE StopBegin \/ StopEnds \/ CloseClients
  <2>1. UNCHANGED <<listening, acc, cur, conn, fd, limits>>
    BY <1>1 DEF StopBegin, StopEnds, CloseClients
  <2>2. SrvTypeOK'
    BY <1>1, <2>1 DEF StopBegin, StopEnds, CloseClients, SrvTypeOK, StopPlaces
  <2>3. InHands'
    BY <2>1 DEF InHands
  <2>4. Stopped'
    BY <1>1, <2>1 DEF StopBegin, StopEnds, CloseClients, Stopped, Threads
  <2>5. \A d \in Conn : (Counted(d)' <=> Counted(d)) /\ (InIp(d)' <=> InIp(d))
    BY <2>1 DEF Counted, InIp
  <2> QED
    BY <2>1, <2>2, <2>3, <2>4, <2>5, Steady
<1>2. CASE StopListener
  <2>1. /\ UNCHANGED <<running, acc, cur, fdvars, limits>>
        /\ stopper = "listener" /\ stopper' = "join" /\ listening' = FALSE
        /\ conn' = [c \in Conn |-> IF conn[c] = "waiting" THEN "away" ELSE conn[c]]
    BY <1>2 DEF StopListener
  <2>2. SrvTypeOK'
    BY <2>1 DEF SrvTypeOK, StopPlaces, ConnPlaces
  <2>3. InHands'
    BY <2>1 DEF InHands
  <2>4. Stopped'
    BY <2>1 DEF Stopped
  <2>5. \A d \in Conn : (Counted(d)' <=> Counted(d)) /\ (InIp(d)' <=> InIp(d))
    BY <2>1 DEF Counted, InIp
  <2> QED
    BY <2>1, <2>2, <2>3, <2>4, <2>5, Steady
<1> QED
  BY <1>1, <1>2 DEF StopStep

-----------------------------------------------------------------------------
(* The theorems.                                                           *)

\* SrvIInv is inductive.
THEOREM SrvInvariant == SrvSpec => []SrvIInv
<1>1. SrvIInv /\ [SrvNext]_srvvars => SrvIInv'
  <2> SUFFICES ASSUME SrvIInv, [SrvNext]_srvvars PROVE SrvIInv'
    OBVIOUS
  <2>1. CASE UNCHANGED srvvars
    <3> USE <2>1 DEF srvvars, loopvars, fdvars, limits
    <3>1. SrvTypeOK' /\ InHands' /\ Stopped'
      BY Parts DEF SrvTypeOK, InHands, Stopped, Threads
    <3>2. \A d \in Conn : (Counted(d)' <=> Counted(d)) /\ (InIp(d)' <=> InIp(d))
      BY DEF Counted, InIp
    <3> QED
      BY <3>1, <3>2, Parts, Steady
  <2> QED
    BY <2>1, OthersKeep, LoopKeeps, AdmitKeeps, RefundKeeps, ThreadKeeps, StopKeeps
       DEF SrvNext, AccStep
<1> QED
  BY SrvInvInit, <1>1, PTL DEF SrvSpec

\* The counter of the connection manager is, in every state, the number of the
\* connections that hold a permit and of those that failed handshakes have
\* kept (tryAcquireConnection, releaseConnection).
THEOREM SrvPermitsBalance == SrvSpec => []SrvInv
BY SrvInvariant, PTL DEF SrvIInv

\* The permits never exceed the limit, although the counter is looked at in
\* one step and raised in another (tryAcquireConnection).
THEOREM SrvGlobalBounded == SrvSpec => []GlobalBounded
BY SrvInvariant, PTL DEF SrvIInv

\* An address is never counted for more than it has, or has lost to failed
\* handshakes, although its count may have been forgotten in between.
THEOREM SrvNoPhantoms == SrvSpec => []NoPhantoms
BY SrvInvariant, PTL DEF SrvIInv

\* When stop() has returned no thread and no connection is left, and the
\* counter is what failed handshakes have kept.
THEOREM SrvStopLeavesLost == SrvSpec => []StopLeavesLost
<1>1. SrvIInv => StopLeavesLost
  <2> SUFFICES ASSUME SrvIInv, stopper = "done"
               PROVE  (\A c \in Conn : conn[c] = "away") /\ active = Cardinality(Lost)
    BY DEF StopLeavesLost
  <2>1. \A c \in Conn : conn[c] = "away"
    BY Parts DEF SrvTypeOK, InHands, Stopped, Threads
  <2>2. Counting = {}
    BY <2>1 DEF Counting, Counted
  <2>3. active = Cardinality(Counting) + Cardinality(Lost) /\ Cardinality(Lost) \in Nat
    BY Parts, LostFinite DEF Bounds, PermitsBalance, Taken, Counting, SrvTypeOK
  <2> QED
    BY <2>1, <2>2, <2>3, FS_EmptySet
<1> QED
  BY SrvInvariant, <1>1, PTL
=============================================================================
