--------------------------- MODULE ProcessProofs ---------------------------
(***************************************************************************)
(* What the process of Process promises, for all configurations, clients   *)
(* and environments: it serves mail only as it was configured, and its end *)
(* is told by what it had started.                                         *)
(***************************************************************************)
EXTENDS Process, TLAPS

\* What main is at says what was started (main).
LEMMA ProcInvInit == ProcInit => ProcInv
<1> SUFFICES ASSUME ProcInit PROVE ProcInv
  OBVIOUS
<1>1. ProcTypeOK
  BY DEF ProcInit, ProcTypeOK
<1>2. Secured /\ EngineIn /\ AdminIn
  BY DEF ProcInit, Secured, EngineIn, AdminIn, Ended
<1>3. PartsIn
  BY DEF ProcInit, PartsIn, PartIn, GaveUp, Ended, ToMetrics, ToHttp, ToEngine, ToImap, Http,
         Mail
<1> QED
  BY <1>1, <1>2, <1>3 DEF ProcInit, ProcInv

\* A step of a thread of the two HTTP servers, or of a client of theirs.
HttpStep ==
  \/ ListenMetrics \/ MakeAdmin \/ BindAdmin
  \/ \E p \in Http : Run(p) \/ \E c \in Client : Connect(c, p)
  \/ \E c \in Client : Talk(c)

\* The variables of the HTTP servers are of their types.
HttpTypeOK ==
  /\ running \in [Http -> BOOLEAN]
  /\ thread \in [Http -> {"off", "begin", "bind", "loop", "accept", "recv", "done", "joined"}]
  /\ listener \in [Http -> {"none", "made", "open"}]
  /\ serving \in [Http -> Client \cup {NoClient}]
  /\ client \in [Client -> {"away", "silent", "sent", "eof"}]
  /\ to \in [Client -> Http]

\* The clients whose connections are reset are away (closesocket).
LEMMA ResetTypes ==
  ASSUME HttpTypeOK, NEW p \in Http, Unlisten(p)
  PROVE  /\ listener' \in [Http -> {"none", "made", "open"}]
         /\ client' \in [Client -> {"away", "silent", "sent", "eof"}]
BY DEF HttpTypeOK, Unlisten, Reset

\* A thread of an HTTP server does not wait at an open listener once the server
\* was told to stop and the listener was closed (run of AdminServer).
LEMMA AdminStays ==
  ASSUME HttpTypeOK, HttpStep, AdminIn, UNCHANGED main
  PROVE  AdminIn'
<1> USE DEF AdminIn, HttpTypeOK, main, Http, At
<1> SUFFICES ASSUME pc \in {"close admin", "join admin"}
             PROVE  AdminIn'
  OBVIOUS
<1>1. CASE ListenMetrics
  BY <1>1 DEF ListenMetrics
<1>2. CASE MakeAdmin
  BY <1>2 DEF MakeAdmin
<1>3. CASE BindAdmin
  BY <1>3 DEF BindAdmin
<1>4. ASSUME NEW p \in Http, Look(p) PROVE AdminIn'
  BY <1>4 DEF Look, Unlisten
<1>5. ASSUME NEW p \in Http, Accept(p) PROVE AdminIn'
  BY <1>5 DEF Accept
<1>6. ASSUME NEW p \in Http, Answer(p) PROVE AdminIn'
  BY <1>6 DEF Answer
<1>7. ASSUME NEW c \in Client, (\E p \in Http : Connect(c, p)) \/ Talk(c) PROVE AdminIn'
  BY <1>7 DEF Connect, Talk
<1> QED
  BY <1>1, <1>2, <1>3, <1>4, <1>5, <1>6, <1>7 DEF HttpStep, Run

\* A step of an HTTP server leaves main alone, and its threads are neither
\* unmade nor joined by it (run of HttpMetricsServer and of AdminServer).
LEMMA HttpSteps ==
  ASSUME HttpTypeOK, HttpStep
  PROVE  /\ HttpTypeOK'
         /\ UNCHANGED <<main, engines>>
         /\ \A p \in Http : /\ (thread'[p] = "off") = (thread[p] = "off")
                            /\ (thread'[p] = "joined") = (thread[p] = "joined")
<1> USE DEF Http, At
<1>1. CASE ListenMetrics
  BY <1>1 DEF ListenMetrics, HttpTypeOK
<1>2. CASE MakeAdmin
  BY <1>2 DEF MakeAdmin, HttpTypeOK
<1>3. CASE BindAdmin
  BY <1>3 DEF BindAdmin, HttpTypeOK
<1>4. ASSUME NEW p \in Http, Look(p)
      PROVE  /\ HttpTypeOK'
             /\ UNCHANGED <<main, engines>>
             /\ \A q \in Http : /\ (thread'[q] = "off") = (thread[q] = "off")
                                /\ (thread'[q] = "joined") = (thread[q] = "joined")
  <2>1. /\ listener' \in [Http -> {"none", "made", "open"}]
        /\ client' \in [Client -> {"away", "silent", "sent", "eof"}]
    BY <1>4, ResetTypes DEF Look, HttpTypeOK
  <2> QED
    BY <1>4, <2>1 DEF Look, HttpTypeOK
<1>5. ASSUME NEW p \in Http, Accept(p)
      PROVE  /\ HttpTypeOK'
             /\ UNCHANGED <<main, engines>>
             /\ \A q \in Http : /\ (thread'[q] = "off") = (thread[q] = "off")
                                /\ (thread'[q] = "joined") = (thread[q] = "joined")
  BY <1>5 DEF Accept, HttpTypeOK
<1>6. ASSUME NEW p \in Http, Answer(p)
      PROVE  /\ HttpTypeOK'
             /\ UNCHANGED <<main, engines>>
             /\ \A q \in Http : /\ (thread'[q] = "off") = (thread[q] = "off")
                                /\ (thread'[q] = "joined") = (thread[q] = "joined")
  BY <1>6 DEF Answer, HttpTypeOK
<1>7. ASSUME NEW c \in Client, (\E p \in Http : Connect(c, p)) \/ Talk(c)
      PROVE  HttpTypeOK' /\ UNCHANGED <<main, engines, thread>>
  BY <1>7 DEF Connect, Talk, HttpTypeOK
<1> QED
  BY <1>1, <1>2, <1>3, <1>4, <1>5, <1>6, <1>7 DEF HttpStep, Run

-----------------------------------------------------------------------------
(* The steps of main.                                                      *)

\* A step that leaves all but the HTTP servers and the place of main alone.
LEMMA TypesKept ==
  ASSUME ProcTypeOK, HttpTypeOK', UNCHANGED <<cfg, signal, tls, engine, mail, exit>>,
         pc' = pc \/ pc' \in {"admin", "smtp", "close admin", "join admin", "stop metrics",
                              "join metrics", "stop engine"}
  PROVE  ProcTypeOK'
<1>1. /\ go' \in BOOLEAN /\ tls' \in BOOLEAN
      /\ handler' \in {"no", "over"} \cup Handlers /\ logger' \in {"free"} \cup Threads
  BY DEF ProcTypeOK, signal
<1>2. /\ cfg' \in Configs /\ engine' \in {"off", "on", "ending", "ended", "joined"}
      /\ mail' \in [Mail -> {"off", "up", "stopped"}]
      /\ exit' \in {"none", "0", "1", "2", "abort"}
  BY DEF ProcTypeOK
<1>3. pc' \in {"load", "engine", "context", "tls", "metrics", "admin", "smtp", "imap", "wait",
             "stop smtp", "stop imap", "stop admin", "close admin", "join admin",
             "stop metrics", "join metrics", "stop engine", "join engine", "return", "exited"}
  BY DEF ProcTypeOK
<1> QED
  BY <1>1, <1>2, <1>3 DEF ProcTypeOK, HttpTypeOK

\* What main does to an HTTP server keeps the variables of their types.
LEMMA HttpKept ==
  ASSUME HttpTypeOK,
         \/ StartHttp("metrics", "admin") \/ StartHttp("admin", "smtp")
         \/ StopHttp("admin", "stop admin", "close admin") \/ CloseAdmin
         \/ JoinHttp("admin", "join admin", "stop metrics")
         \/ StopHttp("metrics", "stop metrics", "join metrics")
         \/ JoinHttp("metrics", "join metrics", "stop engine")
  PROVE  HttpTypeOK'
<1>1. "metrics" \in Http /\ "admin" \in Http
  BY DEF Http
<1>2. ASSUME NEW p \in Http, NEW from, NEW next, StartHttp(p, next) \/ StopHttp(p, from, next)
      PROVE  HttpTypeOK'
  <2>1. ASSUME NEW b \in BOOLEAN PROVE [running EXCEPT ![p] = b] \in [Http -> BOOLEAN]
    BY DEF HttpTypeOK
  <2>2. running' \in [Http -> BOOLEAN]
    BY <1>2, <2>1 DEF StartHttp, StopHttp
  <2>3. thread' \in [Http -> {"off", "begin", "bind", "loop", "accept", "recv", "done", "joined"}]
    BY <1>2 DEF StartHttp, StopHttp, HttpTypeOK
  <2>4. UNCHANGED <<listener, serving, client, to>>
    BY <1>2 DEF StartHttp, StopHttp
  <2> QED
    BY <2>2, <2>3, <2>4 DEF HttpTypeOK
<1>3. ASSUME NEW p \in Http, NEW from, NEW next, JoinHttp(p, from, next)
      PROVE  HttpTypeOK'
  BY <1>3 DEF JoinHttp, HttpTypeOK
<1>4. CASE CloseAdmin
  <2>1. /\ listener' \in [Http -> {"none", "made", "open"}]
        /\ client' \in [Client -> {"away", "silent", "sent", "eof"}]
    BY <1>1, <1>4, ResetTypes DEF CloseAdmin
  <2> QED
    BY <1>4, <2>1 DEF CloseAdmin, HttpTypeOK
<1> QED
  BY <1>1, <1>2, <1>3, <1>4

\* Main starts the parts in its order, or gives up before it serves mail (main).
LEMMA StartKeeps ==
  ASSUME ProcInv, Start
  PROVE  ProcInv'
<1> USE DEF ProcInv, Goto, GaveUp, Ended, ToMetrics, ToHttp, ToEngine, ToImap, Http, signal,
            main, engines, http
<1>1. CASE Load
  <2>1. ProcTypeOK'
    BY <1>1 DEF Load, Return, Joinable, ProcTypeOK
  <2>2. Secured' /\ EngineIn' /\ AdminIn' /\ (pc \notin {"load", "exited"} => Valid(cfg))'
    BY <1>1 DEF Load, Return, Joinable, Secured, EngineIn, AdminIn, PartsIn, PartIn
  <2>3. PartsIn'
    BY <1>1 DEF Load, Return, Joinable, PartsIn, PartIn, EngineIn, ProcTypeOK
  <2> QED
    BY <2>1, <2>2, <2>3
<1>2. CASE StartEngine
  <2>1. ProcTypeOK'
    BY <1>2 DEF StartEngine, ProcTypeOK
  <2>2. Secured' /\ EngineIn' /\ AdminIn' /\ (pc \notin {"load", "exited"} => Valid(cfg))'
    BY <1>2 DEF StartEngine, Secured, EngineIn, AdminIn, PartsIn, PartIn
  <2>3. PartsIn'
    BY <1>2 DEF StartEngine, PartsIn, PartIn, EngineIn, ProcTypeOK
  <2> QED
    BY <2>1, <2>2, <2>3
<1>3. CASE Context
  <2>1. ProcTypeOK'
    BY <1>3 DEF Context, Return, Joinable, ProcTypeOK
  <2>2. Secured' /\ EngineIn' /\ AdminIn' /\ (pc \notin {"load", "exited"} => Valid(cfg))'
    BY <1>3 DEF Context, Return, Joinable, Secured, EngineIn, AdminIn, PartsIn, PartIn
  <2>3. PartsIn'
    BY <1>3 DEF Context, Return, Joinable, PartsIn, PartIn, EngineIn, ProcTypeOK
  <2> QED
    BY <2>1, <2>2, <2>3
<1>4. CASE InitTls
  <2>1. ProcTypeOK'
    BY <1>4 DEF InitTls, WithoutTls, Return, Joinable, ProcTypeOK
  <2>2. Secured' /\ EngineIn' /\ AdminIn' /\ (pc \notin {"load", "exited"} => Valid(cfg))'
    BY <1>4 DEF InitTls, WithoutTls, Return, Joinable, Secured, EngineIn, AdminIn, PartsIn, PartIn
  <2>3. PartsIn'
    BY <1>4 DEF InitTls, WithoutTls, Return, Joinable, PartsIn, PartIn, EngineIn, ProcTypeOK
  <2> QED
    BY <2>1, <2>2, <2>3
<1>5. CASE StartHttp("metrics", "admin") \/ StartHttp("admin", "smtp")
  <2>1. ProcTypeOK'
    <3>1. HttpTypeOK'
      <4>1. HttpTypeOK
        BY DEF ProcTypeOK, HttpTypeOK
      <4> HIDE DEF ProcInv
      <4> QED
        BY <1>5, <4>1, HttpKept
    <3>2. /\ UNCHANGED <<cfg, signal, tls, engine, mail, exit>>
          /\ pc' \in {"admin", "smtp", "close admin", "join admin", "stop metrics",
                      "join metrics", "stop engine"}
      BY <1>5 DEF StartHttp
    <3>3. ProcTypeOK
      OBVIOUS
    <3> HIDE DEF ProcInv
    <3> QED
      BY <3>1, <3>2, <3>3, TypesKept
  <2>2. Secured' /\ EngineIn' /\ AdminIn' /\ (pc \notin {"load", "exited"} => Valid(cfg))'
    BY <1>5 DEF StartHttp, Secured, EngineIn, AdminIn, PartsIn, PartIn
  <2>3. PartsIn'
    BY <1>5 DEF StartHttp, PartsIn, PartIn, EngineIn, ProcTypeOK
  <2> QED
    BY <2>1, <2>2, <2>3
<1>6. CASE StartMail("smtp", "imap") \/ StartMail("imap", "wait")
  <2>1. ProcTypeOK'
    <3>1. "smtp" \in Mail /\ "imap" \in Mail
      BY DEF Mail
    <3> QED
      BY <1>6, <3>1 DEF StartMail, ProcTypeOK
  <2>2. Secured' /\ EngineIn' /\ AdminIn' /\ (pc \notin {"load", "exited"} => Valid(cfg))'
    BY <1>6 DEF StartMail, Secured, EngineIn, AdminIn, PartsIn, PartIn
  <2>3. PartsIn'
    BY <1>6 DEF StartMail, PartsIn, PartIn, EngineIn, ProcTypeOK, Mail
  <2> QED
    BY <2>1, <2>2, <2>3
<1> QED
  BY <1>1, <1>2, <1>3, <1>4, <1>5, <1>6 DEF Start

\* It stops and joins them all before it returns (main).
LEMMA StopKeeps ==
  ASSUME ProcInv, Stop
  PROVE  ProcInv'
<1> USE DEF ProcInv, Goto, GaveUp, Ended, ToMetrics, ToHttp, ToEngine, ToImap, Http, signal,
            main, engines, http
<1>1. CASE Wait
  <2>1. ProcTypeOK'
    BY <1>1 DEF Wait, ProcTypeOK
  <2>2. Secured' /\ EngineIn' /\ AdminIn' /\ (pc \notin {"load", "exited"} => Valid(cfg))'
    BY <1>1 DEF Wait, Secured, EngineIn, AdminIn, PartsIn, PartIn
  <2>3. PartsIn'
    BY <1>1 DEF Wait, PartsIn, PartIn, EngineIn, ProcTypeOK
  <2> QED
    BY <2>1, <2>2, <2>3
<1>2. CASE StopMail("smtp", "stop smtp", "stop imap") \/ StopMail("imap", "stop imap", "stop admin")
  <2>1. ProcTypeOK'
    <3>1. "smtp" \in Mail /\ "imap" \in Mail
      BY DEF Mail
    <3> QED
      BY <1>2, <3>1 DEF StopMail, ProcTypeOK
  <2>2. Secured' /\ EngineIn' /\ AdminIn' /\ (pc \notin {"load", "exited"} => Valid(cfg))'
    BY <1>2 DEF StopMail, Secured, EngineIn, AdminIn, PartsIn, PartIn
  <2>3. PartsIn'
    BY <1>2 DEF StopMail, PartsIn, PartIn, EngineIn, ProcTypeOK, Mail
  <2> QED
    BY <2>1, <2>2, <2>3
<1>3. CASE StopHttp("admin", "stop admin", "close admin") \/ StopHttp("metrics", "stop metrics", "join metrics")
  <2>1. ProcTypeOK'
    <3>1. HttpTypeOK'
      <4>1. HttpTypeOK
        BY DEF ProcTypeOK, HttpTypeOK
      <4> HIDE DEF ProcInv
      <4> QED
        BY <1>3, <4>1, HttpKept
    <3>2. /\ UNCHANGED <<cfg, signal, tls, engine, mail, exit>>
          /\ pc' \in {"admin", "smtp", "close admin", "join admin", "stop metrics",
                      "join metrics", "stop engine"}
      BY <1>3 DEF StopHttp
    <3>3. ProcTypeOK
      OBVIOUS
    <3> HIDE DEF ProcInv
    <3> QED
      BY <3>1, <3>2, <3>3, TypesKept
  <2>2. Secured' /\ EngineIn' /\ (pc \notin {"load", "exited"} => Valid(cfg))'
    BY <1>3 DEF StopHttp, Secured, EngineIn, PartsIn, PartIn
  <2>3. AdminIn'
    BY <1>3 DEF StopHttp, Unlisten, AdminIn, ProcTypeOK
  <2>4. PartsIn'
    BY <1>3 DEF StopHttp, PartsIn, PartIn, EngineIn, ProcTypeOK
  <2> QED
    BY <2>1, <2>2, <2>3, <2>4
<1>4. CASE CloseAdmin
  <2>1. ProcTypeOK'
    <3>1. HttpTypeOK'
      <4>1. HttpTypeOK
        BY DEF ProcTypeOK, HttpTypeOK
      <4> HIDE DEF ProcInv
      <4> QED
        BY <1>4, <4>1, HttpKept
    <3>2. /\ UNCHANGED <<cfg, signal, tls, engine, mail, exit>>
          /\ pc' \in {"admin", "smtp", "close admin", "join admin", "stop metrics",
                      "join metrics", "stop engine"}
      BY <1>4 DEF CloseAdmin
    <3>3. ProcTypeOK
      OBVIOUS
    <3> HIDE DEF ProcInv
    <3> QED
      BY <3>1, <3>2, <3>3, TypesKept
  <2>2. Secured' /\ EngineIn' /\ (pc \notin {"load", "exited"} => Valid(cfg))'
    BY <1>4 DEF CloseAdmin, Secured, EngineIn, PartsIn, PartIn
  <2>3. AdminIn'
    BY <1>4 DEF CloseAdmin, Unlisten, AdminIn, ProcTypeOK
  <2>4. PartsIn'
    BY <1>4 DEF CloseAdmin, PartsIn, PartIn, EngineIn, ProcTypeOK
  <2> QED
    BY <2>1, <2>2, <2>3, <2>4
<1>5. CASE JoinHttp("admin", "join admin", "stop metrics") \/ JoinHttp("metrics", "join metrics", "stop engine")
  <2>1. ProcTypeOK'
    <3>1. HttpTypeOK'
      <4>1. HttpTypeOK
        BY DEF ProcTypeOK, HttpTypeOK
      <4> HIDE DEF ProcInv
      <4> QED
        BY <1>5, <4>1, HttpKept
    <3>2. /\ UNCHANGED <<cfg, signal, tls, engine, mail, exit>>
          /\ pc' \in {"admin", "smtp", "close admin", "join admin", "stop metrics",
                      "join metrics", "stop engine"}
      BY <1>5 DEF JoinHttp
    <3>3. ProcTypeOK
      OBVIOUS
    <3> HIDE DEF ProcInv
    <3> QED
      BY <3>1, <3>2, <3>3, TypesKept
  <2>2. Secured' /\ EngineIn' /\ AdminIn' /\ (pc \notin {"load", "exited"} => Valid(cfg))'
    BY <1>5 DEF JoinHttp, Secured, EngineIn, AdminIn, PartsIn, PartIn
  <2>3. PartsIn'
    BY <1>5 DEF JoinHttp, PartsIn, PartIn, EngineIn, ProcTypeOK
  <2> QED
    BY <2>1, <2>2, <2>3
<1>6. CASE StopEngine
  <2>1. ProcTypeOK'
    BY <1>6 DEF StopEngine, ProcTypeOK
  <2>2. Secured' /\ EngineIn' /\ AdminIn' /\ (pc \notin {"load", "exited"} => Valid(cfg))'
    BY <1>6 DEF StopEngine, Secured, EngineIn, AdminIn, PartsIn, PartIn
  <2>3. PartsIn'
    BY <1>6 DEF StopEngine, PartsIn, PartIn, EngineIn, ProcTypeOK
  <2> QED
    BY <2>1, <2>2, <2>3
<1>7. CASE JoinEngine
  <2>1. ProcTypeOK'
    BY <1>7 DEF JoinEngine, ProcTypeOK
  <2>2. Secured' /\ EngineIn' /\ AdminIn' /\ (pc \notin {"load", "exited"} => Valid(cfg))'
    BY <1>7 DEF JoinEngine, Secured, EngineIn, AdminIn, PartsIn, PartIn
  <2>3. PartsIn'
    BY <1>7 DEF JoinEngine, PartsIn, PartIn, EngineIn, ProcTypeOK
  <2> QED
    BY <2>1, <2>2, <2>3
<1>8. CASE Finish
  <2>1. ProcTypeOK'
    BY <1>8 DEF Finish, Return, Joinable, ProcTypeOK
  <2>2. Secured' /\ EngineIn' /\ AdminIn' /\ (pc \notin {"load", "exited"} => Valid(cfg))'
    BY <1>8 DEF Finish, Return, Joinable, Secured, EngineIn, AdminIn, PartsIn, PartIn
  <2>3. PartsIn'
    BY <1>8 DEF Finish, Return, Joinable, PartsIn, PartIn, EngineIn, ProcTypeOK
  <2> QED
    BY <2>1, <2>2, <2>3
<1> QED
  BY <1>1, <1>2, <1>3, <1>4, <1>5, <1>6, <1>7, <1>8 DEF Stop

\* The place of main tells what runs, through every step.
THEOREM ProcInvariant == ProcSpec => []ProcInv
<1>1. ProcInv /\ [ProcNext]_pvars => ProcInv'
  <2> SUFFICES ASSUME ProcInv, [ProcNext]_pvars PROVE ProcInv'
    OBVIOUS
  <2>1. CASE Start
    BY <2>1, StartKeeps
  <2>2. CASE Stop
    BY <2>2, StopKeeps
  <2>3. CASE \/ Handle \/ \E h \in Handlers : Signal(h)
           \/ \E h \in Threads : TakeLogger(h) \/ GiveLogger(h)
    <3>1. UNCHANGED <<pc, cfg, tls, exit, engines, http>>
      BY <2>3 DEF Handle, Signal, TakeLogger, GiveLogger
    <3>2. /\ go' \in BOOLEAN
          /\ handler' \in {"no", "over"} \cup Handlers /\ logger' \in {"free"} \cup Threads
      BY <2>3 DEF Handle, Signal, TakeLogger, GiveLogger, ProcInv, ProcTypeOK
    <3>3. ProcTypeOK'
      BY <3>1, <3>2 DEF ProcInv, ProcTypeOK, engines, http
    <3>4. (Secured /\ EngineIn /\ AdminIn)'
      BY <3>1 DEF ProcInv, Secured, EngineIn, AdminIn, Ended, engines, http
    <3>5. PartsIn'
      BY <3>1 DEF ProcInv, PartsIn, PartIn, GaveUp, Ended, engines, http
    <3> QED
      BY <3>1, <3>3, <3>4, <3>5 DEF ProcInv
  <2>4. CASE Worker
    <3>1. ProcTypeOK'
      BY <2>4 DEF Worker, ProcInv, ProcTypeOK, main, signal, http
    <3>2. (Secured /\ EngineIn /\ PartsIn /\ AdminIn)'
      BY <2>4 DEF Worker, ProcInv, Secured, EngineIn, PartsIn, PartIn, AdminIn, GaveUp, Ended,
                  main, http
    <3> QED
      BY <2>4, <3>1, <3>2 DEF Worker, ProcInv, main
  <2>5. CASE HttpStep
    <3>1. HttpTypeOK
      BY DEF ProcInv, ProcTypeOK, HttpTypeOK
    <3>2. /\ HttpTypeOK'
          /\ UNCHANGED <<main, engines>>
          /\ \A p \in Http : /\ (thread'[p] = "off") = (thread[p] = "off")
                             /\ (thread'[p] = "joined") = (thread[p] = "joined")
      BY <2>5, <3>1, HttpSteps
    <3>3. ProcTypeOK'
      BY <3>2, TypesKept DEF ProcInv, main, engines
    <3>4. PartsIn'
      BY <3>2 DEF ProcInv, PartsIn, PartIn, GaveUp, Ended, Http, main, engines
    <3>5. AdminIn'
      BY <2>5, <3>1, <3>2, AdminStays DEF ProcInv
    <3> QED
      BY <3>2, <3>3, <3>4, <3>5 DEF ProcInv, Secured, EngineIn, Ended, main, engines
  <2>6. CASE UNCHANGED pvars
    <3>1. ProcTypeOK'
      <4>1. UNCHANGED <<pc, cfg, signal, tls, engine, mail, exit>>
        BY <2>6 DEF pvars, main, engines
      <4>2. HttpTypeOK'
        BY <2>6 DEF pvars, http, ProcInv, ProcTypeOK, HttpTypeOK
      <4>3. ProcTypeOK
        BY DEF ProcInv
      <4> QED
        BY <4>1, <4>2, <4>3, TypesKept
    <3>2. (Secured /\ EngineIn /\ AdminIn)'
      BY <2>6 DEF pvars, main, engines, http, ProcInv, Secured, EngineIn, AdminIn, Ended
    <3>3. PartsIn'
      <4>1. UNCHANGED <<pc, exit, thread, mail>>
        BY <2>6 DEF pvars, main, engines, http
      <4>2. PartsIn
        BY DEF ProcInv
      <4> QED
        BY <4>1, <4>2, ZenonT(20) DEF PartsIn, PartIn, GaveUp, Ended
    <3> QED
      BY <2>6, <3>1, <3>2, <3>3 DEF ProcInv, pvars, main
  <2> QED
    BY <2>1, <2>2, <2>3, <2>4, <2>5, <2>6 DEF ProcNext, HttpStep
<1> QED
  BY ProcInvInit, <1>1, PTL DEF ProcSpec

\* Sixteen bits are enough for a port that the configuration may have.
LEMMA PortFits ==
  ASSUME NEW port, port \in Ports
  PROVE  port % 65536 = port
BY SMTT(30) DEF Ports, MaxPort

\* Mail is only served with a sound configuration, with a certificate if TLS is
\* required, and with the engine and the two HTTP servers started (main).
THEOREM ProcServesAsConfigured == ProcSpec => []ServesAsConfigured
<1>1. ProcInv => ServesAsConfigured
  <2> SUFFICES ASSUME ProcInv PROVE ServesAsConfigured
    OBVIOUS
  <2> SUFFICES ASSUME NEW s \in {"smtp", "imap"}, mail[s] = "up"
               PROVE  /\ cfg.smtpPort % 65536 = cfg.smtpPort /\ cfg.imapPort % 65536 = cfg.imapPort
                      /\ cfg.smtpPort # cfg.imapPort
                      /\ cfg.tlsRequired => tls
                      /\ engine # "off" /\ \A p \in Http : thread[p] # "off"
    BY DEF ServesAsConfigured, Mail
  <2>1. pc \in {"imap", "wait", "stop smtp", "stop imap"}
    BY DEF ProcInv, ProcTypeOK, PartsIn, PartIn, GaveUp, Ended, ToMetrics, ToHttp, ToEngine,
           ToImap, EngineIn, Mail
  <2>2. cfg.smtpPort \in Ports /\ cfg.imapPort \in Ports /\ cfg.smtpPort # cfg.imapPort
    BY <2>1 DEF ProcInv, Valid, PortErrors
  <2>3. cfg.smtpPort % 65536 = cfg.smtpPort /\ cfg.imapPort % 65536 = cfg.imapPort
    BY <2>2, PortFits
  <2>4. engine # "off" /\ \A p \in Http : thread[p] # "off"
    BY <2>1 DEF ProcInv, EngineIn, PartsIn, PartIn, GaveUp, Http, ToMetrics
  <2>5. cfg.tlsRequired => tls
    BY <2>1 DEF ProcInv, Secured
  <2> QED
    BY <2>2, <2>3, <2>4, <2>5
<1> QED
  BY ProcInvariant, <1>1, PTL

\* A process that has served mail ends with every thread joined, and one that
\* gives up after the engine was started is aborted (main).
THEOREM ProcEndsInOrder == ProcSpec => []EndsInOrder
<1>1. ProcInv => EndsInOrder
  <2> SUFFICES ASSUME ProcInv PROVE EndsInOrder
    OBVIOUS
  <2>1. Joinable <=> engine \notin {"off", "joined"} \/ thread["metrics"] \notin {"off", "joined"}
                     \/ thread["admin"] \notin {"off", "joined"}
    BY DEF Joinable, Http
  <2> QED
    BY <2>1 DEF ProcInv, ProcTypeOK, EngineIn, PartsIn, PartIn, GaveUp, Ended, ToMetrics, ToHttp,
                ToEngine, ToImap, Mail, EndsInOrder
<1> QED
  BY ProcInvariant, <1>1, PTL

\* While main waits for the thread of the admin server, that thread is never in
\* accept() at an open listener (AdminServer::stop and run).
THEOREM ProcAdminEndsAlone == ProcSpec => []AdminEndsAlone
<1>1. ProcInv => AdminEndsAlone
  BY DEF ProcInv, AdminIn, AdminEndsAlone
<1> QED
  BY ProcInvariant, <1>1, PTL
=============================================================================
