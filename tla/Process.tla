------------------------------ MODULE Process ------------------------------
(***************************************************************************)
(* One process of the server: the start and the end of src/main.cpp, with  *)
(* the threads that it starts and joins, and the two small HTTP servers of *)
(* src/monitoring/http_metrics_server.cpp and src/admin/admin_server.cpp.  *)
(*                                                                         *)
(* The configuration is that of Config.  The SMTP and IMAP servers and the *)
(* sandbox engine have modules of their own: here they are what main sees, *)
(* something that is started, and whose stop returns.  The metrics server  *)
(* blocks in accept() and in recv(); nothing but a client wakes it.        *)
(*                                                                         *)
(* A thread is taken to be created whenever it is asked for; of what main  *)
(* calls, the file, the context and the certificate may fail.  The handler *)
(* of a signal logs: the mutex of the logger is here, with the thread that *)
(* has it, main or any of the others; what it guards is in Logging.        *)
(***************************************************************************)
EXTENDS Config

CONSTANTS
  Client,       \* the clients of the two HTTP servers
  NoClient,     \* no client
  Configs,      \* the configurations that a file may give
  Environments  \* the four variables of the certificate and its key

ASSUME ProcessNames == NoClient \notin Client

VARIABLES
  pc,       \* where main is
  cfg,      \* the configuration, once it is loaded
  go,       \* g_running
  handler,  \* the thread that runs signalHandler, or "no" or "over"
  logger,   \* who has mutex_ of Logger: main, another thread, or neither
  tls,      \* TlsContext has a certificate and its key
  engine,   \* the worker of the sandbox engine, and whether it may end
  mail,     \* mail[s]: the server s, SMTP or IMAP
  running,  \* running[p]: running_ of the HTTP server p
  thread,   \* thread[p]: where its run() is
  listener, \* listener[p]: its listening socket
  serving,  \* serving[p]: the client whose connection it has accepted
  client,   \* client[c]: what c has done on its connection
  to,       \* to[c]: the server that c is connected to
  exit      \* how the process ended

signal  == <<go, handler, logger>>
main    == <<pc, cfg, signal, tls, exit>>
engines == <<engine, mail>>
http    == <<running, thread, listener, serving, client, to>>
pvars   == <<main, engines, http>>

Http == {"metrics", "admin"}
Mail == {"smtp", "imap"}

\* main, and the others, which log too: the loops and sessions of the servers,
\* and the worker of the engine.
Threads == {"main", "other"}

\* A handler interrupts one of them, or has a thread of its own (as on Windows).
Handlers == Threads \cup {"own"}

ProcTypeOK ==
  /\ pc \in {"load", "engine", "context", "tls", "metrics", "admin", "smtp", "imap", "wait",
             "stop smtp", "stop imap", "stop admin", "close admin", "join admin",
             "stop metrics", "join metrics", "stop engine", "join engine", "return", "exited"}
  /\ cfg \in Configs
  /\ go \in BOOLEAN /\ tls \in BOOLEAN
  /\ handler \in {"no", "over"} \cup Handlers /\ logger \in {"free"} \cup Threads
  /\ engine \in {"off", "on", "ending", "ended", "joined"}
  /\ mail \in [Mail -> {"off", "up", "stopped"}]
  /\ running \in [Http -> BOOLEAN]
  /\ thread \in [Http -> {"off", "begin", "bind", "loop", "accept", "recv", "done", "joined"}]
  /\ listener \in [Http -> {"none", "made", "open"}]
  /\ serving \in [Http -> Client \cup {NoClient}]
  /\ client \in [Client -> {"away", "silent", "sent", "eof"}]
  /\ to \in [Client -> Http]
  /\ exit \in {"none", "0", "1", "2", "abort"}

ProcInit ==
  /\ pc = "load" /\ cfg \in Configs /\ go = TRUE /\ tls = FALSE /\ exit = "none"
  /\ handler = "no" /\ logger = "free"
  /\ engine = "off" /\ mail = [s \in Mail |-> "off"]
  /\ running = [p \in Http |-> FALSE]
  /\ thread = [p \in Http |-> "off"]
  /\ listener = [p \in Http |-> "none"]
  /\ serving = [p \in Http |-> NoClient]
  /\ client = [c \in Client |-> "away"]
  /\ to \in [Client -> Http]

-----------------------------------------------------------------------------
\* The threads that a destructor would find joinable: the engine's is static,
\* the two HTTP servers' are members of locals of main.
Joinable ==
  \/ engine \notin {"off", "joined"}
  \/ \E p \in Http : thread[p] \notin {"off", "joined"}

\* main returns code; the destructor of a joinable thread calls terminate.
\* (The destructors of the mail servers stop them.)
Return(code) ==
  /\ pc' = "exited"
  /\ exit' = IF Joinable THEN "abort" ELSE code

Goto(from, place) == pc = from /\ pc' = place /\ UNCHANGED exit

\* The threads that run: the others from the start of the engine on, which is
\* the last to be joined.
Alive(h) ==
  /\ pc # "exited"
  /\ h = "other" => engine \notin {"off", "joined"}

\* A thread is in log, with the mutex: main does so before some of its steps.
Logs == {"load", "engine", "context", "tls", "smtp", "wait", "stop smtp", "return"}

TakeLogger(h) ==
  /\ Alive(h) /\ handler # h /\ logger = "free" /\ logger' = h
  /\ h = "main" => pc \in Logs
  /\ UNCHANGED <<pc, cfg, go, handler, tls, exit, engines, http>>

GiveLogger(h) ==
  /\ Alive(h) /\ handler # h /\ logger = h /\ logger' = "free"
  /\ UNCHANGED <<pc, cfg, go, handler, tls, exit, engines, http>>

\* A signal comes, once; a thread is interrupted wherever it is.
Signal(h) ==
  /\ Alive(h) /\ handler = "no" /\ handler' = h
  /\ UNCHANGED <<pc, cfg, go, logger, tls, exit, engines, http>>

\* signalHandler logs, and then clears g_running.  It waits for a thread that
\* has the mutex, for good if that is the one it has interrupted.
Handle ==
  /\ handler \in Handlers /\ Alive(handler) /\ logger = "free"
  /\ go' = FALSE /\ handler' = "over"
  /\ UNCHANGED <<pc, cfg, logger, tls, exit, engines, http>>

\* main goes on when it is not interrupted, its own calls of log have returned,
\* and no handler keeps the mutex from them.
MainRuns ==
  /\ "main" \notin {handler, logger}
  /\ pc \in Logs => handler # logger

\* loadFromFile, and the checks of main; or the file cannot be read.
Load ==
  /\ \/ /\ Valid(cfg) /\ ~MinTlsThrows(cfg) /\ ~MainRefuses(cfg)
        /\ Goto("load", "engine")
     \/ pc = "load" /\ Return("1")
  /\ UNCHANGED <<cfg, signal, tls, engines, http>>

StartEngine ==
  /\ Goto("engine", "context")
  /\ engine' = "on"
  /\ UNCHANGED <<cfg, signal, tls, mail, http>>

\* The constructor of ServerContext, which may throw: the mail store, the
\* flags and the accounts are on disk.
Context ==
  /\ Goto("context", "tls") \/ (pc = "context" /\ Return("1"))
  /\ UNCHANGED <<cfg, signal, tls, engines, http>>

\* The certificate or the key: an environment variable, also one that is set
\* to nothing, hides those after it.
FirstSet(first, second, last) ==
  IF first # "unset" THEN first ELSE IF second # "unset" THEN second ELSE last

\* Fault: the requirement is not looked at again.
WithoutTls_Goes == Goto("tls", "metrics")

\* Without a certificate or a key the server goes on, unless TLS is required.
WithoutTls ==
  IF cfg.tlsRequired THEN pc = "tls" /\ Return("2") ELSE Goto("tls", "metrics")

\* TlsContext::init is given the certificate and the key, and may fail.
InitTls ==
  \E env \in Environments :
    LET given == /\ FirstSet(env.TLS_CERT, env.TLS_CERT_PATH, cfg.tlsCertFile) # ""
                 /\ FirstSet(env.TLS_KEY, env.TLS_KEY_PATH, cfg.tlsKeyFile) # ""
    IN /\ \/ given /\ Goto("tls", "metrics") /\ tls' = TRUE
          \/ given /\ pc = "tls" /\ Return("2") /\ UNCHANGED tls
          \/ ~given /\ WithoutTls /\ UNCHANGED tls
       /\ UNCHANGED <<cfg, signal, engines, http>>

\* HttpMetricsServer::start and AdminServer::start.
StartHttp(p, next) ==
  /\ Goto(p, next)
  /\ running' = [running EXCEPT ![p] = TRUE]
  /\ thread' = [thread EXCEPT ![p] = "begin"]
  /\ UNCHANGED <<cfg, signal, tls, engines, listener, serving, client, to>>

StartMail(s, next) ==
  /\ Goto(s, next)
  /\ mail' = [mail EXCEPT ![s] = "up"]
  /\ UNCHANGED <<cfg, signal, tls, engine, http>>

\* The wait loop of main.
Wait ==
  /\ ~go /\ Goto("wait", "stop smtp")
  /\ UNCHANGED <<cfg, signal, tls, engines, http>>

\* stop of SmtpServer and ImapServer returns when their sessions have ended.
StopMail(s, place, next) ==
  /\ Goto(place, next)
  /\ mail' = [mail EXCEPT ![s] = "stopped"]
  /\ UNCHANGED <<cfg, signal, tls, engine, http>>

-----------------------------------------------------------------------------
\* The connections that wait to be accepted are reset when a listener closes.
Reset(p) ==
  client' = [c \in Client |-> IF to[c] = p /\ serving[p] # c THEN "away" ELSE client[c]]

Unlisten(p) ==
  /\ listener' = [listener EXCEPT ![p] = "none"]
  /\ IF listener[p] = "open" THEN Reset(p) ELSE UNCHANGED client

\* stop: running_ is cleared, the admin server's listener is closed, and the
\* thread is joined.
StopHttp(p, place, next) ==
  /\ Goto(place, next)
  /\ running' = [running EXCEPT ![p] = FALSE]
  /\ UNCHANGED <<cfg, signal, tls, engines, thread, listener, serving, client, to>>

\* Fault: the listener is left to its thread.
CloseAdmin_Leaves ==
  /\ Goto("close admin", "join admin")
  /\ UNCHANGED <<cfg, signal, tls, engines, http>>

CloseAdmin ==
  /\ Goto("close admin", "join admin")
  /\ Unlisten("admin")
  /\ UNCHANGED <<cfg, signal, tls, engines, running, thread, serving, to>>

\* Fault: the thread is not waited for.
JoinHttp_Leaves(p, place, next) ==
  /\ Goto(place, next)
  /\ UNCHANGED <<cfg, signal, tls, engines, http>>

JoinHttp(p, place, next) ==
  /\ thread[p] = "done" /\ Goto(place, next)
  /\ thread' = [thread EXCEPT ![p] = "joined"]
  /\ UNCHANGED <<cfg, signal, tls, engines, running, listener, serving, client, to>>

\* SandboxEngine::stop, and the join in it.
StopEngine ==
  /\ Goto("stop engine", "join engine")
  /\ engine' = "ending"
  /\ UNCHANGED <<cfg, signal, tls, mail, http>>

JoinEngine ==
  /\ engine = "ended" /\ "other" \notin {handler, logger}
  /\ Goto("join engine", "return")
  /\ engine' = "joined"
  /\ UNCHANGED <<cfg, signal, tls, mail, http>>

Finish ==
  /\ pc = "return" /\ Return("0")
  /\ UNCHANGED <<cfg, signal, tls, engines, http>>

-----------------------------------------------------------------------------
\* The worker ends when it is told to.  It has nothing to scan, since nothing
\* that main starts submits a job.
Worker ==
  /\ engine = "ending" /\ engine' = "ended"
  /\ UNCHANGED <<main, mail, http>>

-----------------------------------------------------------------------------
At(p, place, next) == thread[p] = place /\ thread' = [thread EXCEPT ![p] = next]

\* HttpMetricsServer::run looks at no result: it enters its loop with or without
\* a listener.
ListenMetrics ==
  /\ At("metrics", "begin", "loop")
  /\ \E l \in {"none", "open"} : listener' = [listener EXCEPT !["metrics"] = l]
  /\ UNCHANGED <<main, engines, running, serving, client, to>>

\* AdminServer::run makes the socket, and returns if it cannot.
MakeAdmin ==
  /\ \/ At("admin", "begin", "bind") /\ listener' = [listener EXCEPT !["admin"] = "made"]
     \/ At("admin", "begin", "done") /\ UNCHANGED listener
  /\ UNCHANGED <<main, engines, running, serving, client, to>>

\* It binds it and listens, or closes it and returns; stop may have closed it.
BindAdmin ==
  /\ \/ /\ listener["admin"] = "made"
        /\ At("admin", "bind", "loop")
        /\ listener' = [listener EXCEPT !["admin"] = "open"]
     \/ /\ At("admin", "bind", "done")
        /\ listener' = [listener EXCEPT !["admin"] = "none"]
  /\ UNCHANGED <<main, engines, running, serving, client, to>>

\* while (running_); at the end the listener is closed.
Look(p) ==
  /\ \/ /\ running[p] /\ At(p, "loop", "accept")
        /\ UNCHANGED <<listener, client>>
     \/ /\ ~running[p] /\ At(p, "loop", "done")
        /\ Unlisten(p)
  /\ UNCHANGED <<main, engines, running, serving, to>>

Waiting(p, c) == client[c] # "away" /\ to[c] = p /\ serving[p] # c

Accept(p) ==
  /\ \/ /\ listener[p] # "open" /\ At(p, "accept", "loop")
        /\ UNCHANGED serving
     \/ /\ listener[p] = "open" /\ At(p, "accept", "recv")
        /\ \E c \in Client : Waiting(p, c) /\ serving' = [serving EXCEPT ![p] = c]
  /\ UNCHANGED <<main, engines, running, listener, client, to>>

\* recv returns; the answer is sent, and the connection closed.
Answer(p) ==
  /\ serving[p] # NoClient /\ client[serving[p]] \in {"sent", "eof"}
  /\ At(p, "recv", "loop")
  /\ client' = [client EXCEPT ![serving[p]] = "away"]
  /\ serving' = [serving EXCEPT ![p] = NoClient]
  /\ UNCHANGED <<main, engines, running, listener, to>>

\* A client connects, and sends a request or leaves.
Connect(c, p) ==
  /\ listener[p] = "open" /\ client[c] = "away"
  /\ client' = [client EXCEPT ![c] = "silent"]
  /\ to' = [to EXCEPT ![c] = p]
  /\ UNCHANGED <<main, engines, running, thread, listener, serving>>

Talk(c) ==
  /\ client[c] = "silent"
  /\ \E w \in {"sent", "eof"} : client' = [client EXCEPT ![c] = w]
  /\ UNCHANGED <<main, engines, running, thread, listener, serving, to>>

-----------------------------------------------------------------------------
Start ==
  /\ MainRuns
  /\ \/ Load \/ StartEngine \/ Context \/ InitTls
     \/ StartHttp("metrics", "admin") \/ StartHttp("admin", "smtp")
     \/ StartMail("smtp", "imap") \/ StartMail("imap", "wait")

Stop ==
  /\ MainRuns
  /\ \/ Wait
     \/ StopMail("smtp", "stop smtp", "stop imap") \/ StopMail("imap", "stop imap", "stop admin")
     \/ StopHttp("admin", "stop admin", "close admin") \/ CloseAdmin
     \/ JoinHttp("admin", "join admin", "stop metrics")
     \/ StopHttp("metrics", "stop metrics", "join metrics")
     \/ JoinHttp("metrics", "join metrics", "stop engine")
     \/ StopEngine \/ JoinEngine \/ Finish

Run(p) == Look(p) \/ Accept(p) \/ Answer(p)

ProcNext ==
  \/ Handle \/ Start \/ Stop \/ Worker
  \/ \E h \in Handlers : Signal(h)
  \/ \E h \in Threads : TakeLogger(h) \/ GiveLogger(h)
  \/ ListenMetrics \/ MakeAdmin \/ BindAdmin
  \/ \E p \in Http : Run(p) \/ \E c \in Client : Connect(c, p)
  \/ \E c \in Client : Talk(c)

\* main and the threads run; a call of log ends, and none is kept from the mutex
\* for ever by others that take it in turn.  Clients need not connect; one that
\* has connected sends or leaves, which the code does not see to either.
ProcFairness ==
  /\ SF_pvars(Start) /\ SF_pvars(Stop) /\ SF_pvars(Handle) /\ WF_pvars(Worker)
  /\ \A h \in Threads : WF_pvars(GiveLogger(h))
  /\ WF_pvars(ListenMetrics) /\ WF_pvars(MakeAdmin) /\ WF_pvars(BindAdmin)
  /\ \A p \in Http : WF_pvars(Run(p))
  /\ \A c \in Client : WF_pvars(Talk(c))

ProcSpec == ProcInit /\ [][ProcNext]_pvars /\ ProcFairness

-----------------------------------------------------------------------------
\* Mail is only served by a process whose configuration is sound, that listens
\* at the ports that were configured and not at what 16 bits leave of them,
\* that has a certificate if TLS is required of it, whatever the environment
\* said, and whose sandbox engine, metrics and admin servers were started
\* (validateConfig, and the order of main).
ServesAsConfigured ==
  \A s \in Mail : mail[s] = "up" =>
    /\ cfg.smtpPort % 65536 = cfg.smtpPort /\ cfg.imapPort % 65536 = cfg.imapPort
    /\ cfg.smtpPort # cfg.imapPort
    /\ cfg.tlsRequired => tls
    /\ engine # "off" /\ \A p \in Http : thread[p] # "off"

\* A process that has served mail ends in order, with every thread joined; one
\* that gives up after the engine was started is aborted by the destructor of
\* the engine's thread, whatever main returned, and none for another thread
\* (main.cpp:111, main.cpp:130).
EndsInOrder ==
  /\ exit = "0" <=> (pc = "exited" /\ mail["smtp"] # "off")
  /\ exit \in {"1", "2", "abort"} => \A s \in Mail : mail[s] = "off"
  /\ exit = "abort" <=> (pc = "exited" /\ engine = "on")

\* The admin server needs no client to end: while main waits for its thread,
\* the thread is never in accept() at an open listener, be it that it was
\* there before the listener was closed, or that it has made its listener only
\* afterwards (AdminServer::stop and run).
AdminEndsAlone ==
  pc = "join admin" /\ thread["admin"] = "accept" => listener["admin"] # "open"

\* What run.md:334 relies on: kill, then wait.  A signal that was handled ends
\* the process.  It is violated: HttpMetricsServer::stop joins a thread that is
\* in accept().
SignalEnds == ~go ~> pc = "exited"

-----------------------------------------------------------------------------
(* The invariant: what the place of main tells about everything else.      *)

GaveUp == pc = "exited" /\ exit # "0"
Ended  == pc = "exited" /\ exit = "0"

\* Main is past the check of TLS, and has not given up.
Secured ==
  pc \notin {"load", "engine", "context", "tls", "exited"} => (cfg.tlsRequired => tls)

EngineIn ==
  /\ engine = "off" <=> pc \in {"load", "engine"} \/ exit = "1"
  /\ engine = "joined" <=> pc = "return" \/ Ended
  /\ exit = "none" <=> pc # "exited"
  /\ engine \in {"ending", "ended"} => pc = "join engine"
  /\ exit # "2"

\* Whether a part is not started, and whether it has been stopped.
PartIn(off, stopped, before, after) ==
  /\ off <=> pc \in before \/ GaveUp
  /\ stopped <=> pc \in after \/ Ended

ToMetrics == {"load", "engine", "context", "tls", "metrics"}
ToEngine  == {"stop engine", "join engine", "return"}
ToHttp    == {"stop metrics", "join metrics"} \cup ToEngine
ToImap    == {"stop admin", "close admin", "join admin"} \cup ToHttp

PartsIn ==
  /\ PartIn(thread["metrics"] = "off", thread["metrics"] = "joined", ToMetrics, ToEngine)
  /\ PartIn(thread["admin"] = "off", thread["admin"] = "joined", ToMetrics \cup {"admin"}, ToHttp)
  /\ PartIn(mail["smtp"] = "off", mail["smtp"] = "stopped", ToMetrics \cup {"admin", "smtp"},
            {"stop imap"} \cup ToImap)
  /\ PartIn(mail["imap"] = "off", mail["imap"] = "stopped",
            ToMetrics \cup {"admin", "smtp", "imap"}, ToImap)

\* The admin server has been told to stop before its listener is closed, so that
\* its thread does not go on with one that it opens later.
AdminIn ==
  /\ pc \in {"close admin", "join admin"} => ~running["admin"]
  /\ pc = "join admin" /\ listener["admin"] = "open" => thread["admin"] = "loop"

ProcInv ==
  /\ ProcTypeOK /\ Secured /\ EngineIn /\ PartsIn /\ AdminIn
  /\ pc \notin {"load", "exited"} => Valid(cfg)
=============================================================================
