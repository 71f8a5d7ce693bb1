------------------------------- MODULE Config -------------------------------
(***************************************************************************)
(* The configuration of a process: what src/core/config_loader.cpp accepts,*)
(* and what src/core/tls_enforcement.cpp and main.cpp ask of it again.     *)
(* Names of files and hosts are "" or something; numbers are themselves.   *)
(***************************************************************************)
EXTENDS Integers

MaxPort == 65535

Ports == 1..MaxPort

\* ConfigLoader::loadFromFile for a file that gives none of the fields, except
\* the version of TLS, which has no default that is accepted.
Default == [domain |-> "example.com", smtpPort |-> 25, imapPort |-> 143,
            tlsRequired |-> FALSE, tlsCertFile |-> "", tlsKeyFile |-> "",
            hasMinTlsVersion |-> TRUE, minTlsVersion |-> 3,
            maxMessageSize |-> 10485760, smtpTimeout |-> 300, dataTimeout |-> 600,
            logLevel |-> "info",
            enableHA |-> FALSE, redisHost |-> "localhost", redisPort |-> 6379,
            clusterId |-> "email-cluster"]

\* ConfigLoader::validateConfig: the errors that it collects.
PortErrors(cfg) ==
  \/ cfg.smtpPort \notin Ports
  \/ cfg.imapPort \notin Ports
  \/ cfg.smtpPort = cfg.imapPort

TlsErrors(cfg) ==
  \/ cfg.tlsRequired /\ (cfg.tlsCertFile = "" \/ cfg.tlsKeyFile = "")
  \/ ~cfg.hasMinTlsVersion
  \/ cfg.minTlsVersion \notin 1..3

LimitErrors(cfg) ==
  \/ cfg.maxMessageSize < 1024
  \/ cfg.maxMessageSize > 100 * 1024 * 1024
  \/ cfg.smtpTimeout < 30
  \/ cfg.dataTimeout < 60

HaErrors(cfg) ==
  cfg.enableHA /\ \/ cfg.redisHost = ""
                  \/ cfg.redisPort \notin Ports
                  \/ cfg.clusterId = ""

Valid(cfg) ==
  /\ cfg.domain # ""
  /\ ~PortErrors(cfg) /\ ~TlsErrors(cfg) /\ ~LimitErrors(cfg) /\ ~HaErrors(cfg)
  /\ cfg.logLevel \in {"debug", "info", "warn", "warning", "error"}

\* TlsEnforcement::setMinTlsVersion throws.
MinTlsThrows(cfg) == cfg.minTlsVersion \notin {1, 2, 3}

\* What main checks again after the file was loaded.
MainRefuses(cfg) == cfg.domain = "" \/ cfg.smtpPort <= 0 \/ cfg.imapPort <= 0
=============================================================================
