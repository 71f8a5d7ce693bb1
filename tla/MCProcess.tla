----------------------------- MODULE MCProcess -----------------------------
(* A configuration for each limit of validateConfig, at it and just beyond *)
(* it; the certificate in the file, in the environment, in both and hidden *)
(* by a variable set to nothing.                                           *)
EXTENDS Process

Tls == [Default EXCEPT !.tlsRequired = TRUE, !.tlsCertFile = "cert.pem", !.tlsKeyFile = "key.pem"]

\* Every limit at its lowest and at its highest.
Low  == [Default EXCEPT !.smtpPort = 1, !.imapPort = 65535, !.minTlsVersion = 1,
                        !.maxMessageSize = 1024, !.smtpTimeout = 30, !.dataTimeout = 60]
High == [Default EXCEPT !.smtpPort = 65535, !.imapPort = 1, !.maxMessageSize = 104857600,
                        !.enableHA = TRUE, !.redisPort = 65535]

MCConfigs ==
  {Default, Tls, Low, High, [Tls EXCEPT !.tlsKeyFile = ""], [Tls EXCEPT !.tlsCertFile = ""],
   [Default EXCEPT !.domain = ""], [Default EXCEPT !.logLevel = "loud"],
   [Default EXCEPT !.hasMinTlsVersion = FALSE]}
  \cup {[Default EXCEPT !.smtpPort = p] : p \in {-1, 0, 143, 65536, 65561}}
  \cup {[Default EXCEPT !.imapPort = p] : p \in {0, 65536, 65679}}
  \cup {[Default EXCEPT !.minTlsVersion = v] : v \in {-1, 0, 4}}
  \cup {[Low EXCEPT !.maxMessageSize = 1023], [High EXCEPT !.maxMessageSize = 104857601],
        [Low EXCEPT !.smtpTimeout = 29], [Low EXCEPT !.dataTimeout = 59],
        [High EXCEPT !.redisHost = ""], [High EXCEPT !.redisPort = 0],
        [High EXCEPT !.clusterId = ""]}

\* Two that main starts with: how it ends does not depend on the limits.
MCSound == {Default, Tls}

Setting == {"unset", "", "file"}

MCEnvironments ==
  [TLS_CERT : Setting, TLS_CERT_PATH : Setting, TLS_KEY : {"unset", "file"}, TLS_KEY_PATH : Setting]
=============================================================================
