---------------------------- MODULE MCSmtpServer ----------------------------
(* Two clients of one address that come again and again, on the TLS port.  *)
EXTENDS SmtpServer, TLC

CONSTANTS c1, c2, i1, f1, f2

MCConn == {c1, c2}
MCIp   == {i1}
MCIpOf == (c1 :> i1) @@ (c2 :> i1)
MCFd   == {f1, f2}
=============================================================================
