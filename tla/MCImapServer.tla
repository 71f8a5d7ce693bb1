---------------------------- MODULE MCImapServer ----------------------------
(* Three clients, on the TLS port.                                  *)
EXTENDS ImapServer

CONSTANTS c1, c2, c3, f1, f2, f3

MCConn == {c1, c2, c3}
MCFd   == {f1, f2, f3}
=============================================================================
