---------------------------- MODULE MCMailStore ----------------------------
(* Two calls of store to two mailboxes, in one millisecond or in two.      *)
EXTENDS MailStore

CONSTANTS m1, m2, u1, u2, t1, t2

MCMsg  == {m1, m2}
MCUser == {u1, u2}
MCId   == {t1, t2}
=============================================================================
