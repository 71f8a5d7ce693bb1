--------------------------- MODULE MCSmtpSession ---------------------------
(* Two clients that send one message each to one mailbox; or one client    *)
(* whose message has recipients in two.                                    *)
EXTENDS SmtpSession, TLC

CONSTANTS m1, m2, s1, s2, u1, u2, t1, t2

MCMsg     == {m1, m2}
MCSession == {s1, s2}
MCUser    == {u1, u2}
MCId      == {t1, t2}

MC1Msg     == {m1}
MC1Session == {s1}
MC1User    == {u1}
MC1Id      == {t1}

MCSymmetry == Permutations(MCMsg) \cup Permutations(MCSession) \cup Permutations(MCId)
=============================================================================
