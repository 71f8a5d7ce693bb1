----------------------------- MODULE MCAccounts -----------------------------
(* The two managers of accounts between which ServerContext chooses when a *)
(* process starts: the local one, with two processes on one users file and *)
(* two accounts of any kind, whose passwords are empty or p1; and that of  *)
(* the cluster, with two threads that work on one account and two sessions.*)
EXTENDS DistributedAuth, LocalAccounts, TLC

CONSTANTS n1, n2, a1, a2, p1, u1, s1, s2, t1, t2

VARIABLE activeAuth

MCNode     == {n1, n2}
MCAccount  == {a1, a2}
MCPassword == {p1}

MCUser   == {u1}
MCSess   == {s1, s2}
MCThread == {t1, t2}

MCInit ==
  /\ activeAuth \in {"localAuth", "distributedAuth"}
  /\ AuthInit /\ AccountInit
  /\ activeAuth = "distributedAuth" => Hashed(file) = {} /\ known = [a \in Account |-> p1]

MCNext ==
  /\ UNCHANGED activeAuth
  /\ \/ activeAuth = "localAuth" /\ AccountNext /\ UNCHANGED avars
     \/ activeAuth = "distributedAuth" /\ AuthNext /\ UNCHANGED accvars

MCSpec == MCInit /\ [][MCNext]_<<activeAuth, avars, accvars>>

MCSymmetry ==
  Permutations(MCNode) \cup Permutations(MCAccount)
    \cup Permutations(MCSess) \cup Permutations(MCThread)
=============================================================================
