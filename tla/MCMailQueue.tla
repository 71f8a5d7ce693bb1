---------------------------- MODULE MCMailQueue ----------------------------
(* Two messages enqueued in two processes, both with a worker and neither  *)
(* with the leader lock: the queue's own file protocol is all that keeps   *)
(* the workers apart.                                                      *)
EXTENDS MailQueue, TLC

CONSTANTS m1, m2, n1, n2

MCMsg  == {m1, m2}
MCNode == {n1, n2}
MCHome == (m1 :> n1) @@ (m2 :> n2)

\* Swapping the messages together with the processes they are enqueued in.
MCSymmetry == {(m1 :> m2) @@ (m2 :> m1) @@ (n1 :> n2) @@ (n2 :> n1)}
=============================================================================
