----------------------------- MODULE MCHaQueue -----------------------------
(* Two processes with a controller each, and a message enqueued in one.    *)
EXTENDS HaQueue, TLC

CONSTANTS m1, n1, n2

MCMsg  == {m1}
MCNode == {n1, n2}
MCHome == m1 :> n1
=============================================================================
