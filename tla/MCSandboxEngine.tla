-------------------------- MODULE MCSandboxEngine --------------------------
(* Two messages, each submitted up to twice, to a process that can die and *)
(* whose disk can fail.                                                    *)
EXTENDS SandboxEngine

CONSTANTS i1, i2

MCId      == {i1, i2}
MCVerdict == {"Unknown", "Clean", "Malicious"}
MCStores  == {"reputation", "verdicts"}
=============================================================================
