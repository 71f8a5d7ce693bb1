----------------------------- MODULE MCServices -----------------------------
(* The services of src/core that any thread may call, and main, one of     *)
(* them at a time: the coordinator of a shutdown, the lifecycle, the log,  *)
(* the process.  They share at most the threads.                           *)
EXTENDS ShutdownCoordinator, AppLifecycle, Logging, MCProcess, TLC

CONSTANTS t1, t2, t3, h1, h2, h3, logging, storage, servers, a1, a2, b1, b2, b3

VARIABLE service

MCThread == {t1, t2, t3}

\* Three hooks, two of which have the same priority.
MCHook     == {h1, h2, h3}
MCPriority == [h \in MCHook |-> IF h = h1 THEN 0 ELSE 1]

\* Three subsystems of three phases.
MCSub   == {logging, storage, servers}
MCPhase == [s \in MCSub |-> CASE s = logging -> 1 [] s = storage -> 3 [] OTHER -> 5]
MCOrder == [s \in MCSub |-> IF s = servers THEN 2 ELSE 0]

\* Two events, and three other lines of twice their size; a file is over its
\* size by a line, is full, or ends short of it; and one file is renamed.
MCAudited == {a1, a2}
MCLine    == {a1, a2, b1, b2, b3}
MCSize    == [l \in MCLine \cup {CannotOpen} |-> IF l \in {b1, b2, b3} THEN 2 ELSE 1]

MCInit ==
  /\ service \in {"coordinator", "lifecycle", "log", "process"}
  /\ CoordInit /\ LifecycleInit /\ LogInit /\ ProcInit
  /\ service # "process" => cfg = Default /\ to = [c \in Client |-> "admin"]

MCNext ==
  /\ UNCHANGED service
  /\ \/ service = "coordinator" /\ CoordNext /\ UNCHANGED <<lvars, logvars, pvars>>
     \/ service = "lifecycle" /\ LifecycleNext /\ UNCHANGED <<cvars, logvars, pvars>>
     \/ service = "log" /\ LogNext /\ UNCHANGED <<cvars, lvars, pvars>>
     \/ service = "process" /\ ProcNext /\ UNCHANGED <<cvars, lvars, logvars>>

MCSpec == MCInit /\ [][MCNext]_<<service, cvars, lvars, logvars, pvars>>

MCSymmetry == Permutations(MCThread) \cup Permutations(MCLine \ MCAudited)
=============================================================================
