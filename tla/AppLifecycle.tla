---------------------------- MODULE AppLifecycle ----------------------------
(***************************************************************************)
(* src/core/app_lifecycle.cpp: subsystems are registered, initialised in   *)
(* the order of their phases, and shut down in that of their               *)
(* shutdownOrder, the highest first.  (One without a shutdown function is  *)
(* taken to have nothing to shut down.)                                    *)
(*                                                                         *)
(* initialize() calls shutdown() when a subsystem fails, with the mutex    *)
(* locked that shutdown() locks: it blocks for ever with glibc; another    *)
(* library throws, which unwinds initialize().                             *)
(***************************************************************************)
EXTENDS Integers, Threads

CONSTANTS
  Sub,           \* the subsystems
  PhaseOf,       \* PhaseOf[s]: the position of its phase
  ShutdownOrder  \* ShutdownOrder[s]: the member shutdownOrder

ASSUME LifecycleOrders == PhaseOf \in [Sub -> Nat] /\ ShutdownOrder \in [Sub -> Int]

VARIABLES
  state,       \* state_
  holder,      \* who holds mutex_
  call,        \* call[t]: where thread t is
  subsystems,  \* subsystems_, which is kept sorted by phase
  initialized, \* initialized_, those of them that have been
  alive        \* the subsystems that are in fact running

lvars == <<state, holder, call, subsystems, initialized, alive>>

LifecycleTypeOK ==
  /\ state \in {"Stopped", "Starting", "Ready", "Stopping"}
  /\ holder \in Thread \cup {Nobody}
  /\ call \in [Thread -> {"idle", "initialize", "shutdown", "stuck"}]
  /\ subsystems \subseteq Sub /\ initialized \subseteq subsystems
  /\ alive \subseteq Sub
  /\ \A t \in Thread : holder = t <=> call[t] # "idle"

LifecycleInit ==
  /\ state = "Stopped"
  /\ holder = Nobody
  /\ call = [t \in Thread |-> "idle"]
  /\ subsystems = {} /\ initialized = {} /\ alive = {}

Take(t, place) == holder = Nobody /\ holder' = t /\ call' = [call EXCEPT ![t] = place]
Leave(t, place) == call[t] = place /\ holder' = Nobody /\ call' = [call EXCEPT ![t] = "idle"]

-----------------------------------------------------------------------------
\* Fault: the state is not looked at.
RegisterSubsystem_Anytime(s) ==
  /\ holder = Nobody /\ s \notin subsystems
  /\ subsystems' = subsystems \cup {s}
  /\ UNCHANGED <<state, holder, call, initialized, alive>>

\* registerSubsystem, which throws in any other state.
RegisterSubsystem(s) ==
  /\ holder = Nobody /\ state = "Stopped" /\ s \notin subsystems
  /\ subsystems' = subsystems \cup {s}
  /\ UNCHANGED <<state, holder, call, initialized, alive>>

\* initialize, which returns false in any other state.
Initialize(t) ==
  /\ state = "Stopped"
  /\ Take(t, "initialize")
  /\ state' = "Starting"
  /\ UNCHANGED <<subsystems, initialized, alive>>

\* The next subsystem is one of the earliest phase.
Earliest(s) ==
  /\ s \in subsystems \ initialized
  /\ \A r \in subsystems \ initialized : PhaseOf[s] <= PhaseOf[r]

InitSubsystem(t, s) ==
  /\ call[t] = "initialize" /\ Earliest(s)
  /\ initialized' = initialized \cup {s}
  /\ alive' = alive \cup {s}
  /\ UNCHANGED <<state, holder, call, subsystems>>

\* Its init() returns false or throws, and shutdown() is called.
InitFails(t, s) ==
  /\ call[t] = "initialize" /\ Earliest(s)
  /\ \/ call' = [call EXCEPT ![t] = "stuck"] /\ UNCHANGED holder
     \/ Leave(t, "initialize")
  /\ UNCHANGED <<state, subsystems, initialized, alive>>

Initialized(t) ==
  /\ initialized = subsystems
  /\ Leave(t, "initialize")
  /\ state' = "Ready"
  /\ UNCHANGED <<subsystems, initialized, alive>>

-----------------------------------------------------------------------------
\* shutdown, which returns at once when there is nothing to do.
ShutdownBegins(t) ==
  /\ state \notin {"Stopping", "Stopped"}
  /\ Take(t, "shutdown")
  /\ state' = "Stopping"
  /\ UNCHANGED <<subsystems, initialized, alive>>

\* The next one of initialized_, sorted by shutdownOrder.
ShutSubsystem(t, s) ==
  /\ call[t] = "shutdown" /\ s \in initialized \cap alive
  /\ \A r \in initialized \cap alive : ShutdownOrder[s] >= ShutdownOrder[r]
  /\ alive' = alive \ {s}
  /\ UNCHANGED <<state, holder, call, subsystems, initialized>>

\* Fault: Stopped is set while subsystems go down.
ShutdownEnds_Early(t) ==
  /\ Leave(t, "shutdown")
  /\ state' = "Stopped"
  /\ subsystems' = {} /\ initialized' = {}
  /\ UNCHANGED alive

ShutdownEnds(t) ==
  /\ initialized \cap alive = {}
  /\ Leave(t, "shutdown")
  /\ state' = "Stopped"
  /\ subsystems' = {} /\ initialized' = {}
  /\ UNCHANGED alive

-----------------------------------------------------------------------------
OwnStep(t) ==
  \/ \E s \in Sub : InitSubsystem(t, s) \/ InitFails(t, s) \/ ShutSubsystem(t, s)
  \/ Initialized(t) \/ ShutdownEnds(t)

LifecycleNext ==
  \/ \E s \in Sub : RegisterSubsystem(s)
  \/ \E t \in Thread : Initialize(t) \/ ShutdownBegins(t) \/ OwnStep(t)

LifecycleSpec == LifecycleInit /\ [][LifecycleNext]_lvars

-----------------------------------------------------------------------------
(* What the lifecycle promises.                                            *)

\* Ready means that all that was registered runs, and Stopped that nothing
\* does, whichever threads initialise and shut down.
StateIsTrue ==
  /\ state = "Ready" => alive = subsystems
  /\ state = "Stopped" => alive = {}

\* "Higher = shutdown earlier": nothing goes down while a subsystem with a
\* higher order runs.
HigherFirst ==
  [][\A r, s \in Sub :
       s \in alive \ alive' /\ ShutdownOrder[r] > ShutdownOrder[s] => r \notin alive]_lvars

\* A subsystem never runs without those of the earlier phases.
EarlierPhasesRun ==
  state \in {"Starting", "Ready"} =>
    \A s \in alive : \A r \in subsystems : PhaseOf[r] < PhaseOf[s] => r \in alive

-----------------------------------------------------------------------------
(* The invariant.                                                          *)

\* The state follows the thread that has the mutex, and what runs the state.
InState ==
  /\ \A t \in Thread :
       /\ call[t] \in {"initialize", "stuck"} => state = "Starting"
       /\ call[t] = "shutdown" => state = "Stopping"
  /\ state \in {"Stopped", "Starting", "Ready"} => alive = initialized
  /\ state = "Stopping" => alive \subseteq initialized
  /\ state = "Stopped" => initialized = {}
  /\ state = "Ready" => initialized = subsystems

LifecycleInv == LifecycleTypeOK /\ InState /\ EarlierPhasesRun
=============================================================================
