------------------------ MODULE ShutdownCoordinator ------------------------
(***************************************************************************)
(* src/core/shutdown_coordinator.cpp: the hooks of the components, the     *)
(* three phases of a shutdown, and the threads that wait for its end.      *)
(*                                                                         *)
(* mutex_ is held through all three phases; a hook may take any time, or   *)
(* not return.  An exception that it throws is logged, if it is of the     *)
(* standard kind; any other one unwinds initiateShutdown.                  *)
(***************************************************************************)
EXTENDS Naturals, Threads

CONSTANTS
  Hook,      \* the hooks
  Priority   \* Priority[h]: the member of that name

ASSUME HookPriorities == Priority \in [Hook -> Nat]

VARIABLES
  hooks,        \* hooks_, which is kept sorted by priority
  shuttingDown, \* shuttingDown_
  complete,     \* shutdownComplete_
  mutex,        \* who holds mutex_
  at,           \* at[t]: where thread t is
  todo,         \* the hooks left in the phase
  late,         \* the ten seconds for draining are over
  stage,        \* stage[h]: what was last called of h
  enrolled,     \* the hooks that the shutdown found
  told          \* told[t]: what waitForShutdown has returned to t

cvars == <<hooks, shuttingDown, complete, mutex, at, todo, late, stage, enrolled, told>>

Phases == {"stop", "drain", "final"}
Stages == {"none", "stopped", "drained", "down"}

CoordTypeOK ==
  /\ hooks \subseteq Hook /\ todo \subseteq Hook /\ enrolled \subseteq Hook
  /\ shuttingDown \in BOOLEAN /\ complete \in BOOLEAN /\ late \in BOOLEAN
  /\ mutex \in Thread \cup {Nobody}
  /\ at \in [Thread -> {"idle", "enter", "lock", "wait"} \cup Phases]
  /\ stage \in [Hook -> Stages]
  /\ told \in [Thread -> {"nothing", "done", "timeout"}]
  /\ \A t \in Thread : mutex = t <=> at[t] \in Phases

CoordInit ==
  /\ hooks = {} /\ todo = {} /\ enrolled = {}
  /\ shuttingDown = FALSE /\ complete = FALSE /\ late = FALSE
  /\ mutex = Nobody
  /\ at = [t \in Thread |-> "idle"]
  /\ stage = [h \in Hook |-> "none"]
  /\ told = [t \in Thread |-> "nothing"]

Move(t, from, to) == at[t] = from /\ at' = [at EXCEPT ![t] = to]

-----------------------------------------------------------------------------
\* Fault: the mutex is not taken.
RegisterHook_Unlocked(t, h) ==
  /\ at[t] = "idle" /\ h \notin hooks
  /\ hooks' = hooks \cup {h}
  /\ UNCHANGED <<shuttingDown, complete, mutex, at, todo, late, stage, enrolled, told>>

\* Every component registers its hook once.
RegisterHook(t, h) ==
  /\ at[t] = "idle" /\ mutex = Nobody /\ h \notin hooks
  /\ hooks' = hooks \cup {h}
  /\ UNCHANGED <<shuttingDown, complete, mutex, at, todo, late, stage, enrolled, told>>

\* initiateShutdown: shuttingDown_.exchange(true).  Whoever finds it set
\* returns at once...
Initiate(t) ==
  /\ ~shuttingDown
  /\ Move(t, "idle", "enter")
  /\ shuttingDown' = TRUE
  /\ UNCHANGED <<hooks, complete, mutex, todo, late, stage, enrolled, told>>

\* ...and whoever set it goes on with the mutex.
Enter(t) ==
  /\ mutex = Nobody
  /\ Move(t, "enter", "stop")
  /\ mutex' = t
  /\ todo' = hooks /\ enrolled' = hooks
  /\ UNCHANGED <<hooks, shuttingDown, complete, late, stage, told>>

\* The next hook of the phase, from the front of hooks_ or from its end; the
\* order of those with the same priority is open.
First(h) == h \in todo /\ \A g \in todo : Priority[h] <= Priority[g]
Last(h)  == h \in todo /\ \A g \in todo : Priority[h] >= Priority[g]

Call(t, h, phase, result) ==
  /\ at[t] = phase
  /\ todo' = todo \ {h}
  /\ stage' = [stage EXCEPT ![h] = result]
  /\ UNCHANGED <<hooks, shuttingDown, complete, mutex, at, enrolled, told>>

\* Phase 1: stopAccepting.
StopAccepting(t, h) == First(h) /\ Call(t, h, "stop", "stopped") /\ UNCHANGED late

\* Phase 2: drain, as long as the ten seconds are not over...
Drain(t, h) ==
  /\ First(h) /\ ~late
  /\ Call(t, h, "drain", "drained")
  /\ late' \in BOOLEAN

\* ..."Drain timeout".
SkipDrain(t, h) == First(h) /\ late /\ Call(t, h, "drain", stage[h]) /\ UNCHANGED late

\* Phase 3: shutdown, from the end of hooks_.
Shutdown(t, h) == Last(h) /\ Call(t, h, "final", "down") /\ UNCHANGED late

NextPhase(t) ==
  /\ todo = {}
  /\ Move(t, "stop", "drain") \/ Move(t, "drain", "final")
  /\ todo' = hooks
  /\ UNCHANGED <<hooks, shuttingDown, complete, mutex, late, stage, enrolled, told>>

\* Fault: those who wait are told when the last phase begins.
Complete_Early(t) ==
  /\ Move(t, "final", "idle")
  /\ complete' = TRUE
  /\ mutex' = Nobody
  /\ UNCHANGED <<hooks, shuttingDown, todo, late, stage, enrolled, told>>

Complete(t) ==
  /\ todo = {}
  /\ Move(t, "final", "idle")
  /\ complete' = TRUE
  /\ mutex' = Nobody
  /\ UNCHANGED <<hooks, shuttingDown, todo, late, stage, enrolled, told>>

\* A hook throws something that is not a std::exception.
Unwind(t) ==
  /\ at[t] \in Phases /\ todo # {}
  /\ at' = [at EXCEPT ![t] = "idle"]
  /\ mutex' = Nobody
  /\ todo' = {}
  /\ UNCHANGED <<hooks, shuttingDown, complete, late, stage, enrolled, told>>

-----------------------------------------------------------------------------
\* waitForShutdown: the mutex is locked, then the condition waited for.
WaitBegin(t) ==
  /\ told[t] = "nothing"
  /\ Move(t, "idle", "lock")
  /\ UNCHANGED <<hooks, shuttingDown, complete, mutex, todo, late, stage, enrolled, told>>

WaitLock(t) ==
  /\ mutex = Nobody
  /\ Move(t, "lock", "wait")
  /\ UNCHANGED <<hooks, shuttingDown, complete, mutex, todo, late, stage, enrolled, told>>

\* wait_for looks at the condition with the mutex, when notified and when its
\* time is over.
WaitEnd(t) ==
  /\ mutex = Nobody
  /\ Move(t, "wait", "idle")
  /\ told' = [told EXCEPT ![t] = IF complete THEN "done" ELSE "timeout"]
  /\ UNCHANGED <<hooks, shuttingDown, complete, mutex, todo, late, stage, enrolled>>

-----------------------------------------------------------------------------
HookCall(t) == \E h \in Hook : \/ StopAccepting(t, h) \/ Drain(t, h)
                               \/ SkipDrain(t, h) \/ Shutdown(t, h)

Own(t) == Enter(t) \/ NextPhase(t) \/ Complete(t) \/ WaitLock(t) \/ WaitEnd(t)

CoordNext ==
  \E t \in Thread :
    \/ \E h \in Hook : RegisterHook(t, h)
    \/ Initiate(t) \/ HookCall(t) \/ Unwind(t) \/ WaitBegin(t) \/ Own(t)

CoordSpec == CoordInit /\ [][CoordNext]_cvars

-----------------------------------------------------------------------------
(* What the coordinator promises.                                          *)

\* "Stop accepting new connections before draining active ones": no component
\* is drained while another accepts, and none is shut down before all were,
\* unless the time for draining was over.
PhasesInOrder ==
  \A g, h \in hooks :
    /\ stage[h] \in {"drained", "down"} /\ g \in enrolled => stage[g] # "none"
    /\ stage[h] # "none" => h \in enrolled
    /\ stage[h] = "down" /\ stage[g] = "stopped" /\ g \in enrolled => late

\* Nothing is called twice of a hook, whoever else asks for a shutdown.
CalledOnce ==
  [][\A h \in Hook :
       /\ stage'[h] = "stopped" /\ stage[h] # "stopped" => stage[h] = "none"
       /\ stage'[h] = "drained" /\ stage[h] # "drained" => stage[h] = "stopped"]_cvars

\* A thread that is told that the shutdown is complete finds every component
\* down that the shutdown found.
ToldIsDown ==
  (\E t \in Thread : told[t] = "done") => \A h \in enrolled : stage[h] = "down"

-----------------------------------------------------------------------------
(* The invariant.                                                          *)

Shutting(t) == at[t] = "enter" \/ at[t] \in Phases

\* One thread shuts down, once, and calls no hook before it has the mutex.
OneShutdown ==
  /\ \A t \in Thread : Shutting(t) => shuttingDown /\ ~complete
  /\ \A r, t \in Thread : Shutting(r) /\ Shutting(t) => r = t
  /\ \A t \in Thread : ~shuttingDown \/ at[t] = "enter" => \A h \in Hook : stage[h] = "none"
  /\ ~shuttingDown => ~complete
  /\ enrolled \subseteq hooks /\ \A h \in Hook : stage[h] # "none" => h \in enrolled

\* How far the phase p is with the hook h.
StageIn(p, h) ==
  /\ p = "stop" => stage[h] = IF h \in todo THEN "none" ELSE "stopped"
  /\ p = "drain" => \/ stage[h] = IF h \in todo THEN "stopped" ELSE "drained"
                    \/ late /\ stage[h] = "stopped"
  /\ p = "final" => \/ h \in todo /\ stage[h] = "drained"
                    \/ h \in todo /\ late /\ stage[h] = "stopped"
                    \/ h \notin todo /\ stage[h] = "down"

AllInPhase ==
  \A t \in Thread : at[t] \in Phases =>
    enrolled = hooks /\ todo \subseteq hooks /\ \A h \in hooks : StageIn(at[t], h)

AllDown ==
  /\ complete => \A h \in enrolled : stage[h] = "down"
  /\ \A t \in Thread : told[t] = "done" => complete

CoordInv == CoordTypeOK /\ OneShutdown /\ AllInPhase /\ AllDown /\ PhasesInOrder
=============================================================================
