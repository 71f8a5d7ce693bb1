--------------------------- MODULE ServicesProofs ---------------------------
(***************************************************************************)
(* For any threads, hooks, subsystems and lines of a log: the phases of a  *)
(* shutdown are in order and end with every hook down, the lifecycle tells *)
(* what runs, and no log file is larger than it may be.                    *)
(***************************************************************************)
EXTENDS ShutdownCoordinator, AppLifecycle, Logging, SequenceTheorems, TLAPS

-----------------------------------------------------------------------------
(* The coordinator.                                                        *)

\* It begins with no hook.
LEMMA CoordInvInit == CoordInit => CoordInv
BY ThreadNames
   DEF CoordInit, CoordInv, CoordTypeOK, OneShutdown, AllInPhase, AllDown, PhasesInOrder, Shutting,
       Phases, Stages

\* A hook is registered, but not during a phase.
LEMMA CoordRegister ==
  ASSUME CoordInv, NEW t \in Thread, NEW h \in Hook, RegisterHook(t, h)
  PROVE  CoordInv'
<1>1. CoordTypeOK' /\ \A r \in Thread : at'[r] \notin Phases
  BY ThreadNames DEF CoordInv, CoordTypeOK, RegisterHook
<1>2. h \notin enrolled
  BY DEF CoordInv, OneShutdown, RegisterHook
<1>3. OneShutdown'
  BY <1>1 DEF CoordInv, OneShutdown, RegisterHook, Shutting
<1>4. PhasesInOrder'
  BY <1>2 DEF CoordInv, CoordTypeOK, OneShutdown, PhasesInOrder, RegisterHook
<1> QED
  BY <1>1, <1>3, <1>4 DEF CoordInv, AllInPhase, AllDown, RegisterHook

\* The first thread to ask begins the shutdown, and no other.
LEMMA CoordBegin ==
  ASSUME CoordInv, NEW t \in Thread, Initiate(t) \/ Enter(t)
  PROVE  CoordInv'
<1> USE DEF CoordInv, CoordTypeOK, Move, Phases
<1>1. CASE Initiate(t)
  BY <1>1 DEF Initiate, OneShutdown, Shutting, AllInPhase, AllDown, PhasesInOrder
<1>2. CASE Enter(t)
  <2>1. /\ shuttingDown /\ ~complete /\ \A h \in Hook : stage[h] = "none"
        /\ \A r \in Thread : Shutting(r) => r = t
    BY <1>2 DEF Enter, OneShutdown, Shutting
  <2>2. CoordTypeOK'
    BY <1>2, ThreadNames DEF Enter
  <2>3. OneShutdown'
    BY <1>2, <2>1 DEF Enter, OneShutdown, Shutting
  <2>4. AllInPhase' /\ AllDown' /\ PhasesInOrder'
    BY <1>2, <2>1 DEF Enter, AllInPhase, AllDown, PhasesInOrder, StageIn, Shutting
  <2> QED
    BY <2>2, <2>3, <2>4
<1> QED
  BY <1>1, <1>2

\* A hook is called, in the phase that has come.
LEMMA CoordHook ==
  ASSUME CoordInv, NEW t \in Thread, HookCall(t)
  PROVE  CoordInv'
<1> USE DEF CoordInv, CoordTypeOK, Phases, Stages
<1>1. PICK h \in Hook : \/ StopAccepting(t, h) \/ Drain(t, h)
                        \/ SkipDrain(t, h) \/ Shutdown(t, h)
  BY DEF HookCall
<1>2. /\ at[t] \in Phases /\ h \in todo /\ todo' = todo \ {h}
      /\ UNCHANGED <<hooks, shuttingDown, complete, mutex, at, enrolled, told>>
  BY <1>1 DEF StopAccepting, Drain, SkipDrain, Shutdown, First, Last, Call
<1>3. /\ h \in hooks /\ enrolled = hooks /\ ~complete
      /\ \A r \in Thread : Shutting(r) => r = t
      /\ \A g \in hooks : StageIn(at[t], g)
  BY <1>2 DEF AllInPhase, OneShutdown, Shutting
<1>4. CoordTypeOK'
  BY <1>1, <1>2 DEF StopAccepting, Drain, SkipDrain, Shutdown, Call
<1>5. AllInPhase' /\ PhasesInOrder' /\ \A g \in Hook : stage'[g] # "none" => g \in enrolled
  <2>0. \A r \in Thread : at[r] \in Phases => r = t
    BY <1>3 DEF Shutting
  <2>1. CASE StopAccepting(t, h)
    BY <1>2, <1>3, <2>0, <2>1
       DEF StopAccepting, Call, AllInPhase, StageIn, PhasesInOrder, OneShutdown
  <2>2. CASE Drain(t, h)
    BY <1>2, <1>3, <2>0, <2>2 DEF Drain, Call, AllInPhase, StageIn, PhasesInOrder, OneShutdown
  <2>3. CASE SkipDrain(t, h)
    BY <1>2, <1>3, <2>0, <2>3 DEF SkipDrain, Call, AllInPhase, StageIn, PhasesInOrder, OneShutdown
  <2>4. CASE Shutdown(t, h)
    BY <1>2, <1>3, <2>0, <2>4 DEF Shutdown, Call, AllInPhase, StageIn, PhasesInOrder, OneShutdown
  <2> QED
    BY <1>1, <2>1, <2>2, <2>3, <2>4
<1>6. OneShutdown' /\ AllDown'
  BY <1>2, <1>3, <1>5 DEF OneShutdown, AllDown, Shutting
<1> QED
  BY <1>4, <1>5, <1>6

\* A phase ends, or the shutdown.
LEMMA CoordPhase ==
  ASSUME CoordInv, NEW t \in Thread, NextPhase(t) \/ Complete(t) \/ Unwind(t)
  PROVE  CoordInv'
<1> USE DEF Phases, Move
<1>0. CoordTypeOK /\ OneShutdown /\ AllInPhase /\ AllDown /\ PhasesInOrder
  BY DEF CoordInv
<1>1. /\ at[t] \in Phases /\ enrolled = hooks /\ ~complete /\ shuttingDown
      /\ \A r \in Thread : Shutting(r) => r = t
      /\ \A g \in hooks : StageIn(at[t], g)
  BY <1>0 DEF NextPhase, Complete, Unwind, AllInPhase, OneShutdown, Shutting
<1>a. at \in [Thread -> {"idle", "enter", "lock", "wait"} \cup Phases]
  BY <1>0 DEF CoordTypeOK
<1>2. CASE NextPhase(t)
  <2>1. CoordTypeOK'
    BY <1>0, <1>2 DEF NextPhase, CoordTypeOK
  <2>2. /\ todo = {} /\ todo' = hooks
        /\ UNCHANGED <<hooks, enrolled, stage, late, shuttingDown, complete, told>>
        /\ \/ at[t] = "stop" /\ at'[t] = "drain"
           \/ at[t] = "drain" /\ at'[t] = "final"
        /\ \A r \in Thread \ {t} : at'[r] = at[r]
    <3>1. /\ todo = {} /\ todo' = hooks
          /\ UNCHANGED <<hooks, enrolled, stage, late, shuttingDown, complete, told>>
      BY <1>2 DEF NextPhase
    <3>2. /\ \/ at[t] = "stop" /\ at'[t] = "drain"
             \/ at[t] = "drain" /\ at'[t] = "final"
          /\ \A r \in Thread \ {t} : at'[r] = at[r]
      BY <1>a, <1>2 DEF NextPhase
    <3> QED
      BY <3>1, <3>2
  <2>3. OneShutdown'
    BY <1>0, <1>1, <2>2 DEF OneShutdown, Shutting
  <2>4. AllDown' /\ PhasesInOrder'
    BY <1>0, <2>2 DEF AllDown, PhasesInOrder
  <2>5. AllInPhase'
    <3>1. \A r \in Thread : at'[r] \in Phases => r = t
      BY <1>1, <2>2 DEF Shutting
    <3>2. ASSUME NEW g \in hooks PROVE StageIn(at[t], g)'
      <4>1. StageIn(at[t], g) /\ g \notin todo /\ g \in todo'
        BY <1>1, <2>2
      <4> QED
        BY <2>2, <4>1 DEF StageIn
    <3> QED
      BY <1>1, <2>2, <3>1, <3>2 DEF AllInPhase
  <2> QED
    BY <2>1, <2>3, <2>4, <2>5 DEF CoordInv
<1>3. CASE Complete(t) \/ Unwind(t)
  <2>1. CoordTypeOK'
    BY <1>0, <1>1, <1>3, ThreadNames DEF Complete, Unwind, CoordTypeOK
  <2>2. /\ at'[t] = "idle" /\ \A r \in Thread \ {t} : at'[r] = at[r]
        /\ UNCHANGED <<hooks, enrolled, shuttingDown, stage, late, told>>
    BY <1>a, <1>3 DEF Complete, Unwind
  <2>3. \A r \in Thread : ~Shutting(r)'
    BY <1>1, <2>2 DEF Shutting
  <2>4. OneShutdown'
    BY <1>0, <1>1, <2>2, <2>3 DEF OneShutdown, Shutting
  <2>5. AllInPhase' /\ PhasesInOrder'
    BY <1>0, <2>2, <2>3 DEF AllInPhase, PhasesInOrder, Shutting
  <2>6. AllDown'
    <3>1. CASE Complete(t)
      <4>1. at[t] = "final" /\ todo = {} /\ complete' /\ UNCHANGED <<stage, enrolled, told>>
        BY <3>1 DEF Complete
      <4>2. \A h \in enrolled : stage[h] = "down"
        BY <1>1, <4>1 DEF StageIn
      <4> QED
        BY <4>1, <4>2 DEF AllDown
    <3>2. CASE Unwind(t)
      BY <1>0, <1>1, <3>2 DEF Unwind, AllDown
    <3> QED
      BY <1>3, <3>1, <3>2
  <2> QED
    BY <2>1, <2>4, <2>5, <2>6 DEF CoordInv
<1> QED
  BY <1>2, <1>3

\* A thread waits.
LEMMA CoordWait ==
  ASSUME CoordInv, NEW t \in Thread, WaitBegin(t) \/ WaitLock(t) \/ WaitEnd(t)
  PROVE  CoordInv'
<1> USE DEF CoordInv, CoordTypeOK, Phases, Move
<1>1. CoordTypeOK'
  BY DEF WaitBegin, WaitLock, WaitEnd
<1>2. OneShutdown'
  BY DEF WaitBegin, WaitLock, WaitEnd, OneShutdown, Shutting
<1>3. AllInPhase' /\ PhasesInOrder'
  BY DEF WaitBegin, WaitLock, WaitEnd, AllInPhase, PhasesInOrder, StageIn
<1>4. AllDown'
  BY DEF WaitBegin, WaitLock, WaitEnd, AllDown
<1> QED
  BY <1>1, <1>2, <1>3, <1>4

\* CoordInv is inductive.
THEOREM CoordInvariant == CoordSpec => []CoordInv
<1>1. CoordInv /\ [CoordNext]_cvars => CoordInv'
  <2> SUFFICES ASSUME CoordInv, [CoordNext]_cvars PROVE CoordInv'
    OBVIOUS
  <2>1. CASE UNCHANGED cvars
    BY <2>1
       DEF cvars, CoordInv, CoordTypeOK, OneShutdown, AllInPhase, AllDown, PhasesInOrder,
           Shutting, StageIn
  <2> QED
    BY <2>1, CoordRegister, CoordBegin, CoordHook, CoordPhase, CoordWait DEF CoordNext, Own
<1> QED
  BY CoordInvInit, <1>1, PTL DEF CoordSpec

\* No hook is drained before all have stopped accepting, and none shut down
\* before all were drained or the time was over (initiateShutdown).
THEOREM CoordPhasesInOrder == CoordSpec => []PhasesInOrder
BY CoordInvariant, PTL DEF CoordInv

\* Who is told that the shutdown is over finds every hook down.
THEOREM CoordToldIsDown == CoordSpec => []ToldIsDown
<1>1. CoordInv => ToldIsDown
  BY DEF CoordInv, AllDown, ToldIsDown
<1> QED
  BY CoordInvariant, <1>1, PTL

\* Two threads that begin the shutdown call each hook once.
THEOREM CoordCalledOnce == CoordSpec => CalledOnce
<1> DEFINE Once == \A h \in Hook :
       /\ stage'[h] = "stopped" /\ stage[h] # "stopped" => stage[h] = "none"
       /\ stage'[h] = "drained" /\ stage[h] # "drained" => stage[h] = "stopped"
<1>1. CoordInv /\ [CoordNext]_cvars => [Once]_cvars
  <2> SUFFICES ASSUME CoordInv, CoordNext PROVE Once
    OBVIOUS
  <2>1. ASSUME NEW t \in Thread, HookCall(t) PROVE Once
    <3> USE DEF CoordInv, CoordTypeOK, Phases, Stages
    <3>1. PICK h \in Hook : \/ StopAccepting(t, h) \/ Drain(t, h)
                            \/ SkipDrain(t, h) \/ Shutdown(t, h)
      BY <2>1 DEF HookCall
    <3>2. at[t] \in Phases /\ h \in todo
      BY <3>1 DEF StopAccepting, Drain, SkipDrain, Shutdown, First, Last, Call
    <3>3. StageIn(at[t], h)
      BY <3>2 DEF AllInPhase
    <3> QED
      BY <3>1, <3>2, <3>3 DEF StopAccepting, Drain, SkipDrain, Shutdown, Call, StageIn
  <2>2. ASSUME NEW t \in Thread, ~HookCall(t),
               \/ \E h \in Hook : RegisterHook(t, h)
               \/ Initiate(t) \/ Unwind(t) \/ WaitBegin(t) \/ Own(t)
        PROVE  Once
    BY <2>2 DEF RegisterHook, Initiate, Unwind, WaitBegin, Own, Enter, NextPhase, Complete,
                WaitLock, WaitEnd
  <2> QED
    BY <2>1, <2>2 DEF CoordNext
<1> QED
  BY CoordInvariant, <1>1, PTL DEF CoordSpec, CalledOnce

-----------------------------------------------------------------------------
(* The lifecycle.                                                          *)

\* It begins stopped, with no subsystem.
LEMMA LifecycleInvInit == LifecycleInit => LifecycleInv
BY ThreadNames DEF LifecycleInit, LifecycleInv, LifecycleTypeOK, InState, EarlierPhasesRun

\* LifecycleInv is inductive.
THEOREM LifecycleInvariant == LifecycleSpec => []LifecycleInv
<1>1. LifecycleInv /\ [LifecycleNext]_lvars => LifecycleInv'
  <2> SUFFICES ASSUME LifecycleInv, [LifecycleNext]_lvars PROVE LifecycleInv'
    OBVIOUS
  <2> USE DEF LifecycleInv, LifecycleTypeOK, InState, Take, Leave
  <2>1. ASSUME NEW s \in Sub, RegisterSubsystem(s) PROVE LifecycleInv'
    BY <2>1 DEF RegisterSubsystem, EarlierPhasesRun
  <2>2. ASSUME NEW t \in Thread, Initialize(t) PROVE LifecycleInv'
    BY <2>2, ThreadNames DEF Initialize, EarlierPhasesRun
  <2>3. ASSUME NEW t \in Thread, ShutdownBegins(t) PROVE LifecycleInv'
    BY <2>3, ThreadNames DEF ShutdownBegins, EarlierPhasesRun
  <2>4. ASSUME NEW t \in Thread, NEW s \in Sub, InitSubsystem(t, s) PROVE LifecycleInv'
    <3>1. state = "Starting" /\ alive = initialized /\ state' = state
          /\ alive' = alive \cup {s} /\ initialized' = initialized \cup {s}
          /\ s \in subsystems /\ UNCHANGED <<holder, call, subsystems>>
      BY <2>4 DEF InitSubsystem, Earliest
    <3>2. \A r \in subsystems : PhaseOf[r] < PhaseOf[s] => r \in initialized
      BY <2>4, LifecycleOrders DEF InitSubsystem, Earliest
    <3>3. EarlierPhasesRun'
      BY <3>1, <3>2 DEF EarlierPhasesRun
    <3> QED
      BY <3>1, <3>3
  <2>5. ASSUME NEW t \in Thread, NEW s \in Sub, InitFails(t, s) PROVE LifecycleInv'
    BY <2>5, ThreadNames DEF InitFails, EarlierPhasesRun
  <2>6. ASSUME NEW t \in Thread, NEW s \in Sub, ShutSubsystem(t, s) PROVE LifecycleInv'
    BY <2>6 DEF ShutSubsystem, EarlierPhasesRun
  <2>7. ASSUME NEW t \in Thread, Initialized(t) PROVE LifecycleInv'
    BY <2>7, ThreadNames DEF Initialized, EarlierPhasesRun
  <2>8. ASSUME NEW t \in Thread, ShutdownEnds(t) PROVE LifecycleInv'
    BY <2>8, ThreadNames DEF ShutdownEnds, EarlierPhasesRun
  <2>9. CASE UNCHANGED lvars
    BY <2>9 DEF lvars, EarlierPhasesRun
  <2> QED
    BY <2>1, <2>2, <2>3, <2>4, <2>5, <2>6, <2>7, <2>8, <2>9 DEF LifecycleNext, OwnStep
<1> QED
  BY LifecycleInvInit, <1>1, PTL DEF LifecycleSpec

\* Ready tells that all subsystems run, and Stopped that none does.
THEOREM LifecycleStateIsTrue == LifecycleSpec => []StateIsTrue
<1>1. LifecycleInv => StateIsTrue
  BY DEF LifecycleInv, InState, StateIsTrue
<1> QED
  BY LifecycleInvariant, <1>1, PTL

\* No subsystem runs without those of the earlier phases (initialize).
THEOREM LifecyclePhases == LifecycleSpec => []EarlierPhasesRun
BY LifecycleInvariant, PTL DEF LifecycleInv

\* No subsystem is shut down while one with a higher order runs (shutdown).
THEOREM LifecycleHigherFirst == LifecycleSpec => HigherFirst
<1> DEFINE Higher == \A r, s \in Sub :
       s \in alive \ alive' /\ ShutdownOrder[r] > ShutdownOrder[s] => r \notin alive
<1>1. LifecycleInv /\ [LifecycleNext]_lvars => [Higher]_lvars
  <2> SUFFICES ASSUME LifecycleInv, LifecycleNext PROVE Higher
    OBVIOUS
  <2>1. ASSUME NEW t \in Thread, NEW q \in Sub, ShutSubsystem(t, q) PROVE Higher
    <3>1. alive \subseteq initialized /\ alive' = alive \ {q} /\ alive \subseteq Sub
      BY <2>1 DEF ShutSubsystem, LifecycleInv, LifecycleTypeOK, InState
    <3>2. \A r \in alive : ShutdownOrder[q] >= ShutdownOrder[r]
      BY <2>1, <3>1 DEF ShutSubsystem
    <3> QED
      BY <3>1, <3>2, LifecycleOrders
  <2>2. CASE \A t \in Thread, q \in Sub : ~ShutSubsystem(t, q)
    <3>1. alive \subseteq alive'
      BY <2>2 DEF LifecycleNext, OwnStep, RegisterSubsystem, Initialize, ShutdownBegins,
                  InitSubsystem, InitFails, Initialized, ShutdownEnds
    <3> QED
      BY <3>1
  <2> QED
    BY <2>1, <2>2
<1> QED
  BY LifecycleInvariant, <1>1, PTL DEF LifecycleSpec, HigherFirst

-----------------------------------------------------------------------------
(* The log.                                                                *)

\* The log begins with no file.
LEMMA LogInvInit == LogInit => LogInv
<1> SUFFICES ASSUME LogInit PROVE LogInv
  OBVIOUS
<1>1. /\ <<>> \in Text /\ <<>> \in Seq(Audited)
      /\ 0 \in Numbers /\ 0 \in Nat /\ 0 \in 0..MaxFaults
  BY LogLimits DEF Text, Numbers
<1>2. /\ [i \in Numbers |-> <<>>] \in [Numbers -> Text]
      /\ [i \in Numbers |-> 0] \in [Numbers -> Nat]
  BY <1>1
<1>3. LogTypeOK
  BY <1>1, <1>2 DEF LogInit, LogTypeOK
<1>4. InTheLog /\ Counted /\ SizeBounded
  BY ThreadNames DEF LogInit, InTheLog, Counted, SizeBounded
<1> QED
  BY <1>3, <1>4 DEF LogInv

\* The faults are counted up to the bound.
LEMMA FaultsCounted ==
  ASSUME LogTypeOK, Faulty
  PROVE  logFaults' \in 0..MaxFaults
BY LogLimits DEF LogTypeOK, Faulty

\* The calls of a thread that do not yet have the mutex of the logger.
LEMMA LogInvCall ==
  ASSUME LogInv, NEW t \in Thread,
         \/ \E l \in Line : LogCall(t, l)
         \/ AuditLock(t) \/ AuditAppend(t) \/ LogLock(t)
  PROVE  LogInv'
<1> USE LogLimits, LogNames, ThreadNames
<1> USE DEF LogInv, LogTypeOK, InTheLog, Counted, SizeBounded, disk, outputs, stream, LogMove
<1>0. Files \in Numbers
  BY DEF Numbers
<1>1. ASSUME NEW l \in Line, LogCall(t, l) PROVE LogInv'
  BY <1>1 DEF LogCall
<1>2. CASE AuditLock(t)
  BY <1>2 DEF AuditLock
<1>3. CASE AuditAppend(t)
  <2>1. line[t] \in Audited
    BY <1>3 DEF AuditAppend
  <2>2. Append(auditFile, line[t]) \in Seq(Audited)
    BY <2>1
  <2>3. LogTypeOK'
    BY <1>3, <2>2, FaultsCounted DEF AuditAppend
  <2>4. InTheLog'
    BY <1>3 DEF AuditAppend
  <2>5. (Counted /\ SizeBounded)'
    BY <1>3 DEF AuditAppend
  <2> QED
    BY <2>3, <2>4, <2>5
<1>4. CASE LogLock(t)
  <2>1. LogTypeOK'
    BY <1>4, <1>0 DEF LogLock
  <2>2. InTheLog'
    BY <1>4 DEF LogLock
  <2>3. (Counted /\ SizeBounded)'
    BY <1>4 DEF LogLock
  <2> QED
    BY <2>1, <2>2, <2>3
<1> QED
  BY <1>1, <1>2, <1>3, <1>4

\* A round of the rotation moves a file with its size, and leaves an absent one
\* empty.
LEMMA LogInvRotate ==
  ASSUME LogInv, NEW t \in Thread, Rotate(t)
  PROVE  LogInv'
<1> USE LogLimits, ThreadNames
<1>0. /\ inLog[t] = "rotate" /\ ~isOpen /\ shift \in 0..Files
      /\ logMutex = t
  BY DEF LogInv, LogTypeOK, InTheLog, Rotate, Numbers
<1>1. /\ present' \subseteq Numbers /\ text' \in [Numbers -> Text]
      /\ bytes' \in [Numbers -> Nat]
      /\ \A i \in Numbers : i \notin present' => text'[i] = <<>> /\ bytes'[i] = 0
      /\ SizeBounded'
      /\ text'[shift] = <<>> /\ bytes'[shift] = 0
  <2>1. CASE shift \in present
    <3>1. /\ present' = (present \ {shift}) \cup {shift + 1}
          /\ text' = [text EXCEPT ![shift] = <<>>, ![shift + 1] = text[shift]]
          /\ bytes' = [bytes EXCEPT ![shift] = 0, ![shift + 1] = bytes[shift]]
      BY <2>1 DEF Rotate, Rename
    <3>2. shift \in Numbers /\ shift + 1 \in Numbers /\ shift # shift + 1 /\ <<>> \in Text
      BY <1>0 DEF Numbers, Text
    <3>3. text \in [Numbers -> Text] /\ bytes \in [Numbers -> Nat]
      BY DEF LogInv, LogTypeOK
    <3>4. \A i \in Numbers :
            /\ text'[i] = IF i = shift THEN <<>> ELSE IF i = shift + 1 THEN text[shift] ELSE text[i]
            /\ bytes'[i] = IF i = shift THEN 0 ELSE IF i = shift + 1 THEN bytes[shift] ELSE bytes[i]
      BY <3>1, <3>2, <3>3
    <3>5. text' \in [Numbers -> Text] /\ bytes' \in [Numbers -> Nat]
      BY <3>1, <3>2, <3>3
    <3>6. present' \subseteq Numbers
      BY <3>1, <3>2 DEF LogInv, LogTypeOK
    <3>7. \A i \in Numbers : i \notin present' => text'[i] = <<>> /\ bytes'[i] = 0
      BY <3>1, <3>4 DEF LogInv, Counted
    <3>8. SizeBounded'
      BY <3>2, <3>4 DEF LogInv, SizeBounded
    <3> QED
      BY <3>2, <3>4, <3>5, <3>6, <3>7, <3>8
  <2>2. CASE shift \notin present
    <3>1. UNCHANGED <<present, text, bytes>>
      BY <2>2 DEF Rotate
    <3>2. shift \in Numbers
      BY <1>0 DEF Numbers
    <3> QED
      BY <2>2, <3>1, <3>2 DEF LogInv, LogTypeOK, Counted, SizeBounded
  <2> QED
    BY <2>1, <2>2
<1>2. LogTypeOK'
  <2>1. shift' \in Numbers /\ inLog' \in [Thread -> {"idle", "audit", "append", "log", "rotate", "reopen", "write"}]
    <3>1. \/ shift' = shift - 1 /\ shift > 0 /\ UNCHANGED inLog
          \/ UNCHANGED shift /\ inLog' = [inLog EXCEPT ![t] = "reopen"]
      BY DEF Rotate, LogMove
    <3>2. shift > 0 => shift - 1 \in Numbers
      BY <1>0 DEF Numbers
    <3> QED
      BY <3>1, <3>2 DEF LogInv, LogTypeOK
  <2> QED
    BY <1>1, <2>1 DEF Rotate, LogInv, LogTypeOK, outputs, stream
<1>3. InTheLog'
  BY <1>0, <1>1 DEF Rotate, LogInv, LogTypeOK, InTheLog, LogMove, outputs, stream
<1> QED
  BY <1>0, <1>1, <1>2, <1>3 DEF Rotate, LogInv, Counted, outputs, stream

\* The file was below MAX_SIZE without the line that is written, because the
\* counter was when the mutex was taken, and is not below the size.
LEMMA LogInvWrite ==
  ASSUME LogInv, NEW t \in Thread, WriteLine(t)
  PROVE  LogInv'
<1> USE LogLimits, ThreadNames
<1>0. inLog[t] = "write" /\ logMutex = t /\ line[t] \in Line \cup {CannotOpen}
  BY DEF LogInv, LogTypeOK, InTheLog, WriteLine
<1>1. /\ Append(written, line[t]) \in Text /\ Append(filed, line[t]) \in Text
      /\ Append(console, line[t]) \in Text
  BY <1>0 DEF LogInv, LogTypeOK, Text
<1>2. Size[line[t]] \in Nat \ {0} /\ fileSize \in Nat
  BY <1>0 DEF LogInv, LogTypeOK
<1>3. /\ text' \in [Numbers -> Text] /\ bytes' \in [Numbers -> Nat]
      /\ \A i \in Numbers : i \notin present => text'[i] = <<>> /\ bytes'[i] = 0
      /\ SizeBounded'
      /\ isOpen => 0 \in present /\ bytes'[0] <= fileSize + Size[line[t]] + Slack
  <2>1. CASE isOpen
    <3>1. /\ 0 \in Numbers /\ text[0] \in Text /\ text \in [Numbers -> Text]
          /\ bytes \in [Numbers -> Nat] /\ bytes[0] \in Nat
      BY DEF LogInv, LogTypeOK, Numbers
    <3> DEFINE new == Append(text[0], line[t])
    <3>2. new \in Text /\ new[Len(new)] = line[t]
      BY <3>1, <1>0 DEF Text
    <3> HIDE DEF new
    <3>3. /\ text' = [text EXCEPT ![0] = new]
          /\ bytes' = [bytes EXCEPT ![0] = bytes[0] + Size[line[t]]]
      BY <2>1 DEF WriteLine, new
    <3>4. bytes[0] <= fileSize /\ fileSize < MaxSize
      BY <2>1, <1>0 DEF LogInv, Counted, InTheLog
    <3>5. 0 \in present
      BY <2>1 DEF LogInv, Counted
    <3>6. text' \in [Numbers -> Text] /\ bytes' \in [Numbers -> Nat]
      BY <1>2, <3>1, <3>2, <3>3
    <3>7. /\ text'[0] = new /\ bytes'[0] = bytes[0] + Size[line[t]]
          /\ \A i \in Numbers \ {0} : text'[i] = text[i] /\ bytes'[i] = bytes[i]
      BY <3>1, <3>3
    <3>8. bytes[0] + Size[line[t]] < MaxSize + Size[line[t]]
      BY <1>2, <3>1, <3>4
    <3>9. ASSUME NEW i \in Numbers, text'[i] # <<>>
          PROVE  bytes'[i] < MaxSize + Size[text'[i][Len(text'[i])]]
      BY <3>2, <3>7, <3>8, <3>9 DEF LogInv, SizeBounded
    <3>10. \A i \in Numbers : i \notin present => text'[i] = <<>> /\ bytes'[i] = 0
      BY <3>5, <3>7 DEF LogInv, Counted
    <3>11. bytes'[0] <= fileSize + Size[line[t]] + Slack
      BY <1>2, <3>1, <3>4, <3>7
    <3> QED
      BY <3>5, <3>6, <3>9, <3>10, <3>11 DEF SizeBounded
  <2>2. CASE ~isOpen
    BY <2>2 DEF WriteLine, LogInv, LogTypeOK, Counted, SizeBounded
  <2> QED
    BY <2>1, <2>2
<1>4. LogTypeOK'
  <2>1. /\ console' \in Text /\ written' \in Text /\ filed' \in Text
    BY <1>1 DEF WriteLine, LogInv, LogTypeOK
  <2>2. fileSize' \in Nat
    BY <1>2 DEF WriteLine
  <2> QED
    BY <1>0, <1>3, <2>1, <2>2 DEF WriteLine, Release, LogInv, LogTypeOK
<1>5. InTheLog'
  BY <1>0 DEF WriteLine, Release, LogInv, LogTypeOK, InTheLog
<1> QED
  BY <1>0, <1>3, <1>4, <1>5 DEF WriteLine, LogInv, Counted

\* The sizes, with what the counter and the mutex say, through every step.
THEOREM LogInvariant == LogSpec => []LogInv
<1>1. LogInv /\ [LogNext]_logvars => LogInv'
  <2> SUFFICES ASSUME LogInv, [LogNext]_logvars PROVE LogInv'
    OBVIOUS
  <2> USE LogLimits, ThreadNames
  <2>1. CASE SetFile
    <3>1. LogTypeOK'
      <4>1. 0 \in Numbers /\ bytes[0] \in Nat
        BY DEF LogInv, LogTypeOK, Numbers
      <4> QED
        BY <2>1, <4>1, FaultsCounted DEF SetFile, LogInv, LogTypeOK, outputs, callers
    <3>2. InTheLog'
      BY <2>1 DEF SetFile, LogInv, LogTypeOK, InTheLog, outputs, callers
    <3>3. (Counted /\ SizeBounded)'
      BY <2>1 DEF SetFile, LogInv, LogTypeOK, Counted, SizeBounded, Numbers
    <3> QED
      BY <3>1, <3>2, <3>3 DEF LogInv
  <2>2. CASE LogDeath
    <3>1. LogTypeOK'
      <4>1. 0 \in Numbers
        BY DEF Numbers
      <4> QED
        BY <2>2, <4>1, FaultsCounted DEF LogDeath, LogInv, LogTypeOK, disk, outputs
    <3>2. InTheLog'
      BY <2>2 DEF LogDeath, LogInv, LogTypeOK, InTheLog
    <3>3. (Counted /\ SizeBounded)'
      BY <2>2 DEF LogDeath, LogInv, Counted, SizeBounded, disk
    <3> QED
      BY <3>1, <3>2, <3>3 DEF LogInv
  <2>3. ASSUME NEW t \in Thread, \E l \in Line : LogCall(t, l) PROVE LogInv'
    BY <2>3, LogInvCall
  <2>4. ASSUME NEW t \in Thread, AuditLock(t) \/ AuditAppend(t) \/ LogLock(t) PROVE LogInv'
    BY <2>4, LogInvCall
  <2>5. ASSUME NEW t \in Thread, Rotate(t) PROVE LogInv'
    BY <2>5, LogInvRotate
  <2>6. ASSUME NEW t \in Thread, RotateThrows(t) PROVE LogInv'
    BY <2>6 DEF RotateThrows, Release, Faulty, LogInv, LogTypeOK, InTheLog, Counted,
                SizeBounded, disk, outputs, stream
  <2>7. ASSUME NEW t \in Thread, Reopen(t) PROVE LogInv'
    <3>1. LogTypeOK'
      <4>1. 0 \in Numbers
        BY DEF Numbers
      <4> QED
        BY <2>7, <4>1, FaultsCounted DEF Reopen, LogMove, LogInv, LogTypeOK, outputs
    <3>2. InTheLog'
      BY <2>7 DEF Reopen, LogMove, LogInv, LogTypeOK, InTheLog
    <3>3. bytes[0] = 0
      BY <2>7 DEF Reopen, LogMove, LogInv, InTheLog
    <3>4. (Counted /\ SizeBounded)'
      BY <2>7, <3>3 DEF Reopen, LogInv, Counted, SizeBounded
    <3> QED
      BY <3>1, <3>2, <3>4 DEF LogInv
  <2>8. ASSUME NEW t \in Thread, WriteLine(t) PROVE LogInv'
    BY <2>8, LogInvWrite
  <2>9. CASE UNCHANGED logvars
    BY <2>9 DEF logvars, disk, outputs, stream, callers, LogInv, LogTypeOK, InTheLog, Counted,
                SizeBounded
  <2> QED
    BY <2>1, <2>2, <2>3, <2>4, <2>5, <2>6, <2>7, <2>8, <2>9 DEF LogNext, LogStep
<1> QED
  BY LogInvInit, <1>1, PTL DEF LogSpec

\* The variables of the log are of their types.
THEOREM LogTypes == LogSpec => []LogTypeOK
BY LogInvariant, PTL DEF LogInv

\* No line is added to a file that has MAX_SIZE: a file is over it by less than
\* its last line, whatever fails and however often the process dies (setFile,
\* rotateIfNeeded, log).
THEOREM LogSizeBounded == LogSpec => []SizeBounded
BY LogInvariant, PTL DEF LogInv

-----------------------------------------------------------------------------
(* The order of the log.                                                   *)

\* A part of a sequence, told by its elements.
LEMMA PartIs ==
  ASSUME NEW S, NEW s \in Seq(S), NEW q \in Seq(S), NEW a \in Nat, a + Len(s) <= Len(q)
  PROVE  s = SubSeq(q, a + 1, a + Len(s)) <=> \A k \in 1..Len(s) : s[k] = q[a + k]
<1>1. Len(s) \in Nat /\ Len(q) \in Nat
  BY LenProperties
<1> DEFINE p == SubSeq(q, a + 1, a + Len(s))
<1>2. p \in Seq(S) /\ Len(p) = Len(s) /\ \A k \in 1..Len(s) : p[k] = q[a + k]
  <2>1. \A k \in (a + 1)..(a + Len(s)) : q[k] \in S
    BY <1>1, ElementOfSeq
  <2>2. Len(p) = Len(s) /\ \A k \in 1..Len(s) : p[k] = q[a + 1 + k - 1]
    BY <1>1
  <2>3. p \in Seq(S)
    BY <1>1, <2>1
  <2> QED
    BY <1>1, <2>2, <2>3
<1> HIDE DEF p
<1>3. ASSUME \A k \in 1..Len(s) : s[k] = q[a + k] PROVE s = p
  BY <1>2, <1>3, SeqEqual
<1> QED
  BY <1>2, <1>3 DEF p

\* InOrder, told line by line.
LineByLine(cut) ==
  /\ cut[0] = Len(filed)
  /\ \A i \in Numbers : /\ cut[i] = cut[i + 1] + Len(text[i])
                        /\ \A k \in 1..Len(text[i]) : text[i][k] = filed[cut[i + 1] + k]
  /\ cut[Files + 2] > 0 => Files + 1 \in present

LEMMA OrderIs ==
  ASSUME LogTypeOK, NEW cut \in [0..(Files + 2) -> 0..Len(filed)]
  PROVE  InOrder(cut) <=> LineByLine(cut)
<1>1. ASSUME NEW i \in Numbers, cut[i] = cut[i + 1] + Len(text[i])
      PROVE  text[i] = SubSeq(filed, cut[i + 1] + 1, cut[i])
               <=> \A k \in 1..Len(text[i]) : text[i][k] = filed[cut[i + 1] + k]
  <2>1. i \in 0..(Files + 2) /\ i + 1 \in 0..(Files + 2)
    BY LogLimits DEF Numbers
  <2>2. /\ text[i] \in Seq(Line \cup {CannotOpen}) /\ filed \in Seq(Line \cup {CannotOpen})
        /\ Len(filed) \in Nat
    BY LenProperties DEF LogTypeOK, Text
  <2>3. cut[i] \in 0..Len(filed) /\ cut[i + 1] \in 0..Len(filed)
    BY <2>1
  <2>4. cut[i + 1] \in Nat /\ cut[i + 1] + Len(text[i]) <= Len(filed)
    BY <1>1, <2>2, <2>3
  <2> DEFINE a == cut[i + 1]
  <2>5. text[i] = SubSeq(filed, a + 1, a + Len(text[i]))
          <=> \A k \in 1..Len(text[i]) : text[i][k] = filed[a + k]
    <3> HIDE DEF a
    <3>1. a \in Nat /\ a + Len(text[i]) <= Len(filed)
      BY <2>4 DEF a
    <3> QED
      BY <2>2, <3>1, PartIs
  <2> QED
    BY <1>1, <2>5
<1> QED
  BY <1>1 DEF InOrder, LineByLine

\* The same of the next state.
LEMMA OrderIsNext ==
  ASSUME LogTypeOK', NEW cut \in [0..(Files + 2) -> 0..Len(filed')]
  PROVE  InOrder(cut)' <=> LineByLine(cut)'
<1>1. ASSUME NEW i \in Numbers, cut[i] = cut[i + 1] + Len(text'[i])
      PROVE  text'[i] = SubSeq(filed', cut[i + 1] + 1, cut[i])
               <=> \A k \in 1..Len(text'[i]) : text'[i][k] = filed'[cut[i + 1] + k]
  <2>1. i \in 0..(Files + 2) /\ i + 1 \in 0..(Files + 2)
    BY LogLimits DEF Numbers
  <2>2. /\ text'[i] \in Seq(Line \cup {CannotOpen}) /\ filed' \in Seq(Line \cup {CannotOpen})
        /\ Len(filed') \in Nat
    BY LenProperties DEF LogTypeOK, Text, Numbers
  <2>3. cut[i] \in 0..Len(filed') /\ cut[i + 1] \in 0..Len(filed')
    BY <2>1
  <2>4. cut[i + 1] \in Nat /\ cut[i + 1] + Len(text'[i]) <= Len(filed')
    BY <1>1, <2>2, <2>3
  <2> DEFINE a == cut[i + 1]
  <2>5. text'[i] = SubSeq(filed', a + 1, a + Len(text'[i]))
          <=> \A k \in 1..Len(text'[i]) : text'[i][k] = filed'[a + k]
    <3> HIDE DEF a
    <3>1. a \in Nat /\ a + Len(text'[i]) <= Len(filed')
      BY <2>4 DEF a
    <3> QED
      BY <2>2, <3>1, PartIs
  <2> QED
    BY <1>1, <2>5
<1> QED
  BY <1>1 DEF InOrder, LineByLine, Numbers

\* Nothing that is in the files changes, and no file appears but empty.
LEMMA OrderStays ==
  ASSUME KeptInOrder, UNCHANGED <<text, filed>>, present \subseteq present'
  PROVE  KeptInOrder'
BY DEF KeptInOrder, InOrder, Numbers

\* A file is renamed to the next one: what it had is now there, and what was
\* there was empty or is lost (rotateIfNeeded).
LEMMA OrderRotate ==
  ASSUME LogInv, LogTypeOK', KeptInOrder, Moved, NEW t \in Thread, Rotate(t)
  PROVE  KeptInOrder'
<1> USE LogLimits
<1>0. /\ inLog[t] = "rotate" /\ shift \in 0..Files /\ filed' = filed
      /\ LogTypeOK /\ Len(filed) \in Nat
      /\ shift < Files => text[shift + 1] = <<>>
  <2>1. LogTypeOK /\ inLog[t] = "rotate" /\ filed' = filed
    BY DEF LogInv, Rotate, outputs
  <2>2. shift \in 0..Files
    BY <2>1 DEF LogInv, LogTypeOK, InTheLog, Numbers
  <2>3. Len(filed) \in Nat
    BY <2>1, LenProperties DEF LogTypeOK, Text
  <2>4. shift < Files => text[shift + 1] = <<>>
    BY <2>1 DEF Moved
  <2> QED
    BY <2>1, <2>2, <2>3, <2>4
<1>1. CASE shift \notin present
  BY <1>1, OrderStays DEF Rotate, outputs
<1>2. CASE shift \in present
  <2>1. /\ present' = (present \ {shift}) \cup {shift + 1}
        /\ text' = [text EXCEPT ![shift] = <<>>, ![shift + 1] = text[shift]]
    BY <1>2 DEF Rotate, Rename
  <2>2. PICK cut \in [0..(Files + 2) -> 0..Len(filed)] : InOrder(cut)
    BY DEF KeptInOrder
  <2>3. LineByLine(cut)
    BY <1>0, <2>2, OrderIs
  <2>4. PICK new \in [0..(Files + 2) -> 0..Len(filed')] :
          \A j \in 0..(Files + 2) : new[j] = IF j = shift + 1 THEN cut[shift]
                                           ELSE IF j = shift + 2 THEN cut[shift + 1]
                                           ELSE cut[j]
    <3> DEFINE moved == [j \in 0..(Files + 2) |-> IF j = shift + 1 THEN cut[shift]
                                                 ELSE IF j = shift + 2 THEN cut[shift + 1]
                                                 ELSE cut[j]]
    <3>0. cut \in [0..(Files + 2) -> 0..Len(filed')] /\ shift \in 0..(Files + 2) /\ shift + 1 \in 0..(Files + 2)
      BY <1>0
    <3>1. moved \in [0..(Files + 2) -> 0..Len(filed')]
      BY <3>0
    <3>2. \A j \in 0..(Files + 2) : moved[j] = IF j = shift + 1 THEN cut[shift]
                                              ELSE IF j = shift + 2 THEN cut[shift + 1]
                                              ELSE cut[j]
      OBVIOUS
    <3> HIDE DEF moved
    <3> QED
      BY <3>1, <3>2
  <2>5. text \in [Numbers -> Text] /\ shift \in Numbers /\ shift + 1 \in Numbers
    BY <1>0 DEF LogTypeOK, Numbers
  <2>6. \A i \in Numbers : text'[i] = IF i = shift THEN <<>>
                                       ELSE IF i = shift + 1 THEN text[shift] ELSE text[i]
    BY <1>0, <2>1, <2>5
  <2>7. \A j \in 0..(Files + 2) : cut[j] \in Nat
    BY <1>0, <2>2
  <2>8. shift < Files => cut[shift + 1] = cut[shift + 2]
    BY <1>0, <2>3, <2>5, <2>7 DEF LineByLine
  <2>9. ASSUME NEW i \in Numbers
        PROVE  /\ new[i] = new[i + 1] + Len(text'[i])
               /\ \A k \in 1..Len(text'[i]) : text'[i][k] = filed'[new[i + 1] + k]
    <3>1. /\ cut[i] = cut[i + 1] + Len(text[i]) /\ i \in 0..(Files + 1)
          /\ \A k \in 1..Len(text[i]) : text[i][k] = filed[cut[i + 1] + k]
      BY <2>3 DEF LineByLine, Numbers
    <3>2. CASE i = shift
      <4>1. text'[i] = <<>> /\ new[i] = cut[shift] /\ new[i + 1] = cut[shift]
        BY <1>0, <2>4, <2>6, <3>1, <3>2
      <4> QED
        BY <1>0, <2>7, <4>1
    <3>3. CASE i = shift + 1
      <4>1. text'[i] = text[shift] /\ new[i] = cut[shift] /\ new[i + 1] = cut[shift + 1]
        BY <1>0, <2>4, <2>6, <3>1, <3>3
      <4>2. /\ cut[shift] = cut[shift + 1] + Len(text[shift])
            /\ \A k \in 1..Len(text[shift]) : text[shift][k] = filed[cut[shift + 1] + k]
        BY <2>3, <2>5 DEF LineByLine
      <4> QED
        BY <1>0, <4>1, <4>2
    <3>4. CASE i # shift /\ i # shift + 1
      <4>1. text'[i] = text[i] /\ new[i] = cut[i] /\ new[i + 1] = cut[i + 1]
        BY <1>0, <2>4, <2>6, <2>8, <3>1, <3>4
      <4> QED
        BY <1>0, <3>1, <4>1
    <3> QED
      BY <3>2, <3>3, <3>4
  <2>10. new[0] = Len(filed') /\ (new[Files + 2] > 0 => Files + 1 \in present')
    <3>1. new[0] = cut[0]
      BY <1>0, <2>4
    <3>2. shift = Files => Files + 1 \in present'
      BY <2>1
    <3>3. shift # Files => new[Files + 2] = cut[Files + 2]
      BY <1>0, <2>4, <2>8
    <3>4. Files + 1 \in present => Files + 1 \in present'
      BY <1>0, <2>1
    <3> QED
      BY <1>0, <2>3, <3>1, <3>2, <3>3, <3>4 DEF LineByLine
  <2>11. LineByLine(new)'
    BY <2>9, <2>10 DEF LineByLine, Numbers
  <2> QED
    BY <2>4, <2>11, OrderIsNext DEF KeptInOrder
<1> QED
  BY <1>1, <1>2

\* A place in a piece is a place in the whole.
LEMMA Within ==
  ASSUME NEW a \in Nat, NEW l \in Nat, NEW n \in Nat, a + l \in 0..n, NEW k \in 1..l
  PROVE  a + k \in 1..n
OBVIOUS

LEMMA OneMore ==
  ASSUME NEW l \in Nat, NEW k \in 1..(l + 1)
  PROVE  k \in 1..l \/ k = l + 1
OBVIOUS

\* A line that goes to the file is the last of the file and of what was filed.
LEMMA OrderWrite ==
  ASSUME LogInv, LogTypeOK', KeptInOrder, NEW t \in Thread, WriteLine(t)
  PROVE  KeptInOrder'
<1> USE LogLimits
<1>0. /\ LogTypeOK /\ 0 \in Numbers /\ text \in [Numbers -> Text] /\ filed \in Text
      /\ Len(filed) \in Nat /\ Len(text[0]) \in Nat /\ text[0] \in Text
      /\ line[t] \in Line \cup {CannotOpen}
  <2>1. /\ LogTypeOK /\ 0 \in Numbers /\ text \in [Numbers -> Text] /\ filed \in Text
        /\ line[t] \in Line \cup {CannotOpen}
    BY DEF LogInv, LogTypeOK, Numbers
  <2>2. text[0] \in Text
    BY <2>1
  <2> QED
    BY <2>1, <2>2, LenProperties DEF Text
<1>1. CASE ~isOpen
  BY <1>1, OrderStays DEF WriteLine
<1>2. CASE isOpen
  <2>0. Len(filed) \in Nat /\ Len(text[0]) \in Nat
    BY <1>0
  <2>1. text' = [text EXCEPT ![0] = Append(text[0], line[t])] /\ filed' = Append(filed, line[t])
        /\ present' = present
    BY <1>2 DEF WriteLine
  <2>2. PICK cut \in [0..(Files + 2) -> 0..Len(filed)] : InOrder(cut)
    BY DEF KeptInOrder
  <2>3. LineByLine(cut)
    BY <1>0, <2>2, OrderIs
  <2>4. /\ Len(filed') = Len(filed) + 1 /\ filed'[Len(filed) + 1] = line[t]
        /\ \A k \in 1..Len(filed) : filed'[k] = filed[k]
    BY <1>0, <2>1, AppendProperties DEF Text
  <2>5. /\ Len(text'[0]) = Len(text[0]) + 1 /\ text'[0][Len(text[0]) + 1] = line[t]
        /\ \A k \in 1..Len(text[0]) : text'[0][k] = text[0][k]
        /\ \A i \in Numbers \ {0} : text'[i] = text[i]
    <3>1. text'[0] = Append(text[0], line[t]) /\ \A i \in Numbers \ {0} : text'[i] = text[i]
      BY <1>0, <2>1
    <3> QED
      BY <1>0, <3>1, AppendProperties DEF Text
  <2>6. PICK new \in [0..(Files + 2) -> 0..Len(filed')] :
          \A j \in 0..(Files + 2) : new[j] = IF j = 0 THEN Len(filed) + 1 ELSE cut[j]
    <3> DEFINE longer == [j \in 0..(Files + 2) |-> IF j = 0 THEN Len(filed) + 1 ELSE cut[j]]
    <3>1. longer \in [0..(Files + 2) -> 0..Len(filed')]
          /\ \A j \in 0..(Files + 2) : longer[j] = IF j = 0 THEN Len(filed) + 1 ELSE cut[j]
      <4>1. cut \in [0..(Files + 2) -> 0..Len(filed')] /\ Len(filed) + 1 \in 0..Len(filed')
        BY <1>0, <2>2, <2>4
      <4> QED
        BY <4>1
    <3> HIDE DEF longer
    <3> QED
      BY <3>1
  <2>a. Len(filed') = Len(filed) + 1 /\ Len(text'[0]) = Len(text[0]) + 1
    BY <2>4, <2>5
  <2>7. ASSUME NEW i \in Numbers
        PROVE  /\ new[i] = new[i + 1] + Len(text'[i])
               /\ \A k \in 1..Len(text'[i]) : text'[i][k] = filed'[new[i + 1] + k]
    <3>1. cut[i] = cut[i + 1] + Len(text[i]) /\ cut[0] = Len(filed)
      BY <2>3 DEF LineByLine
    <3>2. \A k \in 1..Len(text[i]) : text[i][k] = filed[cut[i + 1] + k]
      BY <2>3 DEF LineByLine
    <3>3. /\ new[i + 1] = cut[i + 1] /\ cut[i + 1] \in Nat /\ Len(text[i]) \in Nat
          /\ cut[i] \in 0..Len(filed)
      <4>1. i \in 0..(Files + 2) /\ i + 1 \in 0..(Files + 2) /\ i + 1 # 0
        BY DEF Numbers
      <4>2. text[i] \in Seq(Line \cup {CannotOpen})
        BY <1>0 DEF Text
      <4> QED
        BY <2>6, <4>1, <4>2, LenProperties
    <3>4. ASSUME NEW k \in 1..Len(text[i]) PROVE text[i][k] = filed'[new[i + 1] + k]
      <4>1. cut[i + 1] + k \in 1..Len(filed)
        BY <2>0, <3>1, <3>3, Within
      <4> QED
        BY <2>4, <3>2, <3>3, <4>1
    <3>5. CASE i = 0
      <4>0. i + 1 = 1 /\ new[0] = Len(filed) + 1
        BY <2>6, <3>5
      <4>1. Len(filed) + 1 = new[1] + (Len(text[0]) + 1)
        <5>1. Len(filed) = new[1] + Len(text[0]) /\ new[1] \in Nat
          BY <3>1, <3>3, <3>5, <4>0
        <5> QED
          BY <2>0, <5>1
      <4>2. ASSUME NEW k \in 1..(Len(text[0]) + 1) PROVE text'[0][k] = filed'[new[1] + k]
        <5>1. CASE k \in 1..Len(text[0])
          <6>1. text[0][k] = filed'[new[1] + k]
            BY <3>4, <3>5, <4>0, <5>1
          <6> QED
            BY <2>5, <5>1, <6>1
        <5>2. CASE k = Len(text[0]) + 1
          BY <2>4, <2>5, <4>1, <5>2
        <5>3. k \in 1..Len(text[0]) \/ k = Len(text[0]) + 1
          BY <2>0, OneMore
        <5> QED
          BY <5>1, <5>2, <5>3
      <4> QED
        BY <2>a, <3>5, <4>0, <4>1, <4>2
    <3>6. CASE i # 0
      <4>1. text'[i] = text[i] /\ new[i] = cut[i]
        BY <2>5, <2>6, <3>6 DEF Numbers
      <4> QED
        BY <3>1, <3>3, <3>4, <4>1
    <3> QED
      BY <3>5, <3>6
  <2>8. new[0] = Len(filed') /\ (new[Files + 2] > 0 => Files + 1 \in present')
    BY <1>0, <2>1, <2>3, <2>4, <2>6 DEF LineByLine
  <2>9. LineByLine(new)'
    BY <2>7, <2>8 DEF LineByLine, Numbers
  <2> QED
    BY <2>6, <2>9, OrderIsNext DEF KeptInOrder
<1> QED
  BY <1>1, <1>2

\* The order of the files, through every step.
LEMMA OrderNext ==
  ASSUME LogInv, LogTypeOK', KeptInOrder, Moved, [LogNext]_logvars
  PROVE  KeptInOrder'
<1>1. ASSUME NEW t \in Thread, Rotate(t) PROVE KeptInOrder'
  BY <1>1, OrderRotate
<1>2. ASSUME NEW t \in Thread, WriteLine(t) PROVE KeptInOrder'
  BY <1>2, OrderWrite
<1>3. CASE \A t \in Thread : ~Rotate(t) /\ ~WriteLine(t)
  <2>1. UNCHANGED <<text, filed>> /\ present \subseteq present'
    BY <1>3 DEF LogNext, LogStep, SetFile, LogDeath, LogCall, AuditLock, AuditAppend, LogLock,
                RotateThrows, Reopen, disk, outputs, logvars
  <2> QED
    BY <2>1, OrderStays
<1> QED
  BY <1>1, <1>2, <1>3

\* What a rotation has looked at is empty: it was renamed, or did not exist.
LEMMA MovedNext ==
  ASSUME LogInv, Moved, [LogNext]_logvars
  PROVE  Moved'
<1> USE LogLimits, ThreadNames
<1> USE DEF Moved, LogMove, disk, outputs, stream, callers
<1>0. LogTypeOK /\ InTheLog /\ Counted
  BY DEF LogInv
<1>1. ASSUME NEW t \in Thread, Rotate(t) PROVE Moved'
  <2>1. /\ \A r \in Thread : inLog[r] = "rotate" => r = t
        /\ shift \in 0..Files
    <3>1. inLog[t] = "rotate" /\ shift <= Files /\ logMutex = t
      BY <1>0, <1>1 DEF InTheLog, Rotate
    <3>2. shift \in 0..(Files + 1)
      BY <1>0 DEF LogTypeOK, Numbers
    <3>3. \A r \in Thread : inLog[r] = "rotate" => r = t
      BY <1>0, <3>1 DEF InTheLog
    <3> QED
      BY <3>1, <3>2, <3>3
  <2>2. \A r \in Thread : inLog'[r] = "rotate" => r = t /\ shift > 0 /\ shift' = shift - 1
    BY <1>0, <1>1, <2>1 DEF Rotate, LogTypeOK
  <2>3. text'[shift] = <<>>
    <3>1. CASE shift \in present
      <4>1. text \in [Numbers -> Text] /\ shift \in Numbers /\ shift # shift + 1
        BY <1>0, <2>1 DEF LogTypeOK, Numbers
      <4> QED
        BY <1>1, <3>1, <4>1 DEF Rotate, Rename
    <3>2. CASE shift \notin present
      BY <1>0, <1>1, <2>1, <3>2 DEF Rotate, Counted, Numbers
    <3> QED
      BY <3>1, <3>2
  <2> QED
    BY <2>1, <2>2, <2>3
<1>2. ASSUME NEW t \in Thread, LogLock(t) PROVE Moved'
  BY <1>0, <1>2 DEF LogLock, LogTypeOK, InTheLog
<1>3. ASSUME NEW t \in Thread, WriteLine(t) PROVE Moved'
  <2>1. \A r \in Thread : inLog'[r] # "rotate"
    BY <1>0, <1>3 DEF WriteLine, Release, LogTypeOK, InTheLog
  <2> QED
    BY <2>1
<1>4. ASSUME NEW t \in Thread, (\E l \in Line : LogCall(t, l)) \/ AuditLock(t) \/ AuditAppend(t)
      PROVE  Moved'
  BY <1>0, <1>4 DEF LogCall, AuditLock, AuditAppend, LogTypeOK
<1>5. ASSUME NEW t \in Thread, RotateThrows(t) \/ Reopen(t) PROVE Moved'
  BY <1>0, <1>5 DEF RotateThrows, Release, Reopen, LogTypeOK
<1>6. CASE SetFile \/ LogDeath \/ UNCHANGED logvars
  BY <1>6 DEF SetFile, LogDeath, logvars
<1> QED
  BY <1>1, <1>2, <1>3, <1>4, <1>5, <1>6 DEF LogNext, LogStep

\* A thread that has audited an event keeps audit_mutex until it has logged it.
LEMMA AuditHeldNext ==
  ASSUME LogInv, AuditHeld, [LogNext]_logvars
  PROVE  AuditHeld'
<1> USE LogNames, ThreadNames
<1> USE DEF AuditHeld, InAudit, LogMove, disk, outputs, stream, callers
<1>0. LogTypeOK /\ InTheLog
  BY DEF LogInv
<1>1. ASSUME NEW t \in Thread, NEW l \in Line, LogCall(t, l) PROVE AuditHeld'
  BY <1>0, <1>1 DEF LogCall, LogTypeOK
<1>2. ASSUME NEW t \in Thread, AuditLock(t) PROVE AuditHeld'
  BY <1>0, <1>2 DEF AuditLock, LogTypeOK, InTheLog
<1>3. ASSUME NEW t \in Thread, AuditAppend(t) PROVE AuditHeld'
  BY <1>0, <1>3 DEF AuditAppend, LogTypeOK, InTheLog
<1>4. ASSUME NEW t \in Thread, LogLock(t) \/ Rotate(t) \/ Reopen(t) PROVE AuditHeld'
  BY <1>0, <1>4 DEF LogLock, Rotate, Reopen, LogTypeOK
<1>5. ASSUME NEW t \in Thread, RotateThrows(t) \/ WriteLine(t) PROVE AuditHeld'
  BY <1>0, <1>5 DEF RotateThrows, WriteLine, Release, LogTypeOK
<1>6. CASE SetFile \/ LogDeath \/ UNCHANGED logvars
  BY <1>6 DEF SetFile, LogDeath, logvars
<1> QED
  BY <1>1, <1>2, <1>3, <1>4, <1>5, <1>6 DEF LogNext, LogStep

\* Neither the audit file nor what was logged changes, and no event is waiting
\* to be logged that was not.
LEMMA TrailStays ==
  ASSUME AuditTrail, UNCHANGED <<auditFile, written>>,
         \A r \in Thread : Pending(r)' => Pending(r) /\ line'[r] = line[r]
  PROVE  AuditTrail'
<1>1. PICK where \in [Events -> 1..Len(auditFile)] :
        /\ InTrail(where)
        /\ \A r \in Thread : Pending(r) =>
             /\ Len(auditFile) > 0 /\ auditFile[Len(auditFile)] = line[r]
             /\ \A k \in Events : where[k] < Len(auditFile)
  BY DEF AuditTrail
<1>2. Events' = Events
  BY DEF Events
<1>3. InTrail(where)'
  BY <1>1, <1>2 DEF InTrail
<1> QED
  BY <1>1, <1>2, <1>3 DEF AuditTrail

\* An event that is audited is the last of the audit file, and not yet logged.
LEMMA TrailAppend ==
  ASSUME LogInv, LogTypeOK', AuditHeld, AuditTrail, NEW t \in Thread, AuditAppend(t)
  PROVE  AuditTrail'
<1> USE LogNames
<1>0. /\ LogTypeOK /\ inLog[t] = "append" /\ line[t] \in Audited /\ written' = written
      /\ inLog' = [inLog EXCEPT ![t] = "log"]
  BY DEF LogInv, InTheLog, AuditAppend, LogMove, outputs
<1>1. \A r \in Thread : InAudit(r) => r = t
  BY <1>0 DEF AuditHeld, InAudit
<1>2. CASE line' = [line EXCEPT ![t] = CannotOpen] /\ auditFile' = auditFile
  <2>1. \A r \in Thread : Pending(r)' => Pending(r) /\ line'[r] = line[r]
    BY <1>0, <1>2 DEF Pending, InAudit, LogTypeOK
  <2> QED
    BY <1>0, <1>2, <2>1, TrailStays
<1>3. CASE auditFile' = Append(auditFile, line[t]) /\ line' = line
  <2>1. /\ Len(auditFile) \in Nat /\ Len(auditFile') = Len(auditFile) + 1
        /\ auditFile'[Len(auditFile')] = line[t]
        /\ \A k \in 1..Len(auditFile) : auditFile'[k] = auditFile[k]
    BY <1>0, <1>3, LenProperties, AppendProperties DEF LogTypeOK
  <2>2. PICK where \in [Events -> 1..Len(auditFile)] : InTrail(where)
    BY DEF AuditTrail
  <2>3. Events' = Events
    BY <1>0 DEF Events
  <2>4. \A k \in Events : where[k] \in 1..Len(auditFile)
    BY <2>2
  <2>5. where \in [Events' -> 1..Len(auditFile')]
    BY <2>1, <2>2, <2>3
  <2>6. InTrail(where)'
    BY <1>0, <2>1, <2>2, <2>3, <2>4 DEF InTrail
  <2>7. \A r \in Thread : Pending(r)' => line'[r] = line[t]
    BY <1>0, <1>1, <1>3 DEF Pending, InAudit, LogTypeOK
  <2>8. \A k \in Events' : where[k] < Len(auditFile')
    BY <2>1, <2>3, <2>4
  <2> QED
    BY <2>1, <2>5, <2>6, <2>7, <2>8 DEF AuditTrail
<1> QED
  BY <1>2, <1>3 DEF AuditAppend

\* The event that is logged is the last of the audit file.
LEMMA TrailWrite ==
  ASSUME LogInv, LogTypeOK', AuditHeld, AuditTrail, NEW t \in Thread, WriteLine(t)
  PROVE  AuditTrail'
<1>0. /\ LogTypeOK /\ inLog[t] = "write" /\ auditFile' = auditFile /\ line' = line
      /\ written' = Append(written, line[t]) /\ inLog' = [inLog EXCEPT ![t] = "idle"]
  BY DEF LogInv, WriteLine, Release
<1>1. /\ Len(written) \in Nat /\ Len(written') = Len(written) + 1 /\ Len(auditFile) \in Nat
      /\ written'[Len(written) + 1] = line[t]
      /\ \A k \in 1..Len(written) : written'[k] = written[k]
  BY <1>0, LenProperties, AppendProperties DEF LogTypeOK, Text
<1>2. /\ Events \subseteq 1..Len(written)
      /\ Events' = Events \cup {k \in {Len(written) + 1} : line[t] \in Audited}
  BY <1>1 DEF Events
<1>3. PICK where \in [Events -> 1..Len(auditFile)] :
        /\ InTrail(where)
        /\ \A r \in Thread : Pending(r) =>
             /\ Len(auditFile) > 0 /\ auditFile[Len(auditFile)] = line[r]
             /\ \A k \in Events : where[k] < Len(auditFile)
  BY DEF AuditTrail
<1>4. CASE line[t] \notin Audited
  <2>1. Events' = Events
    BY <1>2, <1>4
  <2>2. InTrail(where)'
    BY <1>0, <1>1, <1>2, <1>3, <2>1 DEF InTrail
  <2>3. \A r \in Thread : Pending(r)' => Pending(r) /\ line'[r] = line[r]
    BY <1>0 DEF Pending, InAudit, LogTypeOK
  <2> QED
    BY <1>0, <1>3, <2>1, <2>2, <2>3 DEF AuditTrail
<1>5. CASE line[t] \in Audited
  <2>1. Pending(t)
    BY <1>0, <1>5 DEF Pending, InAudit
  <2>2. /\ Len(auditFile) > 0 /\ auditFile[Len(auditFile)] = line[t]
        /\ \A k \in Events : where[k] < Len(auditFile)
    BY <1>3, <2>1
  <2>3. Events' = Events \cup {Len(written) + 1}
    BY <1>2, <1>5
  <2>4. PICK new \in [Events' -> 1..Len(auditFile')] :
          \A k \in Events' : new[k] = IF k = Len(written) + 1 THEN Len(auditFile) ELSE where[k]
    <3> DEFINE longer == [k \in Events' |->
                            IF k = Len(written) + 1 THEN Len(auditFile) ELSE where[k]]
    <3>1. longer \in [Events' -> 1..Len(auditFile')]
      BY <1>0, <1>1, <1>3, <2>2, <2>3
    <3> QED
      BY <3>1
  <2>5. \A k \in Events : new[k] = where[k] /\ k < Len(written) + 1
    BY <1>1, <1>2, <2>3, <2>4
  <2>6. new[Len(written) + 1] = Len(auditFile)
    BY <2>3, <2>4
  <2>7. \A k \in Events' : auditFile'[new[k]] = written'[k]
    BY <1>0, <1>1, <1>2, <1>3, <2>2, <2>3, <2>5, <2>6 DEF InTrail
  <2>8. \A k, l \in Events' : k < l => new[k] < new[l]
    BY <1>1, <1>2, <1>3, <2>2, <2>3, <2>5, <2>6 DEF InTrail
  <2>9. \A r \in Thread : ~Pending(r)'
    <3>1. \A r \in Thread : InAudit(r) => r = t
      BY <2>1 DEF AuditHeld, Pending
    <3> QED
      BY <1>0, <3>1 DEF Pending, InAudit, LogTypeOK
  <2> QED
    BY <2>4, <2>7, <2>8, <2>9 DEF AuditTrail, InTrail
<1> QED
  BY <1>4, <1>5

\* The two logs agree, through every step.
LEMMA TrailNext ==
  ASSUME LogInv, LogTypeOK', AuditHeld, AuditTrail, [LogNext]_logvars
  PROVE  AuditTrail'
<1> USE DEF LogMove, disk, outputs, stream, callers
<1> DEFINE Same == /\ UNCHANGED <<auditFile, written>>
                   /\ \A r \in Thread : Pending(r)' => Pending(r) /\ line'[r] = line[r]
<1>0. LogTypeOK
  BY DEF LogInv
<1>1. ASSUME NEW t \in Thread, AuditAppend(t) PROVE AuditTrail'
  BY <1>1, TrailAppend
<1>2. ASSUME NEW t \in Thread, WriteLine(t) PROVE AuditTrail'
  BY <1>2, TrailWrite
<1>3. ASSUME NEW t \in Thread, NEW l \in Line, LogCall(t, l) PROVE Same
  BY <1>0, <1>3 DEF LogCall, Pending, InAudit, LogTypeOK
<1>4. ASSUME NEW t \in Thread, AuditLock(t) PROVE Same
  BY <1>0, <1>4 DEF AuditLock, Pending, InAudit, LogTypeOK
<1>5. ASSUME NEW t \in Thread, LogLock(t) \/ Rotate(t) \/ Reopen(t) PROVE Same
  BY <1>0, <1>5 DEF LogLock, Rotate, Reopen, Pending, InAudit, LogTypeOK
<1>6. ASSUME NEW t \in Thread, RotateThrows(t) PROVE Same
  BY <1>0, <1>6 DEF RotateThrows, Release, Pending, InAudit, LogTypeOK
<1>7. CASE SetFile \/ LogDeath \/ UNCHANGED logvars
  <2>1. Same
    BY <1>7 DEF SetFile, LogDeath, logvars, Pending, InAudit
  <2> QED
    BY <2>1, TrailStays
<1> QED
  BY <1>1, <1>2, <1>3, <1>4, <1>5, <1>6, <1>7, TrailStays DEF LogNext, LogStep

\* At the start nothing was filed, and nothing audited.
LEMMA LogOrderInit == LogInit => LogIInv
<1> SUFFICES ASSUME LogInit PROVE LogIInv
  OBVIOUS
<1> USE LogLimits
<1>1. LogInv
  BY LogInvInit
<1>2. KeptInOrder
  <2> DEFINE cut == [j \in 0..(Files + 2) |-> 0]
  <2>1. cut \in [0..(Files + 2) -> 0..Len(filed)]
    BY DEF LogInit
  <2>2. LineByLine(cut)
    BY DEF LogInit, LineByLine, Numbers
  <2> QED
    BY <1>1, <2>1, <2>2, OrderIs DEF KeptInOrder, LogInv
<1>3. Moved /\ AuditHeld
  BY DEF LogInit, Moved, AuditHeld, InAudit
<1>4. AuditTrail
  <2>1. Events = {} /\ \A t \in Thread : ~Pending(t)
    BY DEF LogInit, Events, Pending, InAudit
  <2>2. [k \in {} |-> 1] \in [Events -> 1..Len(auditFile)]
    BY <2>1
  <2> QED
    BY <2>1, <2>2 DEF AuditTrail, InTrail
<1> QED
  BY <1>1, <1>2, <1>3, <1>4 DEF LogIInv

\* The order of the log and of the audit file, with what a rotation and an
\* audited event are in the midst of, through every step.
THEOREM LogOrderInvariant == LogSpec => []LogIInv
<1> DEFINE Rest == KeptInOrder /\ Moved /\ AuditHeld /\ AuditTrail
<1>1. LogInit => Rest
  BY LogOrderInit DEF LogIInv
<1>2. LogInv /\ LogInv' /\ Rest /\ [LogNext]_logvars => Rest'
  BY OrderNext, MovedNext, AuditHeldNext, TrailNext DEF LogInv
<1>3. LogInv /\ Rest => LogIInv
  BY DEF LogIInv
<1> HIDE DEF Rest
<1> QED
  BY LogInvariant, <1>1, <1>2, <1>3, PTL DEF LogSpec

\* Read from the oldest to the newest, the files are the last lines that went
\* to a file, none missing in between and none twice, whatever rename fails and
\* whenever the process dies (rotateIfNeeded).
THEOREM LogKeptInOrder == LogSpec => []KeptInOrder
<1>1. LogIInv => KeptInOrder
  BY DEF LogIInv
<1> QED
  BY LogOrderInvariant, <1>1, PTL

\* The log tells of the audited events in the order of the audit file, and of
\* none that is not there (writeLog).
THEOREM LogAuditedInOrder == LogSpec => []AuditedInOrder
<1>1. LogIInv => AuditedInOrder
  BY DEF LogIInv, AuditTrail, AuditedInOrder
<1> QED
  BY LogOrderInvariant, <1>1, PTL
=============================================================================
