------------------------------ MODULE HaQueue ------------------------------
(***************************************************************************)
(* The queue drained under the leader lock: MailQueue composed with        *)
(* src/ha/ha_controller.cpp and src/ha/leader_election.cpp.  Each process  *)
(* has one HaController, whose thread calls RetryWorker::runOnce when it   *)
(* holds queue-leader.lock, a file opened without sharing that the         *)
(* operating system releases when the process ends.                        *)
(***************************************************************************)
EXTENDS MailQueue

CONSTANT NoNode  \* nobody holds the lock

ASSUME NoNodeAssumption == NoNode \notin Node

VARIABLES
  lock,      \* the process whose LeaderElection holds the lock file
  running,   \* running[n]: HaController::running_
  alive,     \* alive[n]: the controller's thread has not been joined
  leader     \* leader[n]: HaController::leader_, what isLeader() returns

ha     == <<lock, running, alive, leader>>
havars == <<vars, ha>>

HaTypeOK ==
  /\ TypeOK
  /\ lock \in Node \cup {NoNode}
  /\ running \in [Node -> BOOLEAN]
  /\ alive \in [Node -> BOOLEAN]
  /\ leader \in [Node -> BOOLEAN]

HaInit ==
  /\ Init
  /\ lock = NoNode
  /\ running = [n \in Node |-> FALSE]
  /\ alive = [n \in Node |-> FALSE]
  /\ leader = [n \in Node |-> FALSE]

-----------------------------------------------------------------------------
\* HaController::start
StartController(n) ==
  /\ Up(n) /\ ~running[n] /\ ~alive[n]
  /\ running' = [running EXCEPT ![n] = TRUE]
  /\ alive' = [alive EXCEPT ![n] = TRUE]
  /\ UNCHANGED <<vars, lock, leader>>

\* HaController::stop, up to the join.
RequestStop(n) ==
  /\ running[n]
  /\ running' = [running EXCEPT ![n] = FALSE]
  /\ UNCHANGED <<vars, lock, alive, leader>>

\* Fault: the lock is released without waiting for the thread.
StopController_NoJoin(n) ==
  /\ alive[n] /\ ~running[n]
  /\ alive' = [alive EXCEPT ![n] = FALSE]
  /\ lock' = IF lock = n THEN NoNode ELSE lock
  /\ UNCHANGED <<vars, running, leader>>

\* The thread sees running_ false between two passes and ends; stop() joins
\* it and releases the lock.  Nobody resets leader_.
StopController(n) ==
  /\ alive[n] /\ ~running[n] /\ pc[n] = "idle"
  /\ alive' = [alive EXCEPT ![n] = FALSE]
  /\ lock' = IF lock = n THEN NoNode ELSE lock
  /\ UNCHANGED <<vars, running, leader>>

\* Fault: the lock file is opened for sharing.
Lead_Shared(n) ==
  /\ alive[n] /\ running[n]
  /\ lock' = n
  /\ leader' = [leader EXCEPT ![n] = TRUE]
  /\ BeginPass(n)
  /\ UNCHANGED <<running, alive>>

\* tryBecomeLeader succeeds, at once for a process that holds the lock, and
\* the controller calls runOnce.
Lead(n) ==
  /\ alive[n] /\ running[n]
  /\ lock \in {n, NoNode}
  /\ lock' = n
  /\ leader' = [leader EXCEPT ![n] = TRUE]
  /\ BeginPass(n)
  /\ UNCHANGED <<running, alive>>

\* tryBecomeLeader fails: another process holds the lock file, or the file
\* cannot be opened this time.
Follow(n) ==
  /\ alive[n] /\ running[n] /\ pc[n] = "idle"
  /\ lock # n
  /\ leader' = [leader EXCEPT ![n] = FALSE]
  /\ UNCHANGED <<vars, lock, running, alive>>

\* The process ends: the system closes its handle on the lock file.
ProcessGone(n) ==
  /\ lock' = IF lock = n THEN NoNode ELSE lock
  /\ running' = [running EXCEPT ![n] = FALSE]
  /\ alive' = [alive EXCEPT ![n] = FALSE]
  /\ leader' = [leader EXCEPT ![n] = FALSE]

HaDeath(n) == Death(n) /\ ProcessGone(n)

\* The steps of the controller's thread.
Thread(n) ==
  \/ Lead(n) \/ Follow(n) \/ StopController(n)
  \/ (Recover(n) \/ PassStep(n)) /\ UNCHANGED ha

HaNext ==
  \/ \E m \in Msg : (Enqueue(m) \/ Age(m)) /\ UNCHANGED ha
  \/ \E n \in Node :
       \/ Start(n) /\ UNCHANGED ha
       \/ Thread(n)
       \/ HaDeath(n)
       \/ StartController(n) \/ RequestStop(n)

HaSpec == HaInit /\ [][HaNext]_havars

\* Threads are scheduled, time passes.  Nothing is assumed of the operator
\* (StartController, RequestStop, Start) nor of failures.
HaFairSpec ==
  /\ HaSpec
  /\ \A n \in Node : WF_havars(Thread(n))
  /\ \A m \in Msg : WF_havars(Enqueue(m) /\ UNCHANGED ha)
                    /\ WF_havars(Age(m) /\ UNCHANGED ha)

-----------------------------------------------------------------------------
(* What the lock adds to the queue.                                        *)

Holding == {"open", "deliver", "awaiting", "mark"}

\* Passes exclude each other across the processes: a process inside runOnce
\* holds the lock file, also while another one starts, stops or dies.
PassNeedsLock == \A n \in Node : pc[n] \in PassPcs => lock = n

\* The message a worker is delivering stays leased to it: no other pass
\* reclaims it although its file is older than the lease time-out.
LeaseKept == \A n \in Node : pc[n] \in Holding => cur[n] \in inflight

\* No pass meets a lease that vanished while it was listing queue/inflight,
\* so last_write_time does not throw and end the process.
NoVanishedLease ==
  \A n \in Node : pc[n] = "reclaim" => todo[n] \subseteq inflight

\* Every copy beyond the first that the remote host accepts is paid for by
\* a process that died or a file system call that failed.
DuplicateNeedsFault == \A m \in Msg : accepted[m] <= 1 + faults

\* The strengthening of these: who may be in a pass, what a pass knows of
\* the file it works on, and how many copies have been paid for already.
LockDiscipline(n) ==
  /\ pc[n] \in PassPcs => lock = n /\ alive[n]
  /\ lock = n => alive[n]
  /\ running[n] => alive[n]
  /\ alive[n] => Up(n)

Leased(n) ==
  /\ pc[n] \in {"reclaim", "reclaiming"} => todo[n] \subseteq inflight
  /\ pc[n] = "reclaiming" => cur[n] \in inflight \ todo[n]
  /\ pc[n] \in Holding => cur[n] \in inflight

\* A worker between the remote host's acceptance and the mark owes the queue
\* one departure; for every other message that may still be sent, each copy
\* was matched by a fault.
Owes(n, m) == pc[n] \in {"awaiting", "mark"} /\ cur[n] = m

Paid(m) ==
  /\ enq[m] \in {"new", "checked", "open", "closed"} => accepted[m] = 0
  /\ m \in active \cup inflight => accepted[m] <= faults \/ \E n \in Node : Owes(n, m)

HaInv ==
  /\ HaTypeOK /\ QueueInv
  /\ \A n \in Node : LockDiscipline(n) /\ Leased(n)
  /\ \A m \in Msg : Paid(m)
  /\ DuplicateNeedsFault

\* With a controller that keeps running somewhere, a queued message leaves
\* active/ and inflight/: delivered, parked or rejected, also when the
\* worker that leased it died.
QueueDrains ==
  (\E n \in Node : <>[]running[n])
    => \A m \in Msg : m \in active \cup inflight ~> m \notin active \cup inflight

\* A message that failed temporarily is tried again ("will retry later").
FailureRetried ==
  (\E n \in Node : <>[]running[n])
    => \A m \in Msg : m \in failure ~> m \notin failure

\* HaQueue implements the promise of DurableQueue.
StatusOf(m) ==
  IF m \in active \cup inflight THEN "queued"
  ELSE IF m \in failure THEN "parked"
  ELSE IF m \in permanent THEN "rejected"
  ELSE IF accepted[m] > 0 THEN "done"
  ELSE "absent"

AnswerOf(m) ==
  IF enq[m] = "acked" THEN "ok"
  ELSE IF enq[m] = "failed" THEN "error"
  ELSE "none"

Durable == INSTANCE DurableQueue WITH
  status <- [m \in Msg |-> StatusOf(m)],
  answer <- [m \in Msg |-> AnswerOf(m)],
  copies <- accepted

ImplementsDurable == Durable!AbsSpec
=============================================================================
