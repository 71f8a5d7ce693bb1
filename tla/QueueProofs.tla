----------------------------- MODULE QueueProofs -----------------------------
(***************************************************************************)
(* Proofs about MailQueue and HaQueue, for any messages, processes and     *)
(* bounds.  The inductive invariant of MailQueue, with any number of       *)
(* workers and no leader lock, is QueueInv: NoLoss alone is not inductive, *)
(* for it must be known that a file is renamed into active/ only by a call *)
(* that has flushed it, that the file is in one place only, and that a     *)
(* worker about to remove the file has had a copy accepted.                *)
(*                                                                         *)
(* HaInv extends it, and its proof is reused step by step: every step of   *)
(* HaQueue is a step of MailQueue or leaves it unchanged.  What is new is  *)
(* the lock: a process inside a pass holds it, so the file a worker leased *)
(* stays where the worker put it.                                          *)
(***************************************************************************)
EXTENDS HaQueue, TLAPS

-----------------------------------------------------------------------------
(* The queue without a lock.                                               *)

\* The empty queue, before any process runs, satisfies the invariant.
LEMMA QueueInvInit == Init => QueueInv
BY MsgAssumption, NodeAssumption, BoundsAssumption
   DEF Init, QueueInv, TypeOK, SinglePlace, OnlyComplete, Placed, Held, Stored,
       EnqStates, Pcs, PassPcs, Results

\* The steps of enqueue, and the passing of time.
LEMMA EnqueueKeepsInv ==
  ASSUME QueueInv, NEW m \in Msg, Enqueue(m) \/ Age(m)
  PROVE  QueueInv'
<1> USE MsgAssumption, NodeAssumption, BoundsAssumption
        DEF QueueInv, TypeOK, SinglePlace, OnlyComplete, Placed, Held, Stored,
            EnqStates, Pcs, PassPcs, Results, files, dirs, worker
<1>1. CASE CheckDepth(m)
  BY <1>1 DEF CheckDepth, EnqGo
<1>2. CASE CreateTemp(m)
  BY <1>2 DEF CreateTemp, EnqGo
<1>3. CASE CreateTempFails(m)
  BY <1>3 DEF CreateTempFails, EnqGo
<1>4. CASE WriteTemp(m)
  BY <1>4 DEF WriteTemp, EnqGo
<1>5. CASE WriteTempFails(m)
  BY <1>5 DEF WriteTempFails, EnqGo
<1>6. CASE RenameTemp(m)
  BY <1>6 DEF RenameTemp, EnqGo
<1>7. CASE RenameTempFails(m)
  BY <1>7 DEF RenameTempFails, EnqGo
<1>8. CASE VerifyFinal(m)
  BY <1>8 DEF VerifyFinal, EnqGo
<1>9. CASE Age(m)
  BY <1>9 DEF Age
<1> QED BY <1>1, <1>2, <1>3, <1>4, <1>5, <1>6, <1>7, <1>8, <1>9 DEF Enqueue

\* A process starts, recovers temporary files, begins a pass or dies.
LEMMA ProcessKeepsInv ==
  ASSUME QueueInv, NEW n \in Node, Start(n) \/ Recover(n) \/ BeginPass(n) \/ Death(n)
  PROVE  QueueInv'
<1> USE MsgAssumption, NodeAssumption, BoundsAssumption
        DEF QueueInv, TypeOK, SinglePlace, OnlyComplete, Placed, Held, Stored,
            EnqStates, Pcs, PassPcs, Results, files, dirs, worker
<1>1. CASE Start(n)
  BY <1>1 DEF Start
<1>2. ASSUME NEW m \in Msg, RemoveOrphan(n, m) PROVE QueueInv'
  BY <1>2 DEF RemoveOrphan
<1>3. CASE Constructed(n)
  BY <1>3 DEF Constructed
<1>4. CASE BeginPass(n)
  BY <1>4 DEF BeginPass, Go
<1>5. CASE Crash(n)
  BY <1>5 DEF Crash, Die, InEnqueue
<1>6. ASSUME NEW m \in Msg, VanishedLease(n, m) PROVE QueueInv'
  BY <1>6 DEF VanishedLease, Die, InEnqueue
<1> QED BY <1>1, <1>2, <1>3, <1>4, <1>5, <1>6 DEF Recover, Death

\* fetchReady reclaims and leases.
LEMMA FetchKeepsInv ==
  ASSUME QueueInv, NEW n \in Node, FetchReady(n)
  PROVE  QueueInv'
<1> USE MsgAssumption, NodeAssumption, BoundsAssumption
        DEF QueueInv, TypeOK, SinglePlace, OnlyComplete, Placed, Held, Stored,
            EnqStates, Pcs, PassPcs, Results, files, dirs, worker, Go, NextFile
<1>1. ASSUME NEW m \in Msg, FindExpired(n, m) PROVE QueueInv'
  BY <1>1 DEF FindExpired
<1>2. ASSUME NEW m \in Msg, SkipLive(n, m) PROVE QueueInv'
  BY <1>2 DEF SkipLive
<1>3. ASSUME NEW m \in Msg, SkipLeased(n, m) PROVE QueueInv'
  BY <1>3 DEF SkipLeased
<1>4. ASSUME NEW m \in Msg, PickReady(n, m) PROVE QueueInv'
  BY <1>4 DEF PickReady
<1>5. CASE Reclaim(n)
  BY <1>5 DEF Reclaim
<1>6. CASE ReclaimFails(n)
  BY <1>6 DEF ReclaimFails
<1>7. CASE OpenActive(n)
  BY <1>7 DEF OpenActive
<1>8. CASE Lease(n)
  BY <1>8 DEF Lease
<1>9. CASE LeaseFails(n)
  BY <1>9 DEF LeaseFails
<1>10. CASE NothingReady(n)
  BY <1>10 DEF NothingReady
<1>11. CASE ReadLeased(n)
  BY <1>11 DEF ReadLeased
<1>12. CASE LeaseVanished(n)
  BY <1>12 DEF LeaseVanished
<1>13. CASE OpenFails(n)
  BY <1>13 DEF OpenFails
<1>14. CASE ReadNothing(n)
  BY <1>14 DEF ReadNothing
<1> QED
  BY <1>1, <1>2, <1>3, <1>4, <1>5, <1>6, <1>7, <1>8, <1>9, <1>10, <1>11, <1>12, <1>13, <1>14
  DEF FetchReady

\* The delivery and the marking of its result.
LEMMA AttemptKeepsInv ==
  ASSUME QueueInv, NEW n \in Node, Deliver(n) \/ Mark(n)
  PROVE  QueueInv'
<1> USE MsgAssumption, NodeAssumption, BoundsAssumption
        DEF QueueInv, TypeOK, SinglePlace, OnlyComplete, Placed, Held, Stored,
            EnqStates, Pcs, PassPcs, Results, files, dirs, worker, Go, Result
<1>1. CASE RemoteAccepts(n)
  BY <1>1 DEF RemoteAccepts
<1>2. CASE DeliverFails(n)
  BY <1>2 DEF DeliverFails
<1>3. CASE ReplyRead(n)
  BY <1>3 DEF ReplyRead
<1>4. CASE ReplyLost(n)
  BY <1>4 DEF ReplyLost
<1>5. CASE MarkSuccess(n)
  BY <1>5 DEF MarkSuccess
<1>6. CASE MarkTempFail(n)
  BY <1>6 DEF MarkTempFail
<1>7. CASE MarkPermFail(n)
  BY <1>7 DEF MarkPermFail
<1>8. CASE MarkFails(n)
  BY <1>8 DEF MarkFails
<1>9. CASE SubmitScan(n)
  BY <1>9 DEF SubmitScan
<1> QED
  BY <1>1, <1>2, <1>3, <1>4, <1>5, <1>6, <1>7, <1>8, <1>9
  DEF Deliver, Mark

\* Every step, and stuttering.
LEMMA QueueInvStep == QueueInv /\ [Next]_vars => QueueInv'
<1> SUFFICES ASSUME QueueInv, [Next]_vars PROVE QueueInv'
  OBVIOUS
<1>1. ASSUME NEW m \in Msg, Enqueue(m) \/ Age(m) PROVE QueueInv'
  BY <1>1, EnqueueKeepsInv
<1>2. ASSUME NEW n \in Node, NodeStep(n) PROVE QueueInv'
  BY <1>2, ProcessKeepsInv, FetchKeepsInv, AttemptKeepsInv DEF NodeStep, PassStep
<1>3. CASE UNCHANGED vars
  BY <1>3 DEF vars, files, dirs, worker, QueueInv, TypeOK, SinglePlace,
              OnlyComplete, Placed, Held, Stored
<1> QED BY <1>1, <1>2, <1>3 DEF Next

\* The inductive invariant holds in every reachable state.
THEOREM QueueInvariant == Spec => []QueueInv
BY QueueInvInit, QueueInvStep, PTL DEF Spec

\* Every variable keeps its type.
THEOREM QueueTypes == Spec => []TypeOK
<1>1. QueueInv => TypeOK
  BY DEF QueueInv
<1> QED BY <1>1, QueueInvariant, PTL

\* An acknowledged message is never lost: in one of the directories, or
\* accepted by the remote host.
THEOREM QueueNoLoss == Spec => []NoLoss
<1>1. QueueInv => NoLoss
  BY DEF QueueInv, Placed, NoLoss
<1> QED BY <1>1, QueueInvariant, PTL

\* A message is never in two directories at once.
THEOREM QueueSinglePlace == Spec => []SinglePlace
<1>1. QueueInv => SinglePlace
  BY DEF QueueInv
<1> QED BY <1>1, QueueInvariant, PTL

\* A worker never sees a file that was not flushed to its last byte.
THEOREM QueueOnlyComplete == Spec => []OnlyComplete
<1>1. QueueInv => OnlyComplete
  BY DEF QueueInv
<1> QED BY <1>1, QueueInvariant, PTL

-----------------------------------------------------------------------------
(* The queue with the election.                                            *)

\* Before any controller starts, with the queue empty, HaInv holds.
LEMMA HaInvInit == HaInit => HaInv
<1> SUFFICES ASSUME HaInit PROVE HaInv
  OBVIOUS
<1>1. QueueInv
  BY QueueInvInit DEF HaInit
<1> QED
  BY <1>1, MsgAssumption, NodeAssumption, BoundsAssumption, NoNodeAssumption
  DEF HaInit, Init, HaInv, HaTypeOK, QueueInv, LockDiscipline, Leased, Holding, Paid,
      DuplicateNeedsFault, PassPcs, Up

\* A step of HaQueue takes MailQueue from a good state to a good state.
LEMMA HaKeepsQueueInv == QueueInv /\ [HaNext]_havars => QueueInv'
<1> SUFFICES ASSUME QueueInv, [HaNext]_havars PROVE QueueInv'
  OBVIOUS
<1>1. [Next]_vars
  BY DEF HaNext, havars, Next, NodeStep, HaDeath, Thread, Lead, Follow,
         StopController, StartController, RequestStop
<1> QED BY <1>1, QueueInvStep

\* enqueue and time: the files move only from tmp/ into active/.
LEMMA EnqueueKeepsHa ==
  ASSUME HaInv, QueueInv', UNCHANGED ha, NEW m \in Msg, Enqueue(m) \/ Age(m)
  PROVE  HaInv'
<1> USE MsgAssumption, NodeAssumption, BoundsAssumption, NoNodeAssumption
        DEF HaInv, HaTypeOK, LockDiscipline, Leased, Holding, Paid, Owes, DuplicateNeedsFault,
            ha, vars, files, dirs, worker, PassPcs, Up, TypeOK, Placed, Stored, Go, EnqGo, QueueInv, SinglePlace
<1>1. CASE CheckDepth(m)
  BY <1>1 DEF CheckDepth
<1>2. CASE CreateTemp(m)
  BY <1>2 DEF CreateTemp
<1>3. CASE CreateTempFails(m)
  BY <1>3 DEF CreateTempFails
<1>4. CASE WriteTemp(m)
  BY <1>4 DEF WriteTemp
<1>5. CASE WriteTempFails(m)
  BY <1>5 DEF WriteTempFails
<1>6. CASE RenameTemp(m)
  BY <1>6 DEF RenameTemp
<1>7. CASE RenameTempFails(m)
  BY <1>7 DEF RenameTempFails
<1>8. CASE VerifyFinal(m)
  BY <1>8 DEF VerifyFinal
<1>9. CASE Age(m)
  BY <1>9 DEF Age
<1> QED BY <1>1, <1>2, <1>3, <1>4, <1>5, <1>6, <1>7, <1>8, <1>9 DEF Enqueue

\* A process starts, recovers temporary files, or dies and drops the lock.
LEMMA ProcessKeepsHa ==
  ASSUME HaInv, QueueInv', NEW n \in Node,
         ((Start(n) \/ Recover(n)) /\ UNCHANGED ha) \/ HaDeath(n)
  PROVE  HaInv'
<1> USE MsgAssumption, NodeAssumption, BoundsAssumption, NoNodeAssumption
        DEF HaInv, HaTypeOK, LockDiscipline, Leased, Holding, Paid, Owes, DuplicateNeedsFault,
            ha, vars, files, dirs, worker, PassPcs, Up, TypeOK, Placed, Stored, Go
<1>1. CASE Start(n) /\ UNCHANGED ha
  BY <1>1 DEF Start, QueueInv
<1>2. ASSUME NEW m \in Msg, RemoveOrphan(n, m), UNCHANGED ha PROVE HaInv'
  BY <1>2 DEF RemoveOrphan, QueueInv
<1>3. CASE Constructed(n) /\ UNCHANGED ha
  BY <1>3 DEF Constructed, QueueInv
<1>4. CASE Crash(n) /\ ProcessGone(n)
  BY <1>4 DEF Crash, Die, InEnqueue, ProcessGone, QueueInv
<1>5. ASSUME NEW m \in Msg, VanishedLease(n, m) PROVE FALSE
  BY <1>5 DEF VanishedLease
<1> QED BY <1>1, <1>2, <1>3, <1>4, <1>5 DEF Recover, HaDeath, Death

\* The controller: start, stop, election.
LEMMA ControllerKeepsHa ==
  ASSUME HaInv, QueueInv', NEW n \in Node,
         StartController(n) \/ RequestStop(n) \/ StopController(n) \/ Lead(n) \/ Follow(n)
  PROVE  HaInv'
<1> USE MsgAssumption, NodeAssumption, BoundsAssumption, NoNodeAssumption
        DEF HaInv, HaTypeOK, LockDiscipline, Leased, Holding, Paid, Owes, DuplicateNeedsFault,
            ha, vars, files, dirs, worker, PassPcs, Up, TypeOK, Placed, Stored, Go
<1>1. CASE StartController(n)
  BY <1>1 DEF StartController, QueueInv
<1>2. CASE RequestStop(n)
  BY <1>2 DEF RequestStop, QueueInv
<1>3. CASE StopController(n)
  BY <1>3 DEF StopController, QueueInv
<1>4. CASE Lead(n)
  BY <1>4 DEF Lead, QueueInv, BeginPass
<1>5. CASE Follow(n)
  BY <1>5 DEF Follow, QueueInv
<1> QED BY <1>1, <1>2, <1>3, <1>4, <1>5

\* fetchReady: only the holder of the lock touches inflight/.
LEMMA FetchKeepsHa ==
  ASSUME HaInv, QueueInv', UNCHANGED ha, NEW n \in Node, FetchReady(n)
  PROVE  HaInv'
<1> USE MsgAssumption, NodeAssumption, BoundsAssumption, NoNodeAssumption
        DEF HaInv, HaTypeOK, LockDiscipline, Leased, Holding, Paid, Owes, DuplicateNeedsFault,
            ha, vars, files, dirs, worker, PassPcs, Up, TypeOK, Placed, Stored, Go, NextFile, QueueInv, SinglePlace
<1>1. ASSUME NEW m \in Msg, FindExpired(n, m) PROVE HaInv'
  BY <1>1 DEF FindExpired
<1>2. ASSUME NEW m \in Msg, SkipLive(n, m) PROVE HaInv'
  BY <1>2 DEF SkipLive
<1>3. ASSUME NEW m \in Msg, SkipLeased(n, m) PROVE HaInv'
  BY <1>3 DEF SkipLeased
<1>4. ASSUME NEW m \in Msg, PickReady(n, m) PROVE HaInv'
  BY <1>4 DEF PickReady
<1>5. CASE Reclaim(n)
  BY <1>5 DEF Reclaim
<1>6. CASE ReclaimFails(n)
  BY <1>6 DEF ReclaimFails
<1>7. CASE OpenActive(n)
  BY <1>7 DEF OpenActive
<1>8. CASE Lease(n)
  BY <1>8 DEF Lease
<1>9. CASE LeaseFails(n)
  BY <1>9 DEF LeaseFails
<1>10. CASE NothingReady(n)
  BY <1>10 DEF NothingReady
<1>11. CASE ReadLeased(n)
  BY <1>11 DEF ReadLeased
<1>12. CASE LeaseVanished(n)
  BY <1>12 DEF LeaseVanished
<1>13. CASE OpenFails(n)
  BY <1>13 DEF OpenFails
<1>14. CASE ReadNothing(n)
  BY <1>14 DEF ReadNothing
<1> QED
  BY <1>1, <1>2, <1>3, <1>4, <1>5, <1>6, <1>7, <1>8, <1>9, <1>10, <1>11, <1>12, <1>13, <1>14
  DEF FetchReady

\* The attempt: a copy more, then the message leaves or a fault is counted.
LEMMA AttemptKeepsHa ==
  ASSUME HaInv, QueueInv', UNCHANGED ha, NEW n \in Node, Deliver(n) \/ Mark(n)
  PROVE  HaInv'
<1> USE MsgAssumption, NodeAssumption, BoundsAssumption, NoNodeAssumption
        DEF HaInv, HaTypeOK, LockDiscipline, Leased, Holding, Paid, Owes, DuplicateNeedsFault,
            ha, vars, files, dirs, worker, PassPcs, Up, TypeOK, Placed, Stored, Go, Result, QueueInv, SinglePlace
<1>1. CASE RemoteAccepts(n)
  BY <1>1 DEF RemoteAccepts
<1>2. CASE DeliverFails(n)
  BY <1>2 DEF DeliverFails
<1>3. CASE ReplyRead(n)
  BY <1>3 DEF ReplyRead
<1>4. CASE ReplyLost(n)
  BY <1>4 DEF ReplyLost
<1>5. CASE MarkSuccess(n)
  BY <1>5 DEF MarkSuccess
<1>6. CASE MarkTempFail(n)
  BY <1>6 DEF MarkTempFail
<1>7. CASE MarkPermFail(n)
  BY <1>7 DEF MarkPermFail
<1>8. CASE MarkFails(n)
  BY <1>8 DEF MarkFails
<1>9. CASE SubmitScan(n)
  BY <1>9 DEF SubmitScan
<1> QED
  BY <1>1, <1>2, <1>3, <1>4, <1>5, <1>6, <1>7, <1>8, <1>9
  DEF Deliver, Mark

\* Every step of HaNext, and a stutter, preserves HaInv.
LEMMA HaInvStep == HaInv /\ [HaNext]_havars => HaInv'
<1> SUFFICES ASSUME HaInv, [HaNext]_havars PROVE HaInv'
  OBVIOUS
<1>1. QueueInv'
  BY HaKeepsQueueInv DEF HaInv
<1>2. ASSUME NEW m \in Msg, Enqueue(m) \/ Age(m), UNCHANGED ha PROVE HaInv'
  BY <1>1, <1>2, EnqueueKeepsHa
<1>3. ASSUME NEW n \in Node, PassStep(n), UNCHANGED ha PROVE HaInv'
  BY <1>1, <1>3, FetchKeepsHa, AttemptKeepsHa DEF PassStep
<1>4. ASSUME NEW n \in Node, ((Start(n) \/ Recover(n)) /\ UNCHANGED ha) \/ HaDeath(n)
      PROVE  HaInv'
  BY <1>1, <1>4, ProcessKeepsHa
<1>5. ASSUME NEW n \in Node,
             StartController(n) \/ RequestStop(n) \/ StopController(n) \/ Lead(n) \/ Follow(n)
      PROVE  HaInv'
  BY <1>1, <1>5, ControllerKeepsHa
<1>6. CASE UNCHANGED havars
  BY <1>1, <1>6 DEF havars, ha, vars, files, dirs, worker, HaInv, HaTypeOK, TypeOK,
     LockDiscipline, Leased, Holding, Paid, Owes, DuplicateNeedsFault, Up
<1> QED BY <1>2, <1>3, <1>4, <1>5, <1>6 DEF HaNext, Thread

\* The inductive invariant holds in every reachable state.
THEOREM HaInvariant == HaSpec => []HaInv
BY HaInvInit, HaInvStep, PTL DEF HaSpec

\* The variables of the controllers and of the queue keep their types.
THEOREM HaTypes == HaSpec => []HaTypeOK
<1>1. HaInv => HaTypeOK
  BY DEF HaInv
<1> QED BY <1>1, HaInvariant, PTL

\* Passes of different processes never overlap.
THEOREM LockExcludes == HaSpec => []PassNeedsLock
<1>1. HaInv => PassNeedsLock
  BY DEF HaInv, LockDiscipline, PassNeedsLock
<1> QED BY <1>1, HaInvariant, PTL

\* The lease of a running delivery is never reclaimed.
THEOREM LeaseIsKept == HaSpec => []LeaseKept
<1>1. HaInv => LeaseKept
  BY DEF HaInv, Leased, LeaseKept
<1> QED BY <1>1, HaInvariant, PTL

\* No pass ends its process because a lease vanished under it.
THEOREM NoLeaseVanishes == HaSpec => []NoVanishedLease
<1>1. HaInv => NoVanishedLease
  BY DEF HaInv, Leased, NoVanishedLease
<1> QED BY <1>1, HaInvariant, PTL

\* Duplicates are bounded by the faults.
THEOREM DuplicatesNeedFaults == HaSpec => []DuplicateNeedsFault
<1>1. HaInv => DuplicateNeedsFault
  BY DEF HaInv
<1> QED BY <1>1, HaInvariant, PTL
-----------------------------------------------------------------------------
(* HaQueue implements DurableQueue: every step is one of its steps for one *)
(* message, or changes nothing that a caller can see.                      *)

\* Steps that move no message across the border of the queue, answer no
\* call and send no copy are invisible.
LEMMA InvisibleStep ==
  ASSUME active' \cup inflight' = active \cup inflight,
         UNCHANGED <<failure, permanent, accepted>>,
         \A m \in Msg : AnswerOf(m)' = AnswerOf(m)
  PROVE  UNCHANGED Durable!absvars
<1>1. \A m \in Msg : StatusOf(m)' = StatusOf(m)
  BY DEF StatusOf, Stored
<1> QED BY <1>1 DEF Durable!absvars

\* A move of one message, all else as it was.
LEMMA MoveStep ==
  ASSUME NEW m \in Msg, NEW from, NEW to,
         StatusOf(m) = from, StatusOf(m)' = to,
         \A o \in Msg \ {m} : StatusOf(o)' = StatusOf(o),
         \A o \in Msg : AnswerOf(o)' = AnswerOf(o),
         UNCHANGED accepted
  PROVE  Durable!Move(m, from, to)
BY DEF Durable!Move

\* An answer to one call, all else as it was.
LEMMA AnswerStep ==
  ASSUME NEW m \in Msg, AnswerOf(m) = "none",
         \A o \in Msg : StatusOf(o)' = StatusOf(o),
         \A o \in Msg \ {m} : AnswerOf(o)' = AnswerOf(o),
         UNCHANGED accepted,
         AnswerOf(m)' = "error" \/ (AnswerOf(m)' = "ok" /\ StatusOf(m) # "absent")
  PROVE  Durable!AnswerError(m) \/ Durable!AnswerOk(m)
BY DEF Durable!AnswerError, Durable!AnswerOk

\* A step of enqueue lets its message enter, answers its caller, or is
\* invisible to DurableQueue.
LEMMA EnqueueImplements ==
  ASSUME HaInv, NEW m \in Msg, Enqueue(m) \/ Age(m)
  PROVE  [Durable!AbsNext]_(Durable!absvars)
<1> USE DEF EnqGo, HaInv, HaTypeOK, TypeOK, files, dirs
<1>1. CASE CheckDepth(m) /\ enq'[m] = "failed"
  <2>1. \A o \in Msg : StatusOf(o)' = StatusOf(o)
    BY <1>1 DEF CheckDepth, StatusOf, Stored
  <2>2. /\ AnswerOf(m) = "none" /\ AnswerOf(m)' = "error"
        /\ \A o \in Msg \ {m} : AnswerOf(o)' = AnswerOf(o)
    BY <1>1 DEF CheckDepth, AnswerOf
  <2>3. UNCHANGED accepted
    BY <1>1 DEF CheckDepth
  <2> QED BY <2>1, <2>2, <2>3, AnswerStep DEF Durable!AbsNext
<1>2. CASE CheckDepth(m) /\ enq'[m] # "failed"
  BY <1>2, InvisibleStep DEF CheckDepth, AnswerOf
<1>3. CASE CreateTemp(m) \/ WriteTemp(m)
  BY <1>3, InvisibleStep DEF CreateTemp, WriteTemp, AnswerOf
<1>4. CASE CreateTempFails(m) \/ WriteTempFails(m) \/ RenameTempFails(m)
  <2>1. \A o \in Msg : StatusOf(o)' = StatusOf(o)
    BY <1>4 DEF CreateTempFails, WriteTempFails, RenameTempFails, StatusOf, Stored
  <2>2. /\ AnswerOf(m) = "none" /\ AnswerOf(m)' = "error"
        /\ \A o \in Msg \ {m} : AnswerOf(o)' = AnswerOf(o)
    BY <1>4 DEF CreateTempFails, WriteTempFails, RenameTempFails, AnswerOf
  <2>3. UNCHANGED accepted
    BY <1>4 DEF CreateTempFails, WriteTempFails, RenameTempFails
  <2> QED BY <2>1, <2>2, <2>3, AnswerStep DEF Durable!AbsNext
<1>5. CASE RenameTemp(m)
  <2>1. StatusOf(m) = "absent"
    BY <1>5 DEF RenameTemp, StatusOf, QueueInv, Placed, Paid, Stored
  <2>2. StatusOf(m)' = "queued"
    BY <1>5 DEF RenameTemp, StatusOf
  <2>3. \A o \in Msg \ {m} : StatusOf(o)' = StatusOf(o)
    BY <1>5 DEF RenameTemp, StatusOf, Stored
  <2>4. \A o \in Msg : AnswerOf(o)' = AnswerOf(o)
    BY <1>5 DEF RenameTemp, AnswerOf
  <2>5. AnswerOf(m) = "none"
    BY <1>5 DEF RenameTemp, AnswerOf
  <2>6. Durable!Move(m, "absent", "queued")
    BY <1>5, <2>1, <2>2, <2>3, <2>4, MoveStep DEF RenameTemp
  <2> QED BY <2>5, <2>6 DEF Durable!AbsNext, Durable!Enter
<1>6. CASE VerifyFinal(m)
  <2>1. \A o \in Msg : StatusOf(o)' = StatusOf(o)
    BY <1>6 DEF VerifyFinal, StatusOf, Stored
  <2>2. /\ AnswerOf(m) = "none"
        /\ \A o \in Msg \ {m} : AnswerOf(o)' = AnswerOf(o)
    BY <1>6 DEF VerifyFinal, AnswerOf
  <2>3. AnswerOf(m)' = "error" \/ (AnswerOf(m)' = "ok" /\ StatusOf(m) # "absent")
    BY <1>6 DEF VerifyFinal, AnswerOf, StatusOf
  <2>4. UNCHANGED accepted
    BY <1>6 DEF VerifyFinal
  <2> QED BY <2>1, <2>2, <2>3, <2>4, AnswerStep DEF Durable!AbsNext
<1>7. CASE Age(m)
  BY <1>7, InvisibleStep DEF Age, AnswerOf
<1> QED BY <1>1, <1>2, <1>3, <1>4, <1>5, <1>6, <1>7 DEF Enqueue

\* fetchReady moves files within the queue only: it is invisible.
LEMMA FetchImplements ==
  ASSUME HaInv, NEW n \in Node, FetchReady(n)
  PROVE  [Durable!AbsNext]_(Durable!absvars)
<1> USE DEF HaInv, HaTypeOK, TypeOK, AnswerOf, files, dirs
<1>1. CASE ReadNothing(n) /\ permanent' # permanent
  <2>0. PICK m \in Msg : m = cur[n]
    BY <1>1 DEF ReadNothing
  <2>1. /\ m \in inflight
        /\ inflight' = inflight \ {m} /\ permanent' = permanent \cup {m}
        /\ UNCHANGED <<enq, active, failure, accepted>>
    BY <1>1, <2>0 DEF ReadNothing
  <2>2. m \notin active /\ m \notin failure
    BY <2>1 DEF QueueInv, SinglePlace
  <2>3. StatusOf(m) = "queued" /\ StatusOf(m)' = "rejected"
    BY <2>1, <2>2 DEF StatusOf
  <2>4. \A o \in Msg \ {m} : StatusOf(o)' = StatusOf(o)
    BY <2>1 DEF StatusOf
  <2>5. \A o \in Msg : AnswerOf(o)' = AnswerOf(o)
    BY <2>1
  <2>6. Durable!Move(m, "queued", "rejected")
    BY <2>1, <2>3, <2>4, <2>5, MoveStep
  <2> QED BY <2>1, <2>6 DEF Durable!AbsNext, Durable!Reject
<1>2. CASE ReadNothing(n) /\ permanent' = permanent
  BY <1>2, InvisibleStep DEF ReadNothing, QueueInv, SinglePlace
<1>3. ASSUME NEW m \in Msg, FindExpired(n, m) \/ SkipLive(n, m) \/ SkipLeased(n, m) \/ PickReady(n, m)
      PROVE  UNCHANGED Durable!absvars
  BY <1>3, InvisibleStep DEF FindExpired, SkipLive, SkipLeased, PickReady
<1>4. CASE Reclaim(n) \/ Lease(n) \/ OpenFails(n)
  <2>1. active' \cup inflight' = active \cup inflight
    BY <1>4 DEF Reclaim, Lease, OpenFails
  <2> QED BY <1>4, <2>1, InvisibleStep DEF Reclaim, Lease, OpenFails
<1>5. CASE \/ ReclaimFails(n) \/ OpenActive(n) \/ LeaseFails(n) \/ NothingReady(n)
           \/ ReadLeased(n) \/ LeaseVanished(n)
  BY <1>5, InvisibleStep
     DEF ReclaimFails, OpenActive, LeaseFails, NothingReady, ReadLeased, LeaseVanished
<1> QED BY <1>1, <1>2, <1>3, <1>4, <1>5 DEF FetchReady

\* An attempt sends a copy, finishes or rejects its message, or is invisible.
LEMMA AttemptImplements ==
  ASSUME HaInv, NEW n \in Node, Deliver(n) \/ Mark(n)
  PROVE  [Durable!AbsNext]_(Durable!absvars)
<1> USE DEF HaInv, HaTypeOK, TypeOK, AnswerOf, files, dirs
<1> DEFINE m == cur[n]
<1>1. CASE RemoteAccepts(n)
  <2>1. m \in inflight /\ m \in Msg
    BY <1>1 DEF RemoteAccepts, Leased, Holding
  <2>2. StatusOf(m) = "queued" /\ \A o \in Msg : StatusOf(o)' = StatusOf(o)
    BY <1>1, <2>1 DEF RemoteAccepts, StatusOf, Stored
  <2>3. Durable!Copy(m)
    BY <1>1, <2>1, <2>2 DEF RemoteAccepts, Durable!Copy
  <2> QED BY <2>1, <2>3 DEF Durable!AbsNext
<1>2. CASE DeliverFails(n) \/ ReplyRead(n) \/ ReplyLost(n) \/ MarkFails(n) \/ SubmitScan(n)
  BY <1>2, InvisibleStep DEF DeliverFails, ReplyRead, ReplyLost, MarkFails, SubmitScan
<1>3. CASE MarkSuccess(n) \/ MarkTempFail(n) \/ MarkPermFail(n)
  <2>1. m \in inflight /\ m \in Msg
    BY <1>3 DEF MarkSuccess, MarkTempFail, MarkPermFail, Leased, Holding
  <2>2. StatusOf(m) = "queued"
    BY <2>1 DEF StatusOf
  <2>3. \A o \in Msg \ {m} : StatusOf(o)' = StatusOf(o)
    BY <1>3 DEF MarkSuccess, MarkTempFail, MarkPermFail, StatusOf, Stored
  <2>4. \A o \in Msg : AnswerOf(o)' = AnswerOf(o)
    BY <1>3 DEF MarkSuccess, MarkTempFail, MarkPermFail
  <2>5. CASE MarkSuccess(n)
    <3>1. accepted[m] > 0
      BY <2>5 DEF MarkSuccess, QueueInv, Held
    <3>2. StatusOf(m)' = "done"
      BY <2>1, <2>5, <3>1 DEF MarkSuccess, StatusOf, Stored, QueueInv, SinglePlace
    <3>3. Durable!Move(m, "queued", "done")
      BY <2>1, <2>2, <2>3, <2>4, <2>5, <3>2, MoveStep DEF MarkSuccess
    <3> QED BY <2>1, <3>1, <3>3 DEF Durable!AbsNext, Durable!Finish
  <2>6. CASE MarkTempFail(n)
    <3>1. StatusOf(m)' = "parked"
      BY <2>1, <2>6 DEF MarkTempFail, StatusOf, QueueInv, SinglePlace
    <3>2. Durable!Move(m, "queued", "parked")
      BY <2>1, <2>2, <2>3, <2>4, <2>6, <3>1, MoveStep DEF MarkTempFail
    <3> QED BY <2>1, <3>2 DEF Durable!AbsNext, Durable!Park
  <2>7. CASE MarkPermFail(n)
    <3>1. StatusOf(m)' = "rejected"
      BY <2>1, <2>7 DEF MarkPermFail, StatusOf, QueueInv, SinglePlace
    <3>2. Durable!Move(m, "queued", "rejected")
      BY <2>1, <2>2, <2>3, <2>4, <2>7, <3>1, MoveStep DEF MarkPermFail
    <3> QED BY <2>1, <3>2 DEF Durable!AbsNext, Durable!Reject
  <2> QED BY <1>3, <2>5, <2>6, <2>7
<1> QED BY <1>1, <1>2, <1>3 DEF Deliver, Mark

\* What a process does at its start or at its end answers no call with ok and
\* moves no message.
LEMMA ProcessImplements ==
  ASSUME HaInv, NEW n \in Node, Start(n) \/ Recover(n) \/ BeginPass(n) \/ Death(n) \/ UNCHANGED vars
  PROVE  UNCHANGED Durable!absvars
<1> USE DEF HaInv, HaTypeOK, TypeOK, AnswerOf, files, dirs
<1>1. CASE Start(n) \/ Constructed(n) \/ BeginPass(n)
  BY <1>1, InvisibleStep DEF Start, Constructed, BeginPass
<1>2. ASSUME NEW m \in Msg, RemoveOrphan(n, m) PROVE UNCHANGED Durable!absvars
  BY <1>2, InvisibleStep DEF RemoveOrphan
<1>3. CASE Death(n)
  BY <1>3, InvisibleStep DEF Death, Crash, VanishedLease, Die, InEnqueue, EnqStates
<1>4. CASE UNCHANGED vars
  BY <1>4, InvisibleStep DEF vars
<1> QED BY <1>1, <1>2, <1>3, <1>4 DEF Recover

\* The empty queue is an initial state of DurableQueue.
LEMMA InitImplements == HaInit => Durable!AbsInit
BY DEF HaInit, Init, Durable!AbsInit, StatusOf, AnswerOf, Stored

\* Every step of HaNext is a step of DurableQueue or a stutter.
LEMMA StepImplements ==
  HaInv /\ [HaNext]_havars => [Durable!AbsNext]_(Durable!absvars)
<1> SUFFICES ASSUME HaInv, [HaNext]_havars PROVE [Durable!AbsNext]_(Durable!absvars)
  OBVIOUS
<1>1. ASSUME NEW m \in Msg, Enqueue(m) \/ Age(m) PROVE [Durable!AbsNext]_(Durable!absvars)
  BY <1>1, EnqueueImplements
<1>2. ASSUME NEW n \in Node, PassStep(n) PROVE [Durable!AbsNext]_(Durable!absvars)
  BY <1>2, FetchImplements, AttemptImplements DEF PassStep
<1>3. ASSUME NEW n \in Node, Start(n) \/ Recover(n) \/ BeginPass(n) \/ Death(n) \/ UNCHANGED vars
      PROVE  UNCHANGED Durable!absvars
  BY <1>3, ProcessImplements
<1>4. CASE UNCHANGED havars
  BY <1>4, InvisibleStep DEF havars, vars, files, dirs, AnswerOf
<1> QED
  BY <1>1, <1>2, <1>3, <1>4
  DEF HaNext, Thread, HaDeath, Lead, Follow, StopController, StartController, RequestStop

\* The queue under the leader lock keeps the promise of DurableQueue: what
\* it acknowledges has entered, and what has left it is not sent again.
THEOREM HaImplementsDurable == HaSpec => ImplementsDurable
<1>1. HaSpec => Durable!AbsSpec
  BY InitImplements, StepImplements, HaInvariant, PTL DEF HaSpec, Durable!AbsSpec
<1> QED BY <1>1 DEF ImplementsDurable
==============================================================================
