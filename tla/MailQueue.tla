----------------------------- MODULE MailQueue -----------------------------
(***************************************************************************)
(* The durable outbound queue of src/queue/mail_queue.cpp, with the retry  *)
(* pass of src/queue/retry_worker.cpp that drains it.                      *)
(*                                                                         *)
(* A message is a file, and the queue is four directories on storage that  *)
(* the processes of a cluster share: active, inflight, failure and         *)
(* permanent_fail.  Every operation is a sequence of file system calls;    *)
(* the calls are atomic and anything may happen between two of them:       *)
(* another process may act, the process may be killed, the call may fail.  *)
(* A process is a Node.  It runs one thread per enqueue call (the message  *)
(* being enqueued names the thread) and one worker thread, whose passes    *)
(* are serialised across nodes only by the module HaQueue.                 *)
(***************************************************************************)
EXTENDS Naturals, FiniteSets

CONSTANTS
  Msg,        \* the messages, one for each call of enqueue; genId names them
  Node,       \* the processes that share the queue directories
  Home,       \* Home[m]: the process in which m is enqueued
  NoMsg,      \* the worker holds no message
  MaxDepth,   \* MAX_QUEUE_DEPTH
  MaxFaults,  \* bound on process deaths and swallowed file system errors
  MaxCopies   \* bound on the copies of a message the remote host accepts

ASSUME MsgAssumption    == NoMsg \notin Msg
ASSUME NodeAssumption   == Home \in [Msg -> Node]
ASSUME BoundsAssumption == MaxDepth \in Nat /\ MaxFaults \in Nat /\ MaxCopies \in Nat

VARIABLES
  enq,        \* enq[m]: how far the call of enqueue for m has come
  tmp,        \* the .msg.tmp files
  active, inflight, failure, permanent,  \* the .msg files, by directory
  flushed,    \* the messages whose whole content has reached the disk
  stale,      \* the files last written over LEASE_TIMEOUT_SEC ago
  pc,         \* pc[n]: where the worker of n is; "down" when n does not run
  cur,        \* cur[n]: the message the worker of n holds
  todo,       \* todo[n]: directory entries the running iterator has not visited
  res,        \* res[n]: what SmtpDeliveryClient::deliver returned
  accepted,   \* accepted[m]: copies of m that the remote host took over
  faults      \* process deaths and swallowed errors so far

dirs     == <<active, inflight, failure, permanent>>
files    == <<tmp, dirs, flushed>>
worker   == <<pc, cur, todo, res>>
vars     == <<enq, files, stale, worker, accepted, faults>>

EnqStates == {"new", "checked", "open", "closed", "moved", "acked", "failed", "dead"}
PassPcs   == {"reclaim", "reclaiming", "lease", "renaming", "open",
              "deliver", "awaiting", "mark", "scan"}
Pcs       == {"down", "ctor", "idle"} \cup PassPcs
Results   == {"none", "success", "perm", "temp"}

Stored == active \cup inflight \cup failure \cup permanent

\* A process whose queue object is built: instance() has returned.
Up(n) == pc[n] \notin {"down", "ctor"}

TypeOK ==
  /\ enq \in [Msg -> EnqStates]
  /\ tmp \subseteq Msg
  /\ active \subseteq Msg /\ inflight \subseteq Msg
  /\ failure \subseteq Msg /\ permanent \subseteq Msg
  /\ flushed \subseteq Msg /\ stale \subseteq Msg
  /\ pc \in [Node -> Pcs]
  /\ cur \in [Node -> Msg \cup {NoMsg}]
  /\ todo \in [Node -> SUBSET Msg]
  /\ res \in [Node -> Results]
  /\ accepted \in [Msg -> Nat]
  /\ faults \in 0..MaxFaults

Init ==
  /\ enq = [m \in Msg |-> "new"]
  /\ tmp = {} /\ active = {} /\ inflight = {} /\ failure = {} /\ permanent = {}
  /\ flushed = {} /\ stale = {}
  /\ pc = [n \in Node |-> "down"]
  /\ cur = [n \in Node |-> NoMsg]
  /\ todo = [n \in Node |-> {}]
  /\ res = [n \in Node |-> "none"]
  /\ accepted = [m \in Msg |-> 0]
  /\ faults = 0

-----------------------------------------------------------------------------
(* MailQueue::enqueue, and atomicWriteFile that it calls.                  *)

\* Go to a step of the call of enqueue; every step needs a living process.
EnqGo(m, from, to) ==
  /\ Up(Home[m])
  /\ enq[m] = from
  /\ enq' = [enq EXCEPT ![m] = to]

\* The depth check counts the files of active/ only, and nothing reserves
\* the place: other calls may pass the same check before this one writes.
CheckDepth(m) ==
  /\ EnqGo(m, "new", IF Cardinality(active) >= MaxDepth THEN "failed" ELSE "checked")
  /\ UNCHANGED <<files, stale, worker, accepted, faults>>

\* CreateFileA with no sharing: the file is there and this process holds it.
CreateTemp(m) ==
  /\ EnqGo(m, "checked", "open")
  /\ tmp' = tmp \cup {m}
  /\ UNCHANGED <<dirs, flushed, stale, worker, accepted, faults>>

CreateTempFails(m) ==
  /\ EnqGo(m, "checked", "failed")
  /\ UNCHANGED <<files, stale, worker, accepted, faults>>

\* WriteFile, FlushFileBuffers, CloseHandle.
WriteTemp(m) ==
  /\ EnqGo(m, "open", "closed")
  /\ flushed' = flushed \cup {m}
  /\ UNCHANGED <<tmp, dirs, stale, worker, accepted, faults>>

\* Fault: the result of the flush is ignored.
WriteTempFails_Ignored(m) ==
  /\ EnqGo(m, "open", "closed")
  /\ UNCHANGED <<files, stale, worker, accepted, faults>>

\* A short write or a failed flush: close, delete the temporary file.
WriteTempFails(m) ==
  /\ EnqGo(m, "open", "failed")
  /\ tmp' = tmp \ {m}
  /\ UNCHANGED <<dirs, flushed, stale, worker, accepted, faults>>

\* MoveFileExA into active/.
RenameTemp(m) ==
  /\ m \in tmp
  /\ EnqGo(m, "closed", "moved")
  /\ tmp' = tmp \ {m}
  /\ active' = active \cup {m}
  /\ UNCHANGED <<inflight, failure, permanent, flushed, stale, worker, accepted, faults>>

\* Fault: the result of the rename is ignored and enqueue returns the id.
RenameTempFails_Ignored(m) ==
  /\ EnqGo(m, "closed", "acked")
  /\ tmp' = tmp \ {m}
  /\ UNCHANGED <<dirs, flushed, stale, worker, accepted, faults>>

\* The rename fails: an error, or the start-up recovery of another process
\* has removed the temporary file in the meantime.
RenameTempFails(m) ==
  /\ EnqGo(m, "closed", "failed")
  /\ tmp' = tmp \ {m}
  /\ UNCHANGED <<dirs, flushed, stale, worker, accepted, faults>>

\* "Verify final file exists": looks in active/, where a worker may already
\* have taken the file away; enqueue then throws.
VerifyFinal(m) ==
  /\ EnqGo(m, "moved", IF m \in active THEN "acked" ELSE "failed")
  /\ UNCHANGED <<files, stale, worker, accepted, faults>>

Enqueue(m) ==
  \/ CheckDepth(m)
  \/ CreateTemp(m) \/ CreateTempFails(m)
  \/ WriteTemp(m)  \/ WriteTempFails(m)
  \/ RenameTemp(m) \/ RenameTempFails(m)
  \/ VerifyFinal(m)

-----------------------------------------------------------------------------
(* Processes: start, the constructor's recovery, and death.                *)

\* First use of the singleton: the constructor lists the temporary files.
Start(n) ==
  /\ pc[n] = "down"
  /\ pc' = [pc EXCEPT ![n] = "ctor"]
  /\ todo' = [todo EXCEPT ![n] = tmp]
  /\ UNCHANGED <<enq, files, stale, cur, res, accepted, faults>>

\* recoverOrphanedTempFiles removes every temporary file, whoever wrote it;
\* only one that a process still holds open resists.
RemoveOrphan(n, m) ==
  /\ pc[n] = "ctor" /\ m \in todo[n]
  /\ todo' = [todo EXCEPT ![n] = @ \ {m}]
  /\ tmp' = IF enq[m] = "open" THEN tmp ELSE tmp \ {m}
  /\ UNCHANGED <<enq, dirs, flushed, stale, pc, cur, res, accepted, faults>>

Constructed(n) ==
  /\ pc[n] = "ctor" /\ todo[n] = {}
  /\ pc' = [pc EXCEPT ![n] = "idle"]
  /\ UNCHANGED <<enq, files, stale, cur, todo, res, accepted, faults>>

InEnqueue(m) == enq[m] \in {"new", "checked", "open", "closed", "moved"}

\* The process is gone: its worker, and the calls of enqueue in progress.
\* A call that has not begun is made when the process runs again.
Die(n) ==
  /\ pc'   = [pc   EXCEPT ![n] = "down"]
  /\ cur'  = [cur  EXCEPT ![n] = NoMsg]
  /\ todo' = [todo EXCEPT ![n] = {}]
  /\ res'  = [res  EXCEPT ![n] = "none"]
  /\ enq'  = [m \in Msg |-> IF Home[m] = n /\ InEnqueue(m) /\ enq[m] # "new"
                              THEN "dead" ELSE enq[m]]
  /\ UNCHANGED <<files, stale, accepted>>

\* Killed, or an exception left the worker thread: std::terminate.
Crash(n) ==
  /\ pc[n] # "down" /\ faults < MaxFaults
  /\ Die(n)
  /\ faults' = faults + 1

-----------------------------------------------------------------------------
(* MailQueue::fetchReady: reclaim the expired leases, then lease a message.*)

Go(n, to) == pc' = [pc EXCEPT ![n] = to]

\* RetryWorker::runOnce begins; fetchReady opens queue/inflight.
BeginPass(n) ==
  /\ pc[n] = "idle"
  /\ Go(n, "reclaim")
  /\ todo' = [todo EXCEPT ![n] = inflight]
  /\ UNCHANGED <<enq, files, stale, cur, res, accepted, faults>>

\* isLeaseExpired(f) holds: the age is that of the file's last write, which
\* neither the rename into active/ nor the lease's own rename changes.
FindExpired(n, m) ==
  /\ pc[n] = "reclaim" /\ m \in todo[n]
  /\ m \in inflight /\ m \in stale
  /\ Go(n, "reclaiming")
  /\ cur' = [cur EXCEPT ![n] = m]
  /\ todo' = [todo EXCEPT ![n] = @ \ {m}]
  /\ UNCHANGED <<enq, files, stale, res, accepted, faults>>

SkipLive(n, m) ==
  /\ pc[n] = "reclaim" /\ m \in todo[n]
  /\ m \in inflight /\ m \notin stale
  /\ todo' = [todo EXCEPT ![n] = @ \ {m}]
  /\ UNCHANGED <<enq, files, stale, pc, cur, res, accepted, faults>>

\* last_write_time throws for a file that is no longer there, outside the
\* try block: the exception leaves fetchReady, runOnce and the thread.
VanishedLease(n, m) ==
  /\ pc[n] = "reclaim" /\ m \in todo[n]
  /\ m \notin inflight
  /\ Die(n)
  /\ UNCHANGED faults

\* Fault: the expired lease is reported and not moved.
Reclaim_Logged(n) ==
  /\ pc[n] = "reclaiming"
  /\ Go(n, "reclaim")
  /\ cur' = [cur EXCEPT ![n] = NoMsg]
  /\ UNCHANGED <<enq, files, stale, todo, res, accepted, faults>>

\* fs::rename(f.path(), dst); without the file it throws, and is swallowed.
Reclaim(n) ==
  /\ pc[n] = "reclaiming"
  /\ inflight' = inflight \ {cur[n]}
  /\ active' = IF cur[n] \in inflight THEN active \cup {cur[n]} ELSE active
  /\ Go(n, "reclaim")
  /\ cur' = [cur EXCEPT ![n] = NoMsg]
  /\ UNCHANGED <<enq, tmp, failure, permanent, flushed, stale, todo, res, accepted, faults>>

\* The rename fails for another reason, and is swallowed as well.
ReclaimFails(n) ==
  /\ pc[n] = "reclaiming" /\ faults < MaxFaults
  /\ faults' = faults + 1
  /\ Go(n, "reclaim")
  /\ cur' = [cur EXCEPT ![n] = NoMsg]
  /\ UNCHANGED <<enq, files, stale, todo, res, accepted>>

\* The second loop opens queue/active.
OpenActive(n) ==
  /\ pc[n] = "reclaim" /\ todo[n] = {}
  /\ Go(n, "lease")
  /\ todo' = [todo EXCEPT ![n] = active]
  /\ UNCHANGED <<enq, files, stale, cur, res, accepted, faults>>

\* fs::exists(inflight): leased by another process, next file.
SkipLeased(n, m) ==
  /\ pc[n] = "lease" /\ m \in todo[n]
  /\ m \in inflight
  /\ todo' = [todo EXCEPT ![n] = @ \ {m}]
  /\ UNCHANGED <<enq, files, stale, pc, cur, res, accepted, faults>>

PickReady(n, m) ==
  /\ pc[n] = "lease" /\ m \in todo[n]
  /\ m \notin inflight
  /\ Go(n, "renaming")
  /\ cur' = [cur EXCEPT ![n] = m]
  /\ todo' = [todo EXCEPT ![n] = @ \ {m}]
  /\ UNCHANGED <<enq, files, stale, res, accepted, faults>>

\* Back to the loop for the next file.
NextFile(n) ==
  /\ Go(n, "lease")
  /\ cur' = [cur EXCEPT ![n] = NoMsg]

\* Fault: the message is copied into inflight/.
Lease_Copies(n) ==
  /\ pc[n] = "renaming" /\ cur[n] \in active
  /\ inflight' = inflight \cup {cur[n]}
  /\ Go(n, "open")
  /\ UNCHANGED <<enq, tmp, active, failure, permanent, flushed, stale, cur, todo, res, accepted, faults>>

\* The rename active -> inflight is the lease.
Lease(n) ==
  /\ pc[n] = "renaming" /\ cur[n] \in active
  /\ active' = active \ {cur[n]}
  /\ inflight' = inflight \cup {cur[n]}
  /\ Go(n, "open")
  /\ UNCHANGED <<enq, tmp, failure, permanent, flushed, stale, cur, todo, res, accepted, faults>>

\* "Someone else got it or other error".
LeaseFails(n) ==
  /\ pc[n] = "renaming"
  /\ NextFile(n)
  /\ \/ /\ cur[n] \notin active
        /\ UNCHANGED faults
     \/ /\ cur[n] \in active /\ faults < MaxFaults
        /\ faults' = faults + 1
  /\ UNCHANGED <<enq, files, stale, todo, res, accepted>>

\* The leased file is there, opens, and has content.
ReadLeased(n) ==
  /\ pc[n] = "open" /\ cur[n] \in inflight
  /\ Go(n, "deliver")
  /\ UNCHANGED <<enq, files, stale, cur, todo, res, accepted, faults>>

\* The file is gone (the check after the rename, or the open, fails).
LeaseVanished(n) ==
  /\ pc[n] = "open" /\ cur[n] \notin inflight
  /\ NextFile(n)
  /\ UNCHANGED <<enq, files, stale, todo, res, accepted, faults>>

\* The file does not open: move it back to active/; if that fails too the
\* message stays in inflight/.
OpenFails(n) ==
  /\ pc[n] = "open" /\ cur[n] \in inflight /\ faults < MaxFaults
  /\ faults' = faults + 1
  /\ NextFile(n)
  /\ \/ /\ inflight' = inflight \ {cur[n]}
        /\ active' = active \cup {cur[n]}
     \/ UNCHANGED <<inflight, active>>
  /\ UNCHANGED <<enq, tmp, failure, permanent, flushed, stale, todo, res, accepted>>

\* Reading yields no byte.  An enqueued file is never empty, so this is a
\* read error: istreambuf_iterator reports it as the end of the file.  The
\* message goes to permanent_fail, or stays when that rename fails.
ReadNothing(n) ==
  /\ pc[n] = "open" /\ cur[n] \in inflight /\ faults < MaxFaults
  /\ faults' = faults + 1
  /\ NextFile(n)
  /\ \/ /\ inflight' = inflight \ {cur[n]}
        /\ permanent' = permanent \cup {cur[n]}
     \/ UNCHANGED <<inflight, permanent>>
  /\ UNCHANGED <<enq, tmp, active, failure, flushed, stale, todo, res, accepted>>

\* fetchReady returns nullopt.
NothingReady(n) ==
  /\ pc[n] = "lease" /\ todo[n] = {}
  /\ Go(n, "idle")
  /\ UNCHANGED <<enq, files, stale, cur, todo, res, accepted, faults>>

-----------------------------------------------------------------------------
(* RetryWorker::runOnce, from the delivery on.                             *)

Result(n, r) ==
  /\ Go(n, "mark")
  /\ res' = [res EXCEPT ![n] = r]

\* The remote host takes the message over: from here on it is delivered,
\* whatever becomes of its reply.
RemoteAccepts(n) ==
  /\ pc[n] = "deliver" /\ accepted[cur[n]] < MaxCopies
  /\ Go(n, "awaiting")
  /\ accepted' = [accepted EXCEPT ![cur[n]] = @ + 1]
  /\ UNCHANGED <<enq, files, stale, cur, todo, res, faults>>

\* No delivery: a 5yz reply or an address that cannot be routed is
\* permanent, anything else temporary.
DeliverFails(n) ==
  /\ pc[n] = "deliver"
  /\ \E r \in {"perm", "temp"} : Result(n, r)
  /\ UNCHANGED <<enq, files, stale, cur, todo, accepted, faults>>

\* The final 2yz reply is read, or lost to a time-out or a reset.
ReplyRead(n) ==
  /\ pc[n] = "awaiting"
  /\ Result(n, "success")
  /\ UNCHANGED <<enq, files, stale, cur, todo, accepted, faults>>

ReplyLost(n) ==
  /\ pc[n] = "awaiting"
  /\ Result(n, "temp")
  /\ UNCHANGED <<enq, files, stale, cur, todo, accepted, faults>>

\* markSuccess removes the leased file if it is there.
MarkSuccess(n) ==
  /\ pc[n] = "mark" /\ res[n] = "success"
  /\ inflight' = inflight \ {cur[n]}
  /\ Go(n, "scan")
  /\ UNCHANGED <<enq, tmp, active, failure, permanent, flushed, stale,
                 cur, todo, res, accepted, faults>>

\* Fault: the message goes straight back to active/.
MarkTempFail_Requeues(n) ==
  /\ pc[n] = "mark" /\ res[n] = "temp"
  /\ inflight' = inflight \ {cur[n]}
  /\ active' = IF cur[n] \in inflight THEN active \cup {cur[n]} ELSE active
  /\ Go(n, "scan")
  /\ UNCHANGED <<enq, tmp, failure, permanent, flushed, stale,
                 cur, todo, res, accepted, faults>>

\* Fault: the message is removed instead of set aside.
MarkTempFail_Removes(n) ==
  /\ pc[n] = "mark" /\ res[n] = "temp"
  /\ inflight' = inflight \ {cur[n]}
  /\ Go(n, "scan")
  /\ UNCHANGED <<enq, tmp, active, failure, permanent, flushed, stale,
                 cur, todo, res, accepted, faults>>

\* markTempFail: nothing ever moves a file out of failure/ again.
MarkTempFail(n) ==
  /\ pc[n] = "mark" /\ res[n] = "temp"
  /\ inflight' = inflight \ {cur[n]}
  /\ failure' = IF cur[n] \in inflight THEN failure \cup {cur[n]} ELSE failure
  /\ Go(n, "scan")
  /\ UNCHANGED <<enq, tmp, active, permanent, flushed, stale,
                 cur, todo, res, accepted, faults>>

MarkPermFail(n) ==
  /\ pc[n] = "mark" /\ res[n] = "perm"
  /\ inflight' = inflight \ {cur[n]}
  /\ permanent' = IF cur[n] \in inflight THEN permanent \cup {cur[n]} ELSE permanent
  /\ Go(n, "scan")
  /\ UNCHANGED <<enq, tmp, active, failure, flushed, stale,
                 cur, todo, res, accepted, faults>>

\* The rename of markTempFail or markPermFail fails; catch (...) {}.
MarkFails(n) ==
  /\ pc[n] = "mark" /\ res[n] \in {"temp", "perm"} /\ faults < MaxFaults
  /\ faults' = faults + 1
  /\ Go(n, "scan")
  /\ UNCHANGED <<enq, files, stale, cur, todo, res, accepted>>

\* The pass ends with CloudScanner::scanAsync and SandboxEngine::submit,
\* whatever the result of the attempt; they do not touch the queue.
SubmitScan(n) ==
  /\ pc[n] = "scan"
  /\ Go(n, "idle")
  /\ cur' = [cur EXCEPT ![n] = NoMsg]
  /\ res' = [res EXCEPT ![n] = "none"]
  /\ UNCHANGED <<enq, files, stale, todo, accepted, faults>>

\* LEASE_TIMEOUT_SEC have passed since the file was written.
Age(m) ==
  /\ m \in (active \cup inflight) \ stale
  /\ stale' = stale \cup {m}
  /\ UNCHANGED <<enq, files, worker, accepted, faults>>

-----------------------------------------------------------------------------
Recover(n) == (\E m \in Msg : RemoveOrphan(n, m)) \/ Constructed(n)

FetchReady(n) ==
  \/ \E m \in Msg : FindExpired(n, m) \/ SkipLive(n, m)
  \/ Reclaim(n) \/ ReclaimFails(n) \/ OpenActive(n)
  \/ \E m \in Msg : SkipLeased(n, m) \/ PickReady(n, m)
  \/ Lease(n) \/ LeaseFails(n) \/ NothingReady(n)
  \/ ReadLeased(n) \/ LeaseVanished(n) \/ OpenFails(n) \/ ReadNothing(n)

Deliver(n) == RemoteAccepts(n) \/ DeliverFails(n) \/ ReplyRead(n) \/ ReplyLost(n)

Mark(n) ==
  MarkSuccess(n) \/ MarkTempFail(n) \/ MarkPermFail(n) \/ MarkFails(n) \/ SubmitScan(n)

\* Everything the worker does inside a pass, except dying in it.
PassStep(n) == FetchReady(n) \/ Deliver(n) \/ Mark(n)

Death(n) == Crash(n) \/ \E m \in Msg : VanishedLease(n, m)

NodeStep(n) == Start(n) \/ Recover(n) \/ BeginPass(n) \/ PassStep(n) \/ Death(n)

Next ==
  \/ \E m \in Msg : Enqueue(m) \/ Age(m)
  \/ \E n \in Node : NodeStep(n)

Spec == Init /\ [][Next]_vars

-----------------------------------------------------------------------------
(* What the queue promises, whatever the number of workers.                *)

\* A message whose enqueue returned an identifier is never lost: its file is
\* in one of the four directories, or the remote host has taken it over.
\* Crashes, failed renames, the recovery of temporary files and any number
\* of concurrent workers included.
NoLoss ==
  \A m \in Msg : enq[m] = "acked" => m \in Stored \/ accepted[m] > 0

\* A message is never in two places: no rename leaves a second file behind
\* for another worker to lease, and a message whose enqueue failed half-way
\* is not both a temporary file and a queued one.
SinglePlace ==
  /\ tmp \cap Stored = {}
  /\ active \cap (inflight \cup failure \cup permanent) = {}
  /\ inflight \cap (failure \cup permanent) = {}
  /\ failure \cap permanent = {}

\* A file that a worker can see was written and flushed to its last byte:
\* what a crash or a failed write leaves half-written is never delivered.
OnlyComplete == Stored \subseteq flushed

\* The strengthening of the three that every step preserves: how far a call
\* of enqueue has come against where its file can be, and what a worker
\* that holds a message knows about it.
Placed(m) ==
  /\ m \in tmp => enq[m] \in {"open", "closed", "dead"}
  /\ m \in Stored => enq[m] \in {"moved", "acked", "failed", "dead"}
  /\ enq[m] = "closed" => m \in flushed
  /\ enq[m] \in {"moved", "acked"} => m \in Stored \/ accepted[m] > 0

Held(n) ==
  /\ pc[n] \in PassPcs \ {"reclaim", "lease"} => cur[n] \in Msg
  /\ pc[n] = "awaiting" => accepted[cur[n]] > 0
  /\ pc[n] = "mark" /\ res[n] = "success" => accepted[cur[n]] > 0

QueueInv ==
  /\ TypeOK /\ SinglePlace /\ OnlyComplete
  /\ \A m \in Msg : Placed(m)
  /\ \A n \in Node : Held(n)
=============================================================================
