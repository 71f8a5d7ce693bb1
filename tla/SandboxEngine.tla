--------------------------- MODULE SandboxEngine ---------------------------
(***************************************************************************)
(* src/virus/sandbox_engine.cpp with the stores its worker writes to:      *)
(* src/threat_intel/hash_reputation.cpp, src/threat_intel/ioc_store.cpp    *)
(* and src/virus/sandbox_verdict_store.cpp.                                *)
(*                                                                         *)
(* Delivery workers submit the messages that they are done with; one       *)
(* worker thread has each of them analysed and records what the providers  *)
(* say, in memory and then in a file.  main starts the engine, stops it    *)
(* last, and joins the worker.  The process can die at any point and is    *)
(* then started again; the queue is gone, the files are loaded.            *)
(***************************************************************************)
EXTENDS Naturals, Sequences, FiniteSets

CONSTANTS
  Id,        \* message ids, that submit passes for the hash
  Verdict,   \* what a provider may answer
  Stores,    \* the stores with a file: "reputation" and "verdicts"
  MaxSubmits,\* bound on the submissions of each id
  MaxDeaths, \* bound on the number of times the process dies
  DiskFails  \* whether a write of a file can fail

ASSUME SandboxVerdicts == Verdict \subseteq {"Unknown", "Clean", "Suspicious", "Malicious"}
ASSUME SandboxStores == Stores = {"reputation", "verdicts"}
ASSUME SandboxBounds == MaxSubmits \in Nat /\ MaxDeaths \in Nat /\ DiskFails \in BOOLEAN

VARIABLES
  up,        \* the process runs
  running,   \* running_
  worker,    \* where the worker thread is; the store that it saves, then
  job,       \* the job it has taken, <<>> or <<id>>
  queue,     \* queue_
  stopping,  \* where the thread that calls stop() is
  known,     \* known[st]: the ids in the map of the store st
  ioc,       \* hashes_ of the IOC store
  file,      \* file[st]: the ids in its file, Corrupt when cut short
  deaths,    \* number of times the process has died
  submitted, \* submitted[i]: submissions of i to this process
  analysed,  \* analysed[i]: how many of them a provider was asked about
  late       \* number of submissions since stop() was called

engine == <<running, worker, job, queue, stopping>>
stores == <<known, ioc, file>>
counts == <<submitted, analysed, late>>
xvars  == <<up, engine, stores, deaths, counts>>

Corrupt == {"corrupt"}

SandboxTypeOK ==
  /\ up \in BOOLEAN /\ running \in BOOLEAN
  /\ worker \in {"wait", "analyse", "reputation", "add hash", "verdicts", "stuck", "ended"}
  /\ job \in {<<>>} \cup {<<i>> : i \in Id}
  /\ queue \in Seq(Id)
  /\ stopping \in {"no", "join", "returned"}
  /\ known \in [Stores -> SUBSET Id] /\ ioc \subseteq Id
  /\ file \in [Stores -> (SUBSET Id) \cup {Corrupt}]
  /\ deaths \in 0..MaxDeaths
  /\ submitted \in [Id -> 0..MaxSubmits] /\ analysed \in [Id -> 0..MaxSubmits]
  /\ late \in Nat

\* main has called start().
SandboxInit ==
  /\ up = TRUE /\ running = TRUE
  /\ worker = "wait" /\ job = <<>> /\ queue = <<>>
  /\ stopping = "no"
  /\ known = [st \in Stores |-> {}] /\ ioc = {}
  /\ file = [st \in Stores |-> {}]
  /\ deaths = 0
  /\ submitted = [i \in Id |-> 0] /\ analysed = [i \in Id |-> 0]
  /\ late = 0

-----------------------------------------------------------------------------
\* submit, which does not look at running_.
Submit(i) ==
  /\ up /\ submitted[i] < MaxSubmits
  /\ queue' = Append(queue, i)
  /\ submitted' = [submitted EXCEPT ![i] = @ + 1]
  /\ late' = IF stopping = "no" THEN late ELSE late + 1
  /\ UNCHANGED <<up, running, worker, job, stopping, stores, deaths, analysed>>

\* stop: running_ is cleared, and the worker joined.
StopBegin ==
  /\ up /\ stopping = "no"
  /\ running' = FALSE
  /\ stopping' = "join"
  /\ UNCHANGED <<up, worker, job, queue, stores, deaths, counts>>

Joined ==
  /\ up /\ stopping = "join" /\ worker = "ended"
  /\ stopping' = "returned"
  /\ UNCHANGED <<up, running, worker, job, queue, stores, deaths, counts>>

\* Fault: the job stays in front.
Take_Keeps ==
  /\ up /\ worker = "wait" /\ queue # <<>>
  /\ job' = <<Head(queue)>>
  /\ worker' = "analyse"
  /\ UNCHANGED <<up, running, queue, stopping, stores, deaths, counts>>

\* The wait is over with a job in the queue.
Take ==
  /\ up /\ worker = "wait" /\ queue # <<>>
  /\ job' = <<Head(queue)>>
  /\ queue' = Tail(queue)
  /\ worker' = "analyse"
  /\ UNCHANGED <<up, running, stopping, stores, deaths, counts>>

\* Fault: the worker waits for a job only, and sleeps through the stop.
End_Sleeps ==
  /\ up /\ worker = "wait" /\ ~running /\ queue # <<>>
  /\ worker' = "ended"
  /\ UNCHANGED <<up, running, job, queue, stopping, stores, deaths, counts>>

\* Fault: the flag is looked at before the queue.
End_Early ==
  /\ up /\ worker = "wait" /\ ~running
  /\ worker' = "ended"
  /\ UNCHANGED <<up, running, job, queue, stopping, stores, deaths, counts>>

\* The wait is over without one: the worker leaves its loop.
End ==
  /\ up /\ worker = "wait" /\ ~running /\ queue = <<>>
  /\ worker' = "ended"
  /\ UNCHANGED <<up, running, job, queue, stopping, stores, deaths, counts>>

-----------------------------------------------------------------------------
\* The worker has a job and goes from one part of its work to the next.
Doing(part) == up /\ worker = part
Go(next) ==
  /\ worker' = next
  /\ job' = IF next = "wait" THEN <<>> ELSE job

\* The process ends; its memory is gone, and only a restart brings it back.
Gone ==
  /\ up' = FALSE
  /\ deaths' = deaths + 1
  /\ UNCHANGED <<running, worker, job, queue, stopping, known, ioc, counts>>

\* Fault: the map of the reputations is not saved.
Analyse_Unsaved ==
  /\ Doing("analyse")
  /\ analysed' = [analysed EXCEPT ![job[1]] = @ + 1]
  /\ known' = [known EXCEPT !["reputation"] = @ \cup {job[1]}]
  /\ Go("add hash")
  /\ UNCHANGED <<up, running, queue, stopping, ioc, file, deaths, submitted, late>>

\* The first answer of a provider that is not "Unknown".  For malware the
\* reputation is put in its map; for any other verdict its own.
Analyse ==
  /\ Doing("analyse")
  /\ analysed' = [analysed EXCEPT ![job[1]] = @ + 1]
  /\ \E v \in Verdict :
       CASE v = "Malicious" ->
              /\ known' = [known EXCEPT !["reputation"] = @ \cup {job[1]}]
              /\ Go("reputation")
         [] v = "Unknown" -> UNCHANGED known /\ Go("wait")
         [] OTHER ->
              /\ known' = [known EXCEPT !["verdicts"] = @ \cup {job[1]}]
              /\ Go("verdicts")
  /\ UNCHANGED <<up, running, queue, stopping, ioc, file, deaths, submitted, late>>

\* saveUnlocked: a temporary file is written and renamed.  The stream is not
\* looked at, so that a file that is cut short is renamed as well...
Save(st, next) ==
  /\ Doing(st)
  /\ \/ file' = [file EXCEPT ![st] = known[st]]
     \/ DiskFails /\ file' = [file EXCEPT ![st] = Corrupt]
  /\ Go(next)
  /\ UNCHANGED <<up, running, queue, stopping, known, ioc, deaths, counts>>

SaveReputation == Save("reputation", "add hash")
SaveVerdict == Save("verdicts", "wait")

\* ...and when there is nothing to rename, the exception ends the process: no
\* one catches it in the worker's thread.
SaveThrows(st) ==
  /\ Doing(st) /\ DiskFails /\ deaths < MaxDeaths
  /\ UNCHANGED file
  /\ Gone

\* addHash inserts under the store's mutex and calls save, which locks it once
\* more: it blocks for ever with glibc; other libraries throw.
AddHash ==
  /\ Doing("add hash")
  /\ \/ /\ ioc' = ioc \cup {job[1]}
        /\ Go("stuck")
        /\ UNCHANGED <<up, running, queue, stopping, known, file, deaths, counts>>
     \/ deaths < MaxDeaths /\ UNCHANGED file /\ Gone

-----------------------------------------------------------------------------
\* The process is killed, or comes to its end when stop has returned.
Kill ==
  /\ up /\ deaths < MaxDeaths
  /\ UNCHANGED file
  /\ Gone

\* Fault: the files are not loaded.
Restart_Empty ==
  /\ ~up
  /\ up' = TRUE /\ running' = TRUE
  /\ worker' = "wait" /\ job' = <<>> /\ queue' = <<>>
  /\ stopping' = "no"
  /\ known' = [st \in Stores |-> {}] /\ ioc' = {}
  /\ submitted' = [i \in Id |-> 0] /\ analysed' = [i \in Id |-> 0] /\ late' = 0
  /\ UNCHANGED <<file, deaths>>

\* It is started again: the stores load their files, and main calls start().
Restart ==
  /\ ~up
  /\ up' = TRUE /\ running' = TRUE
  /\ worker' = "wait" /\ job' = <<>> /\ queue' = <<>>
  /\ stopping' = "no"
  /\ known' = [st \in Stores |-> IF file[st] = Corrupt THEN {} ELSE file[st]]
  /\ ioc' = {}
  /\ submitted' = [i \in Id |-> 0] /\ analysed' = [i \in Id |-> 0] /\ late' = 0
  /\ UNCHANGED <<file, deaths>>

WorkerStep ==
  \/ Take \/ End \/ Analyse \/ SaveReputation \/ SaveVerdict \/ AddHash
  \/ \E st \in Stores : SaveThrows(st)

SandboxNext ==
  \/ \E i \in Id : Submit(i)
  \/ StopBegin \/ Joined \/ WorkerStep \/ Kill \/ Restart

SandboxSpec == SandboxInit /\ [][SandboxNext]_xvars

\* The system runs the worker and the thread in stop(), while the process is
\* up.  Nothing makes anyone submit, stop or restart.
SandboxFairSpec == SandboxSpec /\ WF_xvars(WorkerStep) /\ WF_xvars(Joined)

-----------------------------------------------------------------------------
(* What the engine promises.                                               *)

InQueue(i) == Cardinality({k \in DOMAIN queue : queue[k] = i})
InHand(i)  == IF worker = "analyse" /\ job = <<i>> THEN 1 ELSE 0

\* Every submission is in the queue, in the worker's hands or analysed; none
\* is dropped and none is analysed twice, whenever stop() comes.
JobsKept == up => \A i \in Id : submitted[i] = analysed[i] + InQueue(i) + InHand(i)

\* Types, and the jobs.
SandboxInv == SandboxTypeOK /\ JobsKept

\* When stop() returns the worker is gone, and of the jobs only those are left
\* that were submitted after the call.
StopDrains == up /\ stopping = "returned" => worker = "ended" /\ Len(queue) <= late

\* What a store answers from memory is in its file, but for the entry that
\* the worker is about to save - unless the file was cut short.
SavedAsKnown ==
  up => \A st \in Stores : worker # st => file[st] \in {known[st], Corrupt}

\* A verdict in a file stays there, over deaths and restarts as well, unless a
\* later write of the file is cut short.
RecordsKept ==
  [][\A st \in Stores :
       file[st] # Corrupt => file'[st] = Corrupt \/ file[st] \subseteq file'[st]]_xvars

\* stop() returns, unless the process dies or a file was found to be malware.
StopReturns ==
  stopping = "join" ~> stopping = "returned" \/ ~up \/ worker = "stuck"

-----------------------------------------------------------------------------
(* The invariant.                                                          *)

\* What a file has is in the map, and the map in the file, but for the store
\* that the worker is about to save.
FilesIn ==
  up => \A st \in Stores :
          \/ file[st] = Corrupt
          \/ file[st] \subseteq known[st] /\ (worker # st => file[st] = known[st])

\* What the worker has in hand, and what was left when it ended.
WorkerIn ==
  /\ job = <<>> <=> worker \in {"wait", "ended"}
  /\ up => (running <=> stopping = "no")
  /\ up /\ worker = "ended" => ~running /\ Len(queue) <= late
  /\ up /\ stopping = "returned" => worker = "ended"

SandboxIInv == SandboxInv /\ FilesIn /\ WorkerIn
=============================================================================
