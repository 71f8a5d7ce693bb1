------------------------- MODULE SandboxEngineProofs -------------------------
(***************************************************************************)
(* For any ids, verdicts and bounds: the sandbox's worker drops no job and *)
(* does none twice, stop() leaves only the jobs that came after its call,  *)
(* and the files follow the maps over failing writes, deaths and restarts. *)
(***************************************************************************)
EXTENDS SandboxEngine, FiniteSetTheorems, TLAPS

-----------------------------------------------------------------------------
(* Counting in a queue.                                                    *)

Places(q, i) == {k \in DOMAIN q : q[k] = i}

\* The places of a job in a queue are finitely many.
LEMMA PlacesFinite ==
  ASSUME NEW q \in Seq(Id), NEW i
  PROVE  IsFiniteSet(Places(q, i)) /\ Cardinality(Places(q, i)) \in Nat
<1>1. IsFiniteSet(1..Len(q)) /\ Places(q, i) \subseteq 1..Len(q)
  BY FS_Interval DEF Places
<1> QED
  BY <1>1, FS_Subset, FS_CardinalityType

\* A submission adds one place for its job (submit).
LEMMA PlacesAppend ==
  ASSUME NEW q \in Seq(Id), NEW i, NEW e \in Id
  PROVE  Cardinality(Places(Append(q, e), i))
           = Cardinality(Places(q, i)) + IF e = i THEN 1 ELSE 0
<1>1. Len(q) + 1 \notin Places(q, i)
  BY DEF Places
<1>2. CASE e = i
  <2>1. Places(Append(q, e), i) = Places(q, i) \cup {Len(q) + 1}
    BY <1>2 DEF Places
  <2> QED
    BY <1>1, <1>2, <2>1, PlacesFinite, FS_AddElement
<1>3. CASE e # i
  <2>1. Places(Append(q, e), i) = Places(q, i)
    BY <1>3 DEF Places
  <2> QED
    BY <1>3, <2>1, PlacesFinite
<1> QED
  BY <1>2, <1>3

\* Taking the first job takes one place from it (the worker's pop).
LEMMA PlacesTail ==
  ASSUME NEW q \in Seq(Id), NEW i, q # <<>>
  PROVE  Cardinality(Places(q, i))
           = Cardinality(Places(Tail(q), i)) + IF Head(q) = i THEN 1 ELSE 0
<1> DEFINE Later == {k \in 2..Len(q) : q[k] = i}
           Next1 == [k \in Places(Tail(q), i) |-> k + 1]
<1>1. /\ Len(q) \in Nat \ {0} /\ Tail(q) \in Seq(Id) /\ Len(Tail(q)) = Len(q) - 1
      /\ \A k \in 1..(Len(q) - 1) : Tail(q)[k] = q[k + 1]
      /\ Head(q) = q[1] /\ DOMAIN q = 1..Len(q) /\ DOMAIN Tail(q) = 1..(Len(q) - 1)
  OBVIOUS
<1>2. Next1 \in Bijection(Places(Tail(q), i), Later)
  <2>1. Next1 \in [Places(Tail(q), i) -> Later]
    BY <1>1 DEF Places
  <2>2. \A a, b \in Places(Tail(q), i) : Next1[a] = Next1[b] => a = b
    BY <1>1 DEF Places
  <2>3. \A t \in Later : t - 1 \in Places(Tail(q), i) /\ Next1[t - 1] = t
    BY <1>1 DEF Places
  <2> QED
    BY <2>1, <2>2, <2>3 DEF Bijection, Injection, Surjection, IsInjective
<1>3. IsFiniteSet(Later) /\ Cardinality(Later) = Cardinality(Places(Tail(q), i))
  <2>1. IsFiniteSet(Places(Tail(q), i))
    BY <1>1, PlacesFinite
  <2>2. ExistsBijection(Places(Tail(q), i), Later)
    BY <1>2 DEF ExistsBijection
  <2> HIDE DEF Later
  <2> QED
    BY <2>1, <2>2, FS_Bijection
<1>4. 1 \notin Later /\ Cardinality(Later) \in Nat
  BY <1>3, FS_CardinalityType
<1>5. CASE Head(q) = i
  <2>1. Places(q, i) = Later \cup {1}
    BY <1>1, <1>5 DEF Places
  <2> QED
    BY <1>3, <1>4, <1>5, <2>1, FS_AddElement
<1>6. CASE Head(q) # i
  <2>1. Places(q, i) = Later
    BY <1>1, <1>6 DEF Places
  <2> QED
    BY <1>3, <1>4, <1>6, <2>1
<1> QED
  BY <1>5, <1>6

-----------------------------------------------------------------------------
(* The steps.                                                              *)

\* The process has been started for the first time.
LEMMA SandboxInvInit == SandboxInit => SandboxIInv
<1> SUFFICES ASSUME SandboxInit PROVE SandboxIInv
  OBVIOUS
<1>1. SandboxTypeOK
  BY SandboxBounds DEF SandboxInit, SandboxTypeOK
<1>2. \A i \in Id : Places(queue, i) = {}
  BY DEF SandboxInit, Places
<1>3. JobsKept
  BY <1>2, FS_EmptySet DEF SandboxInit, JobsKept, InQueue, InHand, Places
<1> QED
  BY <1>1, <1>3 DEF SandboxInit, SandboxIInv, SandboxInv, FilesIn, WorkerIn

\* What the types say of the numbers and of the queue.
LEMMA Typed ==
  ASSUME SandboxTypeOK
  PROVE  /\ queue \in Seq(Id) /\ late \in Nat /\ deaths \in 0..MaxDeaths
         /\ \A i \in Id : /\ submitted[i] \in 0..MaxSubmits /\ analysed[i] \in 0..MaxSubmits
                          /\ InHand(i) \in {0, 1}
         /\ submitted \in [Id -> 0..MaxSubmits] /\ analysed \in [Id -> 0..MaxSubmits]
         /\ known \in [Stores -> SUBSET Id] /\ file \in [Stores -> (SUBSET Id) \cup {Corrupt}]
<1>1. /\ queue \in Seq(Id) /\ late \in Nat /\ deaths \in 0..MaxDeaths
      /\ submitted \in [Id -> 0..MaxSubmits] /\ analysed \in [Id -> 0..MaxSubmits]
      /\ known \in [Stores -> SUBSET Id] /\ file \in [Stores -> (SUBSET Id) \cup {Corrupt}]
  BY Zenon DEF SandboxTypeOK
<1>2. \A i \in Id : InHand(i) \in {0, 1}
  BY DEF InHand
<1> QED
  BY <1>1, <1>2

\* The jobs, told by their places.
LEMMA Jobs == JobsKept <=> (up => \A i \in Id :
  submitted[i] = analysed[i] + Cardinality(Places(queue, i)) + InHand(i))
BY DEF JobsKept, InQueue, Places

\* Submissions, and the call of stop.
LEMMA CallersKeep ==
  ASSUME SandboxIInv, (\E i \in Id : Submit(i)) \/ StopBegin \/ Joined
  PROVE  SandboxIInv'
<1> USE DEF SandboxIInv, SandboxInv, stores, counts
<1>1. ASSUME NEW i \in Id, Submit(i) PROVE SandboxIInv'
  <2>1. queue \in Seq(Id) /\ queue' = Append(queue, i) /\ Len(queue') = Len(queue) + 1
        /\ queue' \in Seq(Id)
    BY <1>1, Typed DEF Submit
  <2>2. \A k \in Id : Cardinality(Places(queue', k))
                       = Cardinality(Places(queue, k)) + IF i = k THEN 1 ELSE 0
    BY <2>1, PlacesAppend
  <2>3. \A k \in Id : Cardinality(Places(queue, k)) \in Nat
    BY <2>1, PlacesFinite
  <2>4. SandboxTypeOK'
    <3>1. submitted' \in [Id -> 0..MaxSubmits]
      BY <1>1, Typed, SandboxBounds DEF Submit
    <3>2. late' \in Nat
      BY <1>1, Typed DEF Submit
    <3> QED
      BY <1>1, <2>1, <3>1, <3>2 DEF Submit, SandboxTypeOK
  <2>5. JobsKept'
    <3>1. ASSUME NEW k \in Id
          PROVE  submitted'[k] = analysed[k] + Cardinality(Places(queue', k)) + InHand(k)
      <4>1. submitted[k] = analysed[k] + Cardinality(Places(queue, k)) + InHand(k)
        BY <1>1, Jobs DEF Submit
      <4>2. submitted'[k] = submitted[k] + IF i = k THEN 1 ELSE 0
        BY <1>1, Typed, SandboxBounds DEF Submit
      <4>3. InHand(k) \in {0, 1} /\ analysed[k] \in Nat
        BY Typed, SandboxBounds
      <4> QED
        BY <2>2, <2>3, <4>1, <4>2, <4>3
    <3> QED
      BY <1>1, <3>1 DEF Submit, JobsKept, InQueue, InHand, Places
  <2>6. FilesIn'
    BY <1>1 DEF Submit, FilesIn
  <2>7. WorkerIn'
    <3>1. Len(queue) \in Nat
      BY <2>1
    <3> QED
      BY <1>1, <2>1, <3>1, Typed DEF Submit, WorkerIn
  <2> QED
    BY <2>4, <2>5, <2>6, <2>7
<1>2. CASE StopBegin
  BY <1>2 DEF StopBegin, SandboxTypeOK, JobsKept, InQueue, InHand, FilesIn, WorkerIn
<1>3. CASE Joined
  BY <1>3 DEF Joined, SandboxTypeOK, JobsKept, InQueue, InHand, FilesIn, WorkerIn
<1> QED
  BY <1>1, <1>2, <1>3

\* The worker takes a job, or leaves its loop.
LEMMA TakeKeeps ==
  ASSUME SandboxIInv, Take \/ End
  PROVE  SandboxIInv'
<1> USE DEF SandboxIInv, SandboxInv, stores, counts
<1>1. CASE Take
  <2>1. /\ queue \in Seq(Id) /\ queue # <<>> /\ queue' = Tail(queue) /\ Head(queue) \in Id
        /\ queue' \in Seq(Id) /\ job' = <<Head(queue)>> /\ job' # <<>>
    BY <1>1 DEF Take, SandboxTypeOK
  <2>2. \A k \in Id : Cardinality(Places(queue, k))
                       = Cardinality(Places(queue', k)) + IF Head(queue) = k THEN 1 ELSE 0
    BY <2>1, PlacesTail
  <2>3. \A k \in Id : Cardinality(Places(queue', k)) \in Nat
    BY <2>1, PlacesFinite
  <2>4. SandboxTypeOK'
    BY <1>1, <2>1 DEF Take, SandboxTypeOK
  <2>5. JobsKept'
    <3>1. ASSUME NEW k \in Id
          PROVE  submitted[k] = analysed[k] + Cardinality(Places(queue', k)) + InHand(k)'
      <4>1. submitted[k] = analysed[k] + Cardinality(Places(queue, k)) + InHand(k)
        BY <1>1, Jobs DEF Take
      <4>2. InHand(k) = 0 /\ InHand(k)' = IF Head(queue) = k THEN 1 ELSE 0
        BY <1>1, <2>1 DEF Take, InHand
      <4>3. analysed[k] \in Nat
        BY Typed, SandboxBounds
      <4> QED
        BY <2>2, <2>3, <4>1, <4>2, <4>3
    <3> QED
      BY <1>1, <3>1 DEF Take, JobsKept, InQueue, Places
  <2>6. FilesIn'
    BY <1>1, SandboxStores DEF Take, FilesIn
  <2>7. WorkerIn'
    BY <1>1, <2>1 DEF Take, WorkerIn
  <2> QED
    BY <2>4, <2>5, <2>6, <2>7
<1>2. CASE End
  <2>1. Len(queue) <= late
    BY <1>2, Typed DEF End
  <2>2. SandboxTypeOK'
    BY <1>2 DEF End, SandboxTypeOK
  <2>3. JobsKept' /\ FilesIn'
    BY <1>2, SandboxStores DEF End, JobsKept, InQueue, InHand, FilesIn
  <2>4. WorkerIn'
    BY <1>2, <2>1 DEF End, WorkerIn
  <2> QED
    BY <2>2, <2>3, <2>4
<1> QED
  BY <1>1, <1>2

\* The analysis of the job in hand.
LEMMA AnalyseKeeps ==
  ASSUME SandboxIInv, Analyse
  PROVE  SandboxIInv'
<1> USE DEF SandboxIInv, SandboxInv, Doing
<1>1. PICK i \in Id : job = <<i>>
  BY DEF Analyse, WorkerIn, SandboxTypeOK
<1>2. /\ up /\ worker = "analyse" /\ analysed' = [analysed EXCEPT ![i] = @ + 1]
      /\ UNCHANGED <<up, running, queue, stopping, ioc, file, deaths, submitted, late>>
  BY <1>1 DEF Analyse
<1>3. \/ UNCHANGED known /\ worker' = "wait" /\ job' = <<>>
      \/ \E st \in Stores : /\ known' = [known EXCEPT ![st] = @ \cup {i}]
                            /\ worker' = st /\ st \in {"reputation", "verdicts"} /\ job' = job
  <2>1. PICK v \in Verdict :
          CASE v = "Malicious" ->
                 /\ known' = [known EXCEPT !["reputation"] = @ \cup {i}]
                 /\ Go("reputation")
            [] v = "Unknown" -> UNCHANGED known /\ Go("wait")
            [] OTHER ->
                 /\ known' = [known EXCEPT !["verdicts"] = @ \cup {i}]
                 /\ Go("verdicts")
    BY <1>1 DEF Analyse
  <2> QED
    BY <2>1, SandboxStores DEF Go
<1>4. JobsKept'
  <2>1. ASSUME NEW k \in Id
        PROVE  submitted[k] = analysed'[k] + Cardinality(Places(queue, k)) + InHand(k)'
    <3>1. submitted[k] = analysed[k] + Cardinality(Places(queue, k)) + InHand(k)
      BY <1>2, Jobs
    <3>2. InHand(k)' = 0 /\ InHand(k) = IF i = k THEN 1 ELSE 0
      BY <1>1, <1>2, <1>3 DEF InHand
    <3>3. analysed[k] \in Nat /\ analysed'[k] = analysed[k] + IF i = k THEN 1 ELSE 0
      BY <1>2, Typed, SandboxBounds
    <3>4. Cardinality(Places(queue, k)) \in Nat
      BY PlacesFinite DEF SandboxTypeOK
    <3> QED
      BY <3>1, <3>2, <3>3, <3>4
  <2> QED
    BY <1>2, <2>1 DEF JobsKept, InQueue, Places
<1>5. SandboxTypeOK'
  <2>1. analysed' \in [Id -> 0..MaxSubmits]
    <3>1. submitted[i] = analysed[i] + Cardinality(Places(queue, i)) + 1
      BY <1>1, <1>2, Jobs DEF InHand
    <3>2. Cardinality(Places(queue, i)) \in Nat
      BY PlacesFinite DEF SandboxTypeOK
    <3>3. analysed[i] + 1 \in 0..MaxSubmits
      BY <3>1, <3>2, Typed, SandboxBounds
    <3> QED
      BY <1>2, <3>3 DEF SandboxTypeOK
  <2>2. known' \in [Stores -> SUBSET Id]
    <3>1. known \in [Stores -> SUBSET Id]
      BY DEF SandboxTypeOK
    <3> QED
      BY <1>3, <3>1
  <2> QED
    BY <1>2, <1>3, <2>1, <2>2 DEF SandboxTypeOK
<1>6. FilesIn'
  <2>1. ASSUME NEW s2 \in Stores
        PROVE  \/ file'[s2] = Corrupt
               \/ file'[s2] \subseteq known'[s2] /\ (worker' # s2 => file'[s2] = known'[s2])
    <3>1. worker # s2 /\ file' = file
      BY <1>2, SandboxStores
    <3>2. file[s2] = Corrupt \/ file[s2] = known[s2]
      BY <1>2, <3>1 DEF FilesIn
    <3> QED
      BY <1>2, <1>3, <3>1, <3>2, Typed, SandboxStores
  <2> QED
    BY <2>1 DEF FilesIn
<1>7. WorkerIn'
  BY <1>1, <1>2, <1>3 DEF WorkerIn
<1> QED
  BY <1>4, <1>5, <1>6, <1>7

\* A death leaves only the files; they are as they were.
LEMMA GoneKeeps ==
  ASSUME SandboxIInv, deaths < MaxDeaths, Gone, UNCHANGED file
  PROVE  SandboxIInv'
<1> USE DEF SandboxIInv, SandboxInv, Gone, counts
<1>1. deaths' \in 0..MaxDeaths
  BY Typed, SandboxBounds
<1>2. SandboxTypeOK'
  BY <1>1 DEF SandboxTypeOK
<1> QED
  BY <1>2 DEF JobsKept, FilesIn, WorkerIn

\* The records of the worker.
LEMMA RecordKeeps ==
  ASSUME SandboxIInv,
         SaveReputation \/ SaveVerdict \/ AddHash \/ \E st \in Stores : SaveThrows(st)
  PROVE  SandboxIInv'
<1> USE DEF SandboxIInv, SandboxInv
<1>1. ASSUME NEW st \in {"reputation", "verdicts"}, NEW next \in {"add hash", "wait"}, Save(st, next)
      PROVE  SandboxIInv'
  <2>1. /\ up /\ worker = st /\ worker' = next
        /\ job' = IF next = "wait" THEN <<>> ELSE job
        /\ UNCHANGED <<up, running, queue, stopping, known, ioc, deaths, counts>>
        /\ \/ file' = [file EXCEPT ![st] = known[st]]
           \/ file' = [file EXCEPT ![st] = Corrupt]
    BY <1>1 DEF Save, Doing, Go
  <2>2. st \in Stores
    BY SandboxStores
  <2>3. SandboxTypeOK'
    <3>1. file' \in [Stores -> (SUBSET Id) \cup {Corrupt}]
      BY <2>1, <2>2, Typed
    <3> QED
      BY <2>1, <3>1 DEF SandboxTypeOK, counts
  <2>4. JobsKept'
    BY <2>1 DEF JobsKept, InQueue, InHand, counts
  <2>5. FilesIn'
    BY <2>1, <2>2 DEF FilesIn, SandboxTypeOK
  <2>6. WorkerIn'
    BY <2>1 DEF WorkerIn, counts
  <2> QED
    BY <2>3, <2>4, <2>5, <2>6
<1>2. CASE AddHash
  <2>1. CASE Gone /\ deaths < MaxDeaths /\ UNCHANGED file
    BY <2>1, GoneKeeps
  <2>2. CASE /\ ioc' = ioc \cup {job[1]} /\ Go("stuck")
             /\ UNCHANGED <<up, running, queue, stopping, known, file, deaths, counts>>
    <3>1. up /\ worker = "add hash" /\ worker' = "stuck" /\ job' = job
      BY <1>2, <2>2 DEF AddHash, Doing, Go
    <3>2. PICK i \in Id : job = <<i>>
      BY <3>1 DEF WorkerIn, SandboxTypeOK
    <3>3. SandboxTypeOK'
      BY <2>2, <3>1, <3>2 DEF SandboxTypeOK, counts
    <3> QED
      <4>1. JobsKept' /\ WorkerIn'
        BY <2>2, <3>1 DEF JobsKept, InQueue, InHand, WorkerIn, counts
      <4>2. FilesIn'
        BY <2>2, <3>1, SandboxStores DEF FilesIn
      <4> QED
        BY <3>3, <4>1, <4>2
  <2> QED
    BY <1>2, <2>1, <2>2 DEF AddHash
<1>3. ASSUME NEW st \in Stores, SaveThrows(st) PROVE SandboxIInv'
  BY <1>3, GoneKeeps DEF SaveThrows
<1> QED
  BY <1>1, <1>2, <1>3 DEF SaveReputation, SaveVerdict

\* A process that starts has what its files say.
LEMMA RestartKeeps ==
  ASSUME SandboxIInv, Restart
  PROVE  SandboxIInv'
<1> USE DEF SandboxIInv, SandboxInv
<1>1. SandboxTypeOK'
  <2>1. known' \in [Stores -> SUBSET Id]
    BY Typed DEF Restart
  <2>2. /\ submitted' \in [Id -> 0..MaxSubmits] /\ analysed' \in [Id -> 0..MaxSubmits]
        /\ queue' \in Seq(Id)
    BY SandboxBounds DEF Restart
  <2> QED
    BY <2>1, <2>2 DEF Restart, SandboxTypeOK
<1>2. \A i \in Id : Places(queue', i) = {}
  BY DEF Restart, Places
<1>3. JobsKept'
  BY <1>2, FS_EmptySet DEF Restart, JobsKept, InQueue, InHand, Places
<1>4. FilesIn'
  BY DEF Restart, FilesIn, SandboxTypeOK
<1>5. WorkerIn'
  BY DEF Restart, WorkerIn
<1> QED
  BY <1>1, <1>3, <1>4, <1>5

-----------------------------------------------------------------------------
(* The theorems.                                                           *)

\* SandboxIInv is inductive.
THEOREM SandboxInvariant == SandboxSpec => []SandboxIInv
<1>1. SandboxIInv /\ [SandboxNext]_xvars => SandboxIInv'
  <2> SUFFICES ASSUME SandboxIInv, [SandboxNext]_xvars PROVE SandboxIInv'
    OBVIOUS
  <2>1. CASE Kill
    BY <2>1, GoneKeeps DEF Kill
  <2>2. CASE UNCHANGED xvars
    BY <2>2 DEF xvars, engine, stores, counts, SandboxIInv, SandboxInv, SandboxTypeOK, JobsKept,
                InQueue, InHand, FilesIn, WorkerIn
  <2> QED
    BY <2>1, <2>2, CallersKeep, TakeKeeps, AnalyseKeeps, RecordKeeps, RestartKeeps
       DEF SandboxNext, WorkerStep
<1> QED
  BY SandboxInvInit, <1>1, PTL DEF SandboxSpec

\* Every submission is queued, in hand or analysed, and none of them twice
\* (submit and workerLoop).
THEOREM SandboxJobs == SandboxSpec => []SandboxInv
BY SandboxInvariant, PTL DEF SandboxIInv

\* When stop() has returned, only jobs are left that were submitted after its
\* call.
THEOREM SandboxDrains == SandboxSpec => []StopDrains
<1>1. SandboxIInv => StopDrains
  BY DEF SandboxIInv, WorkerIn, StopDrains
<1> QED
  BY SandboxInvariant, <1>1, PTL

\* What a store answers is in its file, but for the entry that is being saved,
\* unless the file was cut short (saveUnlocked).
THEOREM SandboxSaved == SandboxSpec => []SavedAsKnown
<1>1. SandboxIInv => SavedAsKnown
  BY DEF SandboxIInv, FilesIn, SavedAsKnown
<1> QED
  BY SandboxInvariant, <1>1, PTL

\* A record in a file stays there, over deaths and restarts, unless a later
\* write is cut short.
THEOREM SandboxRecords == SandboxSpec => RecordsKept
<1> DEFINE Kept == \A st \in Stores :
       file[st] # Corrupt => file'[st] = Corrupt \/ file[st] \subseteq file'[st]
<1>1. SandboxIInv /\ [SandboxNext]_xvars => [Kept]_xvars
  <2> SUFFICES ASSUME SandboxIInv, SandboxNext PROVE Kept
    OBVIOUS
  <2>1. ASSUME NEW st \in {"reputation", "verdicts"}, NEW next, Save(st, next) PROVE Kept
    <3>1. /\ up /\ st \in Stores
          /\ \/ file' = [file EXCEPT ![st] = known[st]]
             \/ file' = [file EXCEPT ![st] = Corrupt]
      BY <2>1, SandboxStores DEF Save, Doing
    <3> QED
      BY <3>1 DEF SandboxIInv, SandboxInv, SandboxTypeOK, FilesIn
  <2>2. CASE UNCHANGED file
    BY <2>2
  <2> QED
    BY <2>1, <2>2 DEF SandboxNext, WorkerStep, SaveReputation, SaveVerdict, SaveThrows, AddHash,
       Kill, Restart, Submit, StopBegin, Joined, Take, End, Analyse, stores
<1> QED
  BY SandboxInvariant, <1>1, PTL DEF SandboxSpec, RecordsKept
=============================================================================
