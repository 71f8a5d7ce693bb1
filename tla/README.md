# A verification development for Email_Server_Backend

TLA+ modules that model the parts of the mail server which keep state under
concurrency and failure, TLC configurations that check them on small instances,
and theorems about them that TLAPS has checked for all values of the constants.
`PROJECT.json` says which definition stands for which lines, which run checks
which property, and which fault each property finds.

    tlc -workers 2 -config MCHaQueue.cfg MCHaQueue     # one run
    tlapm QueueProofs.tla                              # one module's proofs

Paths below are relative to `src/src/` of the repository unless they begin with
another directory.


## 1. The system and its parts

One process (`main.cpp`) listens for SMTP and IMAP, stores what it accepts as
files, and serves metrics and an admin page.  Several processes may share the
directories (`README.md:189` of the repository: "Ensure shared storage for mail
data").  `docker-compose.yml` restarts a process that ends.

| part | state | operations | what must hold |
|---|---|---|---|
| outbound queue `queue/mail_queue.cpp` | four directories of `.msg` files, temporary files | `enqueue`, `fetchReady` (reclaim, lease, read), `markSuccess`, `markTempFail`, `markPermFail`, recovery at start | an acknowledged message is never lost, in two directories, or half-written |
| retry worker, delivery `queue/retry_worker.cpp`, `delivery/smtp_client.cpp` | the message in hand | `runOnce` | a copy more than one needs a fault; every queued message comes to an end |
| election `ha/leader_election.cpp`, `ha/ha_controller.cpp` | the lock file, `running_`, `leader_` | `start`, `stop`, the thread's rounds | one process drains the queue at a time |
| mail store `storage/mail_store.cpp` | INBOX and Quarantine directories | `store`, `moveToQuarantine`, `deleteMessage`, recovery | what was stored stays until a verdict; what failed is not there |
| retroactive actions `retro/` | none of their own | `execute` | acts on the message it was meant for |
| SMTP session `smtp/smtp_session.cpp` | the dialogue's state, envelope | the commands, DATA, time-outs | 250 means durable; envelopes do not mix; AUTH is not skipped |
| SMTP server `smtp/smtp_server.cpp` | threads, sockets, `running_` | accept loop, session threads, `stop` | counters agree with the connections; `stop` returns |
| connection manager, rate limiter `core/` | counters | acquire, release, allow | limits |
| IMAP server `imap/imap_server.cpp` | threads, listener, a counter | accept loop, session threads, `stop` | the counter balances; `stop` leaves nothing behind |
| IMAP session, flags index `imap/` | the dialogue; an index file | commands | - |
| distributed accounts `core/distributed_auth_manager.cpp` | two maps, a map of expiries | add, remove, create, validate, invalidate, cleanup | a revoked session stays revoked; accounts and sessions last as computed |
| sandbox engine `virus/sandbox_engine.cpp` with `threat_intel/hash_reputation.cpp`, `threat_intel/ioc_store.cpp`, `virus/sandbox_verdict_store.cpp` | a queue, three maps, two files used here | `submit`, the worker, `stop` | no job dropped or done twice; files follow the maps |
| shutdown coordinator `core/shutdown_coordinator.cpp` | hooks, two flags | register, initiate, wait | phases in order, every hook once |
| application lifecycle `core/app_lifecycle.cpp` | a state, subsystems | register, initialize, shutdown | the state tells what runs |
| local accounts `core/auth_manager.cpp`, `core/password_hash.cpp` | `users_`, the users file and its temporary file | `loadFromFile` with the migration of plain text, `validate` | no account is lost by a migration; memory holds hashes, and those that are on disk |
| log and audit log `core/logger.cpp`, `core/audit_log.cpp` | the files of the rotation, a counter of the size, two mutexes | `setFile`, `log`, `rotateIfNeeded`, `writeLog` | the files are the last lines in order; no file is over its size by more than its last line; an audited event is in both |
| configuration `core/config_loader.cpp`, `core/tls_enforcement.cpp`, `core/tls_context.cpp` | a value | load, validate | mail is served as configured |
| process `main.cpp` with `monitoring/http_metrics_server.cpp`, `admin/admin_server.cpp` | what is started, two HTTP threads and listeners | start, signal, stop, join | mail is served as configured; every thread is joined; a signal ends the process (it need not, section 7) |
| the others | see `PROJECT.json`, components | | not modelled, section 8 |

How they interact: a session thread of the SMTP server calls the mail store and,
at its end, the connection manager and the rate limiter; `stop` of a server
closes descriptors that its session threads use and joins them.  The HA
controller's thread calls the retry worker, which calls the queue, the delivery
client and `SandboxEngine::submit`.  The sandbox's worker writes to the stores of
threat intelligence.  Retroactive actions rename and delete files of the store
that sessions write.  `main` starts the sandbox, metrics, admin, SMTP and IMAP in
this order, and stops SMTP, IMAP, admin, metrics and the sandbox in that
(`main.cpp:80-187`).  Every part logs; `AuditLog` logs under its own mutex what it
has written.  At a login a session asks one of two managers of accounts, which
`ServerContext` chose when the process started.

Hard to test: the processes of a cluster on one directory tree; a process that
dies between two system calls; a lost reply of a remote host; file system errors
that the code swallows; threads that end while `stop` looks at them; descriptor
numbers that the system reuses; entries that expire between two locked steps;
mutexes that are held across calls; files that are renamed one after the other;
threads that block in `accept` while `main` joins them.  The hazards are listed at their lines in
`PROJECT.json`.


## 2. The plan

Modules in the order of importance, each with its abstract statement:

1. `MailQueue`, then `HaQueue` on top of it, shown to implement `DurableQueue`.
2. `MailStore`, shown to implement `Mailbox`, then `SmtpSession` on top of it,
   shown to implement `Relay`.
3. `SmtpServer` (with the connection manager and the rate limiter), `ImapServer`.
4. `DistributedAuth`, `SandboxEngine`.
5. `ShutdownCoordinator`, `AppLifecycle`.
6. `LocalAccounts`, `Logging`, and `Process` with `Config` on top of it.
7. Proofs for all of these, in `*Proofs` modules.

All of these are written, checked and, for 7, proved.  What could follow:

* the cache and detached threads of `cloud_scanner.cpp`, should anything call it;
* a disk that loses directory entries in a power failure (the code flushes files,
  not directories);
* the evaluation tables of SPF and DMARC as operators against a reference.


## 3. The modules

A module has the source's names where the language allows it.  Actions named
`X_Something`, introduced by "Fault:", are variants of the action `X` with a
plausible bug; they are in no next-state relation and serve to show that a
property notices the bug.

### MailQueue
The directories are sets of messages; a message is a model value and names its
file (`genId`, a random number and the time, is taken to be unique).  Every
action is one file system call, or the code between two of them.  `Enqueue`
follows `enqueue` and `atomicWriteFile`: depth check, temporary file, write and
flush, rename, check of the result; each call may fail.  A process (`Node`)
starts by removing temporary files, all of them, also those of another process
(`RemoveOrphan`).  Its worker runs `runOnce`: `FetchReady` goes through
`inflight` for leases older than five minutes (`stale`), then through `active`
for a file to lease; `Deliver` gives the outcome and whether the remote host has
taken a copy; `Mark` moves or removes the file.  `todo` is the rest of a running
directory iteration, which may see a file after it was moved.  `Death` is a kill
at any point or the exception of `last_write_time` outside every `try`
(`VanishedLease`).  `faults` counts deaths and errors that the code swallows.

### HaQueue
Adds the lock file and the controller: `Lead` takes the lock, or finds that this
process has it, and begins a pass; `Follow` finds it taken; `StopController` is
the join and the release.  A death releases the lock, as the system closes the
file.  `MailQueue`'s `BeginPass` is possible only as part of `Lead`.

### DurableQueue
What a caller may rely on, in three variables: where the message is, what the
caller was told, how many copies the remote host has.  `HaQueue` maps to it by
`StatusOf` and `AnswerOf`.  `MailQueue` alone does not implement it: without the
lock a worker may send a message that has left the queue.

### MailStore
`Path` is mailbox and id; the id is the clock (`generateId`), so that two calls
may draw the same.  `put[m]` is how far the call for `m` has come; the mutex is
held from `named` to `moved`.  `Retro` is a verdict about a stored message and
goes by its path.  `Kill` and `Restart` are the process.

### Mailbox
What a caller of the store may rely on, in four variables: the two directories,
what the caller of `store` was told, and the name it was told.  A message enters
by one step (`Deliver`), and then its caller has the name, or nothing it can rely
on.  It is told that nothing was stored only when nothing was (`AnswerEmpty`,
which looks at all names), and verdicts go by the name.  Temporary files, the
mutex, the clock, the restarts and the places in a call are hidden.  `MailStore` maps
to it by `Told` and `ToldId`; the two directories are the same.  A name may be
given twice, as the code does, and then the later message replaces the earlier.

### SmtpSession
Extends `MailStore`.  `at` is where the thread is, `state` is `state_`.  A
command has an action if it changes anything.  `Leave` is every way out of a
session that waits for a command.  `BodyRead` ends a body, be it by the dot, by a
line that is too long or by a connection that ends; `BodyRefused` and
`BodyThrows` are the two others.  Then the store's own steps run, and `Reply`
answers.  `agreed` is what the replies tell the client its envelope is.  The
server makes every session with `tlsActive_` set, so that STARTTLS is always
refused.

### Relay
What a client of the server may rely on.  Extends `Mailbox` by clients that log
in, open a transaction and hand a message over with it (`Submit`, possible only
after a login); `Store` lets the steps of `Mailbox` happen to a message that was
handed over, in the mailbox of the first recipient of its envelope; `Reply`
acknowledges the messages whose name was told.  `SmtpSession` maps to it by
`Open`, the transaction that the states MAIL_FROM and RCPT_TO stand for, and
`Sent`, the sender and the recipients that `handleData` gave to the store.  The
states themselves, the history variable `agreed` and what `MailStore` hides from
`Mailbox` are hidden.

### SmtpServer
`acc` is where the accept loop is, `conn[c]` where the thread of client `c` is.
`holder` says whose a descriptor number is, so that a close by number of a
socket that somebody else has by now is visible; `Other` stands for the rest of
the process.  A window of time may be found expired by any call.  The circuit
breaker is left out: a session catches all it throws, so no failure is counted.
`leaked` counts the permits that failed handshakes never gave back.

### ImapServer
As `SmtpServer`, with one counter, and with a listener that both `stop` and the
end of `run` close.  `Start` is one step (the listener is bound before anything
else can happen to it).

### DistributedAuth
Redis is simulated by the code: `account` and `cached` are the two kinds of keys
of `userCache_`, `session` is `sessionCache_`.  Operations that lock twice are
two actions, `Begin` and `End`; `Cleanup` can come between.  `expiry` is the
local variable of `createSession`; two clocks are read, so that the cached expiry
may be one second off.

### SandboxEngine
`Take`, `Analyse`, `SaveReputation`, `AddHash`, `SaveVerdict` are the worker's
steps; `AddHash` of malware locks a mutex that the thread has (`stuck`).
`file[st]` is what is on disk; a write that fails leaves it `Corrupt` or ends the
process by an exception.  `Restart` loads what can be loaded.

### ShutdownCoordinator, AppLifecycle
One action for each call of a hook or a subsystem, so that another thread can
act between.  A mutex that a thread locks twice blocks it, as with glibc.  They
share `Threads`, the set of threads, with `Logging`.

### LocalAccounts
`file` and `temp` are the users file and the temporary one, as functions from
accounts to what stands for their passwords: plain text, a hash of it, or
something that only looks like a hash.  Each call to the file system is an action
that may fail: `OpenTemp`, `WriteTemp` (a failing one leaves part of the
accounts), `Discard`, `RenameTemp`; `Publish` takes the new hashes into `users`.
A stream keeps writing to the file it opened, whatever that is called by then
(`handle`), for processes of a cluster share the users file and use the same
temporary name.  `Edit` is the administrator, `EndProcess` an exit or a kill at any
point.  `overlap` records that the file was edited, or read for another
migration, during a migration.

### Logging
A file is the sequence of its lines, `text[0]` the log and `text[i]` what was
renamed from it, `bytes[i]` its size.  A line takes `Size` of a file, which differs
from line to line; `fileSize` adds `Slack` more, as the code adds 64 for a prefix
and an end of line that take less.  The size is looked at before a line is
written, and not the line, so that a file may be over `MaxSize` by its last line:
`SizeBounded` says that it is by no more.  `Rotate` is one round of the loop, `RotateThrows` a rename that
throws out of `log`, `Reopen` and `WriteLine` the rest of it.  An audited line
takes `audit_mutex` first.  `LogDeath` is the end of a process and its restart;
`SetFile` reads the size back.  `written`, `filed` and `done` are history.

### Process, Config
`Config` has what `validateConfig` refuses, as one predicate for each group of
checks, and what `tls_enforcement.cpp` and `main` ask again.  `Process` is `main`
step by step (`pc`), with the threads it starts and joins.  The two HTTP servers
are modelled to the system call (`accept`, `recv`), since joining them depends on
it; the mail servers, which have modules of their own, are what `main` sees of
them.  A return from `main` runs the destructors: with a joinable thread left it
ends in `terminate` (`Joinable`, `Return`).

One signal may come at any time (`Signal`), and interrupt `main` or one of the
other threads, or be handled on a thread of its own.  `Handle` is the handler: it
logs, for which it needs the mutex of the logger (`logger`, `TakeLogger`,
`GiveLogger`), and only then clears `go`.  On a thread that it has interrupted inside
of `log` it waits for ever; while it waits, the thread it has interrupted does
(`MainRuns`), and so does each step of `main` that logs if that thread has the mutex.


## 4. The runs

| run | instance | what it shows |
|---|---|---|
| `mailqueue` | 2 messages, 2 processes, no lock, 1 fault | `NoLoss`: an acknowledged message is in a directory or the remote host took it. `SinglePlace`: at most one directory. None of it needs the lock |
| `haqueue` | 1 message, 2 processes, 2 faults | with the lock: `PassNeedsLock`, `LeaseKept` (nobody takes a lease from a running delivery, though it may be older than five minutes), `DuplicateNeedsFault`; `QueueDrains`; `ImplementsDurable` |
| `ha_retry` | the same, no fault | violated: `FailureRetried` |
| `mailstore` | 2 calls, 2 mailboxes, 2 clock values | `KeptUnlessNamesake`; `StoreReturns`; `ImplementsMailbox` |
| `smtpsession` | 2 sessions, 1 message each, 1 mailbox, 2 clock values | `EnvelopeAsAgreed`, `AckedIsDurable`; `ImplementsRelay` |
| `smtp_recipients` | 1 session, 2 recipients | violated: `EveryRecipientServed` |
| `smtpserver` | 2 clients of one address, limits of 2, TLS port | `SrvInv` (types and `PermitsBalance`), `GlobalBounded`, `NoPhantoms`, `StopReturns` |
| `imapserver` | 3 clients, limit of 2, TLS port | `ImapInv` (types and `CountBalances`), `StopLeavesNothing`, `StopReturns` |
| `accounts` | either 2 processes, 2 accounts of any kind, 1 password or an empty one; or 2 threads, 1 account, 2 sessions, 5 instants | local accounts: `AccountsSurvive`, `InMemoryIsOnDisk`, `KeptHashed`. Cluster: `RevokedUnlessRaced`, `AccountsFollow`, `SessionLasts` |
| `sandbox` | 2 ids, 2 submissions each, 2 deaths | `SandboxInv` (types and `JobsKept`), `StopDrains`, `SavedAsKnown`, `RecordsKept`, `StopReturns` |
| `services` | 3 threads; 3 hooks, two of one priority; or 3 subsystems; or 5 lines, two of them audited, and 2 faults; or 1 client, a configuration for each limit at it and beyond it, 54 environments, 1 signal | coordinator: `PhasesInOrder`, `ToldIsDown`. Lifecycle: `StateIsTrue`. Log: `KeptInOrder`, `SizeBounded`, `AuditedInOrder`. Process: `ServesAsConfigured`, `EndsInOrder`, `AdminEndsAlone` |
| `process` | 2 clients, 2 of these configurations | violated: `SignalEnds` |

`accounts` and `services` put parts side by side that do not share a variable: the
initial state chooses one (`activeAuth`, as `ServerContext` does; `service`), the
others rest.

The type invariants, and those that the theorems of section 6 are about but no
run names (`OnlyComplete`, `NoVanishedLease`, `OnlyWhole`, `FailedIsAbsent`,
`EachOnce`, `OnlyAuthenticated`, `StopLeavesLost`, `EarlierPhasesRun`,
`HigherFirst`, `CalledOnce`, `TrueMeansAll`), were checked with TLC on the same
instances before they were proved, as were the inductive invariants.

`CHECK_DEADLOCK FALSE` stands where the system may stop for good: a server that
has been stopped (`smtpserver`, `imapserver`), a process that has ended or whose
handler waits for its own thread (`services`, `process`), one that may not die
again (`sandbox`, `MaxDeaths`), a shutdown that is over, a thread blocked on its own
mutex, and no line left to log (`services`), and time that has run out
(`accounts`, `MaxTime`).

### Bounds
* `MaxDepth = 1`: a queue that is full with one message; the depth check takes
  both branches.
* `MaxFaults`: deaths and swallowed errors.  One lets every single fault meet
  every interleaving of two processes; two, in `haqueue`, lets a restart follow a
  lost reply, or two deaths follow each other.
* `MaxCopies`: the remote host accepts no more copies than this.  In `haqueue` it
  is 3, so that `DuplicateNeedsFault` could fail with no fault and with one; in
  `mailqueue` it is 1, for whether a message was accepted is all that `NoLoss` asks.
* Two processes and two messages are enough for each pair of steps that can
  conflict over a file; the proofs are about any number.
* `MaxRcpt = 1` in `smtpsession`, as a second recipient changes nothing of the
  order of steps; 2 in `smtp_recipients`; any number in the proof.
* Two clock values: the same id twice, or not.
* `GlobalMax = PerIpMax = ConnLimit = 2` with two clients: each limit is reached
  by leaked permits and by connections; `MaxRate = 3` stops the count of a window
  one above the limit.
* `Fd` has as many numbers as clients, so that they are reused.
* `Files = 1`, `MaxSize = 3`, `Slack = 1`, with two lines of size 1 and three of
  size 2: a rotation that replaces a file, one of a file that is over its size by a
  line, is full, or is short of it as the counter is ahead, and one after a
  restart that has put the counter back.  `MaxFaults = 2` lets a death follow a rename that failed.
* The configurations of `services` are one for each comparison of
  `validateConfig`, at its limit and one beyond, ports that 16 bits fold to the
  default ones among them (65561, 65679).  The environments set each of the four
  variables to nothing, to a file, or not at all (`TLS_KEY` not to nothing: what
  this does is as for `TLS_CERT`).  In `process` they are two, with TLS and without:
  how a process ends does not depend on the limits.  One client is enough for the
  safety properties, where it waits, is served or is reset; two are in `process`,
  and any number in the proofs.
* One signal: `g_running` is never set again, so that a second one could only wait.
* Two processes and two accounts: a migration that another one overtakes, and a
  file that is cut between two accounts.
* `MaxTime = 4`, `Ttl = 2`, `Hours = 1`: every entry expires within the run and
  can be renewed.
* `MaxSubmits = 2`, `MaxDeaths = 2`: the same id twice in the queue; loading a
  file that was damaged before the last death.

Symmetry is used in runs without liveness properties only.


## 5. Fairness

* `HaFairSpec`: the threads of a running process run, and time passes.  That a
  process or a controller is started is not assumed: `QueueDrains` has the premise
  that on some node the controller stays running.  File system calls that fail
  are faults, and bounded.
* `StoreFairSpec`: the threads inside `store` run.
* `SrvFairSpec`: the accept loop, `stop` and the session threads run, a session
  whose socket was closed wakes up.  Clients may stay silent.  `StopReturns` has
  the premise that sessions that wait are listed in `clientSockets_`; the code
  does not ensure it, section 7.
* `ImapLeavingSpec`: as above, and every client leaves in the end, for `stop`
  does not wake sessions.
* `SandboxFairSpec`: the worker and the joining thread run.
* `ProcFairness`: `main` and its threads run, and a call of `log` ends.  `main` and
  the handler wait for the logger's mutex, which others take in turn: they get it
  in the end (strong fairness).  A client that has connected sends or leaves, which
  the code does not ensure, so that the violation of `SignalEnds` is not about one
  that is silent.  No client has to connect, to either server.


## 6. The proofs

| module | invariant | theorems |
|---|---|---|
| `QueueProofs` | `QueueInv`, `HaInv` | `QueueTypes`, `QueueNoLoss`, `QueueSinglePlace`, `QueueOnlyComplete`; `HaTypes`, `LockExcludes`, `LeaseIsKept`, `NoLeaseVanishes`, `DuplicatesNeedFaults`, `HaImplementsDurable` |
| `MailProofs` | `StoreInv`, `BoxInv`, `SmtpInv`, `Bound` | `StoreTypes`, `StoreKeeps`, `StoreFailureIsClean`, `StoreOnlyWhole`, `StoreImplementsMailbox`, `StoreEachOnce`; `SmtpTypes`, `SmtpEnvelope`, `SmtpAuthenticated`, `SmtpAckedIsDurable`, `SmtpImplementsRelay`, `SmtpUsesStore` |
| `AccountsProofs` | `AuthInv`, `AccountInv` | `AuthRevoked`, `AuthAccountsFollow`, `AuthSessionLasts`; `AccountTypes`, `AccountsKept`, `MemoryOnDisk`, `AlwaysHashed`, `TrueIsAll` |
| `ServicesProofs` | `CoordInv`, `LifecycleInv`, `LogInv`, `LogIInv` | `CoordPhasesInOrder`, `CoordToldIsDown`, `CoordCalledOnce`; `LifecycleStateIsTrue`, `LifecyclePhases`, `LifecycleHigherFirst`; `LogTypes`, `LogSizeBounded`, `LogKeptInOrder`, `LogAuditedInOrder` |
| `ProcessProofs` | `ProcInv` | `ProcInvariant`, `ProcServesAsConfigured`, `ProcEndsInOrder`, `ProcAdminEndsAlone` |
| `SmtpServerProofs` | `SrvIInv` | `SrvInvariant`, `SrvPermitsBalance`, `SrvGlobalBounded`, `SrvNoPhantoms`, `SrvStopLeavesLost` |
| `ImapServerProofs` | `ImapIInv` | `ImapInvariant`, `ImapCounts`, `ImapStopLeavesNothing` |
| `SandboxEngineProofs` | `SandboxIInv` | `SandboxInvariant`, `SandboxJobs`, `SandboxDrains`, `SandboxSaved`, `SandboxRecords` |

The assumptions are the named `ASSUME`s of the modules: names that mean
"nothing" are not members of the sets they complete, bounds are numbers, times
are positive, and "no message" is not an envelope (`EnvelopeAssumption`).  Clients
and addresses of the two servers are finitely many, since their properties count
them.  No bound is used otherwise: the theorems are about any number of
processes, messages, mailboxes, ids, sessions, recipients, users and threads.

*Queue.*  `NoLoss` is not inductive: that a message is in one directory says
nothing about one whose call of `enqueue` is at the rename.  `QueueInv` adds
where the file is at each point of `enqueue` (`Placed`), and that what a worker
delivers or marks came from a directory (`Held`).  It holds without the lock,
which is why every file operation has to be considered in every state of another
process.

*Election.*  `HaInv` adds that a thread within a pass has the lock and that the
lock belongs to a running process (`LockDiscipline`); hence what it has leased is
in `inflight` (`Leased`), and a copy beyond the first is paid for by a fault
(`Owes`, `Paid`).  The refinement takes `HaInv` and shows that each step maps to a
step of `DurableQueue` or a stutter.

*Store.*  `StoreInv` says whose each file is (`FileInv`) and what a call relies on
at each point (`CallInv`): the mutex is held exactly from the choice of the id to
the answer, so the temporary file of that path is its own.

*Session.*  `SmtpInv` relates the dialogue to the letters under way: the envelope
that is kept is the agreed one, no transaction begins unauthenticated, a session
that stores waits for a call that is its own.  The durability theorem combines it
with `StoreInv`.

*Mailbox.*  The steps of a call before the rename are not seen, or are the empty
answer (`BoxBefore`); by `NothingLeft` the caller is then told the truth, for
`FileInv` lets a message be in a mailbox only in the last states of its call.  The
rename and what follows are `Deliver` and an answer (`BoxAfter`): that the name
can still be told at `Verify` is `CallInv`, and rests on the mutex that `Retro` takes.
A kill is one step that answers "unknown" to all calls under way (`BoxDeath`).
`StoreEachOnce` is proved of `Mailbox` alone (`BoxInvariant`), where the reason is
short (a message enters only while it is out), and carried over by the refinement.

*Relay.*  The refinement needs `SmtpInv` and `Bound`: that a call under way is for
the first recipient of its letter, and that a session that stores nothing waits
for nothing.  There is a lemma for commands (`RelayLine`), for DATA and its answer
(`RelayData`) and for the store (`RelayStore`), which cites those of the Mailbox
refinement (`SameBox`).  `SmtpUsesStore` is the other direction of the
composition: the sessions make only those steps that `MailStore` allows its
callers, so that all that is proved of the store alone holds under them.

*Accounts.*  `AuthInv` says what a thread between its two locked steps can rely on
(`InProgress`), that a revoked session is in neither map nor on its way to one
(`RevokedIsGone`), and which expiry each entry has (`ExpiriesKept`), including
that the cleanup removes nothing before it is over.

*Local accounts.*  That the file keeps every account is not inductive: `RenameTemp`
puts a file in its place that was written before.  `AccountInv` says what that
file is (`Undisturbed`): without an overlap there is one migration, of the file
that is there, the stream still writes to the temporary file, and what is
renamed is complete.  `InHand`, which needs no such premise, is what keeps plain
text out of memory: `users_` has only accounts that were hashed already.

*Coordinator.*  `CoordInv` gives the thread that has the mutex one place
(`OneShutdown`), and what has been called of each hook by that place (`StageIn`,
`AllInPhase`); `AllDown` is what the flag stands for.

*Lifecycle.*  `LifecycleInv` says what is initialised and what runs in each state
(`InState`).

*Log.*  A file was below the limit without its last line because the counter is
never below the size of the file (`Counted`), also after `setFile`, and because a
thread that is about to write saw it below the limit and has had the mutex since
(`InTheLog`).  How much a line takes is any positive number, another one for each
line.  The order is
stated by positions: `KeptInOrder` says that there are cuts of all that was
logged such that each file is the piece between two of them.  A rename moves one
piece to the next number, whose own piece was moved on before (`Moved`), also when a
rename fails or the process dies in between; this is what `LogIInv` adds.
`AuditedInOrder` gives each event of the log its place in the audit file.
It is kept because a thread has `audit_mutex` from its line in that file to its
line in the log (`AuditHeld`), so that the line it is about to log is the last one
there and later than those that the log has (`AuditTrail`).

*Process.*  `ProcInv` is a table from the place of `main` to what is started
(`PartsIn`, `EngineIn`); the HTTP threads never begin or join on their own
(`HttpSteps`).  `AdminEndsAlone` needs that the admin server was told to stop before
its listener is closed: a thread that opens it only afterwards is before its next
look at `running_` (`AdminIn`, `AdminStays`).  The port theorem is arithmetic over
16 bits.

*SMTP server.*  The counter goes up and down under no lock that the states of the
connections are under, so that each step between must say who has the permit
(`Counted`); those that failed handshakes have kept are counted as pairs of an
address and a number (`Lost`), which makes the sum over addresses the size of a
set.  `GlobalBounded` needs that the look at the counter still holds when it is
raised: there is one accept loop, and all others lower it (`RoomSeen`, `InHands`).
`Stopped` says what `stop()` has seen to at each of its steps.

*IMAP server.*  The counter balances by itself: it goes up under the state of a
thread and down with it.  What needs strengthening is the descriptors.  `Held` goes
from the holder of a number to the connection and not back, because the second
close of a connection (`CloseAgain`) may close a number that is in use again;
`LoopIn` says which connection the accept loop has and which of the sockets and
threads `stop()` has passed.  The proof takes the clients to be finitely many.

*Sandbox.*  No submission is counted twice: `SandboxInv` counts the places of a job
in the queue, in hand and among the results, and each step moves one.  A store is
saved after it is changed in memory, so `FilesIn` lets a file lag behind its map, and
only for the store the worker is about to save.  `WorkerIn` says what may be left in
the queue when the worker has ended: what came after the call of `stop()`.

Only model-checked: the liveness properties (`QueueDrains`, `StoreReturns`,
the three `StopReturns`), as they need fairness and `ENABLED`, which are out of the
prover's reach.  Every other property of a passing run is a theorem.


## 7. Known divergences

Three are kept as runs that TLC refutes:

* `ha_retry`: `markTempFail` moves a message to `queue/failure`
  (`queue/mail_queue.cpp:347`), which `fetchReady` never reads, though
  `queue/retry_worker.cpp:44` says "will retry later".  `retryCount` is never
  raised, `retry_policy.h` has no user, and `countReadyMessages` counts a list
  that is never filled.
* `smtp_recipients`: the message is stored for `rcptTo_[0]` only
  (`smtp/smtp_session.cpp:581`), and 250 is sent for all.
* `process`: `HttpMetricsServer::stop` joins a thread that is in `accept()`
  (`monitoring/http_metrics_server.cpp:39`) at a listener that nothing closes.  A
  process that was sent a signal waits there until somebody scrapes its metrics,
  though `run.md:334` stops it with `kill` and `wait`.

The rest was met while modelling.  The models have the behaviour; the properties
above are stated so as to say what holds nevertheless.

* `queue/mail_queue.cpp:63`: after the rename the file is looked for again; a
  worker may have leased it by then, and `enqueue` throws for a queued message.
* `queue/mail_queue.cpp:133`: two calls check the depth before either adds a file.
* `ha/ha_controller.cpp:39`: `leader_` stays set after `stop`; two nodes can report
  that they lead.
* `storage/mail_store.cpp:43`: messages of one mailbox in one millisecond have one
  name, and the later replaces the earlier (the premise of `KeptUnlessNamesake`).
* `smtp/smtp_session.cpp:528`: a body that ends because the connection ends or a
  line is too long is stored, and acknowledged if the client still reads.  No
  time limit is in force while a line is awaited, in the body none at all
  (`config/server.yml:14` has one for DATA).
* `smtp/smtp_session.cpp:346`: after DATA the state is `MAIL_FROM`, so that RCPT is
  accepted without a new MAIL, with an empty sender.
* `smtp/smtp_server.cpp:239`: a failed handshake keeps its global permit and that of
  its address (`leaked`).  `core/connection_manager.cpp:77`: the count of an address is set to 0
  after five quiet minutes with its connections open.  `core/rate_limiter.cpp:66`:
  the end of a connection gives back a unit of whatever window is current.
* `smtp/smtp_server.cpp:269` and `:103`: descriptors are closed and erased by number,
  after the number may have been given to another connection: `stop` may miss a
  session and wait for it, or close a foreign socket.
* `imap/imap_server.cpp:43`: `stop` joins sessions without waking them; one silent
  client keeps it.  `:89`: the limit is read before the new thread counts itself.
* `core/distributed_auth_manager.cpp:403`: accounts are in the cache's map and
  expire with their entries.  `:165`: a validation that overlaps a revocation caches
  the session again (`RevokedUnlessRaced`).  `:137`: 24 hours are added as 24
  seconds (`SessionLasts` is about the expiry that is computed).
* `threat_intel/ioc_store.cpp:62`: the first malware found makes the sandbox's worker
  lock a mutex twice.
* `core/shutdown_coordinator.cpp:75`: hooks are sorted ascending and the last phase
  goes backwards, against the header's "Lower = shutdown first".  `:94`: the wait
  with a time limit first waits for the mutex of the whole shutdown.
* `core/app_lifecycle.cpp:51`: when a subsystem fails, `initialize` calls `shutdown`
  with the mutex locked that it locks.
* `main.cpp:118`, `:137`, and a context that throws: the sandbox's thread runs by
  then, and its destructor calls `terminate`; the code 2 is never returned
  (`EngineIn`).
* `main.cpp:107`: a variable that is set to nothing, as `docker-compose.yml` sets
  `TLS_CERT` by default, hides the certificate of the configuration; without
  `tlsRequired` the server goes on without TLS.
* `main.cpp:27`: the handler of a signal logs.  If it interrupts a thread that has the
  mutex of the logger, that thread waits for itself, `g_running` stays set, and all
  that log wait.
* `monitoring/http_metrics_server.cpp:42`, and the same in the admin server: a client
  that connects and stays silent keeps the thread in `recv`, and with it the join.
* Threads of SMTP, IMAP and metrics that cannot bind end or go on in silence;
  `main` serves without them.  8080 and 9090 are not compared with the configured
  ports.
* `config/bad.yml` and `config/example.server.yml` have no `min_tls_version` that
  `validateConfig` accepts.  `/ready` is always 503, for nothing calls `setState`.
* `core/auth_manager.cpp:93`: an empty password in the users file makes every load
  return false; `ServerContext` does not look at it, though `:58` says "Fail
  startup".  A password with the prefix `$pbkdf2$` passes `isHashed` and is never
  verified.
* `core/auth_manager.cpp:51`: two processes that migrate at once share one
  temporary name, and the users file may be replaced by part of itself (the
  premise `overlap`).
* `core/logger.cpp:66`: the size is compared before a line is added, whatever its
  length: a file may be over `MAX_SIZE` by its last line.  `:79`: a rename that throws leaves the log on standard output for
  good.


## 8. What is not modelled

Parsing of messages and DNS, sender authentication, spam rules, the attachment
policy and the virus scanner are sequential functions without state, called by
nothing in the server.  Metrics, admin pages and health only report.  The
cryptography of password hashes and of TLS is a tag, or an outcome.  Several parts are
built but called by nothing in `main.cpp`: the HA controller and the retry worker,
`enqueue`, `SandboxEngine::submit`, the lifecycle and the coordinator, readiness,
crash containment, the cloud scanner, retroactive actions, the sessions of the
account manager.  Those that keep state under concurrency are modelled as their
interfaces allow them to be called; readiness is one value that nobody sets, and
the scanner has no caller that would say what it must keep.

Abstractions worth knowing: file system calls are atomic and durable once done; a
flushed file survives, its directory entry too; the sources use the Windows API,
and the models follow those calls (`CREATE_ALWAYS`, replacing renames, exclusive
opens); a mutex locked twice blocks; threads can always be created; `genId`'s unlocked generator is taken to give
distinct names; SMTP lines to the remote host are an outcome and an acceptance.
