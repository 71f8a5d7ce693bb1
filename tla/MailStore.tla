----------------------------- MODULE MailStore -----------------------------
(***************************************************************************)
(* The mailboxes of src/storage/mail_store.cpp, with the retroactive       *)
(* verdicts of src/retro/retro_manager.cpp that act on them.               *)
(*                                                                         *)
(* store() writes <user>/INBOX/<id>.eml.tmp and renames it to <id>.eml,    *)
(* where <id> is the wall clock in milliseconds.  The whole call runs      *)
(* under one mutex; the process may be killed between two of its file      *)
(* system calls.  A call is named by the message it stores.                *)
(***************************************************************************)
EXTENDS Naturals

CONSTANTS
  Msg,     \* the messages, one for each call of store
  User,    \* the mailboxes
  Id,      \* the values of the millisecond clock
  NoMsg,   \* no file of that name; nobody holds the mutex
  NoUser   \* the empty mailbox name

ASSUME StoreNames == NoMsg \notin Msg /\ NoUser \notin User

VARIABLES
  up,          \* the server process runs and the store is constructed
  clock,       \* system_clock::now(); it may be set back
  mutex,       \* the call that holds mutex_
  put,         \* put[m]: how far the call of store for m has come
  box,         \* box[m]: msg.mailboxUser
  stamp,       \* stamp[m]: the id generated for m
  tmp,         \* the .eml.tmp files, by mailbox and id
  inbox,       \* the .eml files in INBOX
  quarantine,  \* the .eml files in Quarantine
  whole,       \* the messages whose whole content has reached the disk
  judged       \* the messages that a retroactive verdict was about

disk  == <<tmp, inbox, quarantine, whole>>
calls == <<put, box, stamp>>
svars == <<up, clock, mutex, calls, disk, judged>>

Path  == User \X Id
Files == [Path -> Msg \cup {NoMsg}]
PutStates == {"new", "called", "named", "open", "closed", "moved", "stored", "failed", "thrown", "dead"}

\* The calls that are inside the lock_guard's scope.
Locked == {"named", "open", "closed", "moved"}

\* makeMessagePath
PathOf(m) == <<box[m], stamp[m]>>

StoreTypeOK ==
  /\ up \in BOOLEAN
  /\ clock \in Id
  /\ mutex \in Msg \cup {NoMsg}
  /\ put \in [Msg -> PutStates]
  /\ box \in [Msg -> User \cup {NoUser}]
  /\ stamp \in [Msg -> Id]
  /\ tmp \in Files /\ inbox \in Files /\ quarantine \in Files
  /\ whole \subseteq Msg /\ judged \subseteq Msg

StoreInit ==
  /\ up = TRUE
  /\ clock \in Id
  /\ mutex = NoMsg
  /\ put = [m \in Msg |-> "new"]
  /\ box = [m \in Msg |-> NoUser]
  /\ stamp = [m \in Msg |-> clock]
  /\ tmp = [p \in Path |-> NoMsg]
  /\ inbox = tmp /\ quarantine = tmp
  /\ whole = {} /\ judged = {}

-----------------------------------------------------------------------------
(* MailStore::store, and atomicWriteFile that it calls.                    *)

PutGo(m, from, to) ==
  /\ put[m] = from
  /\ put' = [put EXCEPT ![m] = to]

\* A session calls store for mailbox u.
Call(m, u) ==
  /\ up
  /\ PutGo(m, "new", "called")
  /\ box' = [box EXCEPT ![m] = u]
  /\ UNCHANGED <<up, clock, mutex, stamp, disk, judged>>

\* "mailboxUser is empty", or the mailbox directory cannot be created.
CannotStore(m) ==
  /\ mutex = NoMsg
  /\ PutGo(m, "called", "failed")
  /\ UNCHANGED <<up, clock, mutex, box, stamp, disk, judged>>

\* The mutex is taken and generateId reads the clock.
GenerateId(m) ==
  /\ mutex = NoMsg /\ box[m] # NoUser
  /\ PutGo(m, "called", "named")
  /\ stamp' = [stamp EXCEPT ![m] = clock]
  /\ mutex' = m
  /\ UNCHANGED <<up, clock, box, disk, judged>>

\* CREATE_ALWAYS: a temporary file left over from a crash is truncated.
CreateTemp(m) ==
  /\ PutGo(m, "named", "open")
  /\ tmp' = [tmp EXCEPT ![PathOf(m)] = m]
  /\ UNCHANGED <<up, clock, mutex, box, stamp, inbox, quarantine, whole, judged>>

\* WriteFile, FlushFileBuffers, CloseHandle.
WriteTemp(m) ==
  /\ PutGo(m, "open", "closed")
  /\ whole' = whole \cup {m}
  /\ UNCHANGED <<up, clock, mutex, box, stamp, tmp, inbox, quarantine, judged>>

\* Fault: a short write goes unnoticed.
FileFails_Ignored(m) ==
  /\ put[m] = "open"
  /\ put' = [put EXCEPT ![m] = "closed"]
  /\ UNCHANGED <<up, clock, mutex, box, stamp, disk, judged>>

\* Fault: the clean-up deletes the message of that name.
FileFails_DeletesFinal(m) ==
  /\ put[m] \in {"named", "open", "closed"}
  /\ put' = [put EXCEPT ![m] = "failed"]
  /\ tmp' = IF put[m] = "named" THEN tmp ELSE [tmp EXCEPT ![PathOf(m)] = NoMsg]
  /\ inbox' = [inbox EXCEPT ![PathOf(m)] = NoMsg]
  /\ mutex' = NoMsg
  /\ UNCHANGED <<up, clock, box, stamp, quarantine, whole, judged>>

\* Fault: the mutex stays locked on the error path.
FileFails_KeepsMutex(m) ==
  /\ put[m] \in {"named", "open", "closed"}
  /\ put' = [put EXCEPT ![m] = "failed"]
  /\ tmp' = IF put[m] = "named" THEN tmp ELSE [tmp EXCEPT ![PathOf(m)] = NoMsg]
  /\ UNCHANGED <<up, clock, mutex, box, stamp, inbox, quarantine, whole, judged>>

\* The file is not created, not written, not flushed or not renamed: the
\* temporary file is deleted and store returns the empty id.
FileFails(m) ==
  /\ put[m] \in {"named", "open", "closed"}
  /\ put' = [put EXCEPT ![m] = "failed"]
  /\ tmp' = IF put[m] = "named" THEN tmp ELSE [tmp EXCEPT ![PathOf(m)] = NoMsg]
  /\ mutex' = NoMsg
  /\ UNCHANGED <<up, clock, box, stamp, inbox, quarantine, whole, judged>>

\* MOVEFILE_REPLACE_EXISTING: a message of that name is replaced.
RenameTemp(m) ==
  /\ PutGo(m, "closed", "moved")
  /\ tmp[PathOf(m)] # NoMsg
  /\ tmp' = [tmp EXCEPT ![PathOf(m)] = NoMsg]
  /\ inbox' = [inbox EXCEPT ![PathOf(m)] = tmp[PathOf(m)]]
  /\ UNCHANGED <<up, clock, mutex, box, stamp, quarantine, whole, judged>>

\* "Verify final file exists", and return.
Verify(m) ==
  /\ PutGo(m, "moved", IF inbox[PathOf(m)] # NoMsg THEN "stored" ELSE "failed")
  /\ mutex' = NoMsg
  /\ UNCHANGED <<up, clock, box, stamp, disk, judged>>

\* fs::exists throws when it cannot tell; store leaves with the exception.
VerifyThrows(m) ==
  /\ PutGo(m, "moved", "thrown")
  /\ mutex' = NoMsg
  /\ UNCHANGED <<up, clock, box, stamp, disk, judged>>

Put(m) ==
  \/ CannotStore(m) \/ GenerateId(m) \/ CreateTemp(m) \/ WriteTemp(m)
  \/ FileFails(m) \/ RenameTemp(m) \/ Verify(m) \/ VerifyThrows(m)

-----------------------------------------------------------------------------
(* RetroManager::execute: a verdict about m names its mailbox and id.      *)

\* Fault: moveToQuarantine does not take the mutex.
MoveToQuarantine_Unlocked(m) ==
  /\ up /\ put[m] = "stored"
  /\ inbox[PathOf(m)] # NoMsg
  /\ judged' = judged \cup {m}
  /\ quarantine' = [quarantine EXCEPT ![PathOf(m)] = inbox[PathOf(m)]]
  /\ inbox' = [inbox EXCEPT ![PathOf(m)] = NoMsg]
  /\ UNCHANGED <<up, clock, mutex, calls, tmp, whole>>

\* fs::rename replaces a quarantined message of that name; without the file
\* in INBOX it throws and nothing happens.
MoveToQuarantine(m) ==
  /\ up /\ mutex = NoMsg /\ put[m] = "stored"
  /\ inbox[PathOf(m)] # NoMsg
  /\ judged' = judged \cup {m}
  /\ quarantine' = [quarantine EXCEPT ![PathOf(m)] = inbox[PathOf(m)]]
  /\ inbox' = [inbox EXCEPT ![PathOf(m)] = NoMsg]
  /\ UNCHANGED <<up, clock, mutex, calls, tmp, whole>>

\* fs::remove; without the file it returns false and nothing happens.
DeleteMessage(m) ==
  /\ up /\ mutex = NoMsg /\ put[m] = "stored"
  /\ judged' = judged \cup {m}
  /\ inbox' = [inbox EXCEPT ![PathOf(m)] = NoMsg]
  /\ UNCHANGED <<up, clock, mutex, calls, tmp, quarantine, whole>>

Retro(m) == MoveToQuarantine(m) \/ DeleteMessage(m)

-----------------------------------------------------------------------------
(* The process, and time.                                                  *)

\* Every call in progress is cut off where it stands.
Kill ==
  /\ up
  /\ up' = FALSE
  /\ mutex' = NoMsg
  /\ put' = [m \in Msg |-> IF put[m] \in Locked \cup {"called"} THEN "dead" ELSE put[m]]
  /\ UNCHANGED <<clock, box, stamp, disk, judged>>

\* The constructor calls recoverOrphanedTempFiles, which may fail on some
\* of the files (and goes on) or be cut off.
Restart ==
  /\ ~up
  /\ up' = TRUE
  /\ \E kept \in SUBSET Path :
       tmp' = [p \in Path |-> IF p \in kept THEN tmp[p] ELSE NoMsg]
  /\ UNCHANGED <<clock, mutex, calls, inbox, quarantine, whole, judged>>

SetClock ==
  /\ clock' \in Id \ {clock}
  /\ UNCHANGED <<up, mutex, calls, disk, judged>>

Process == Kill \/ Restart \/ SetClock

StoreNext ==
  \/ \E m \in Msg : (\E u \in User \cup {NoUser} : Call(m, u)) \/ Put(m) \/ Retro(m)
  \/ Process

StoreSpec == StoreInit /\ [][StoreNext]_svars

\* The threads that call store are scheduled.
StoreFairSpec == StoreSpec /\ \A m \in Msg : WF_svars(Put(m))

-----------------------------------------------------------------------------
(* What the store promises.                                                *)

\* Another message went to the same mailbox with the same id.
HasNamesake(m) ==
  \E k \in Msg \ {m} : PathOf(k) = PathOf(m) /\ put[k] \in {"moved", "stored", "thrown", "dead"}

\* A message for which store returned an id stays where it was put until a
\* verdict about it arrives - provided no other message got its name.
KeptUnlessNamesake ==
  \A m \in Msg : put[m] = "stored" =>
     inbox[PathOf(m)] = m \/ m \in judged \/ HasNamesake(m)

\* A message for which store returned the empty id is in no mailbox: the
\* client that sends it again after the 451 does not produce a second copy.
FailedIsAbsent ==
  \A m \in Msg, p \in Path : put[m] = "failed" => inbox[p] # m /\ quarantine[p] # m

\* No crash and no failed write leaves a half-written message in a mailbox.
OnlyWhole ==
  \A p \in Path : {inbox[p], quarantine[p]} \ {NoMsg} \subseteq whole

\* The strengthening that every step preserves.
CallInv(m) ==
  /\ put[m] \in Locked <=> mutex = m
  /\ put[m] \in {"called", "new"} \cup Locked /\ put[m] # "new" => up
  /\ put[m] \in Locked \cup {"stored"} => box[m] \in User
  /\ put[m] \in {"open", "closed"} => tmp[PathOf(m)] = m
  /\ put[m] \in {"closed", "moved", "stored"} => m \in whole
  /\ put[m] = "moved" => inbox[PathOf(m)] = m

FileInv(p) ==
  /\ \A m \in Msg : tmp[p] = m => p = PathOf(m) /\ put[m] \in {"open", "closed", "dead"}
  /\ \A m \in Msg : inbox[p] = m \/ quarantine[p] = m =>
       p = PathOf(m) /\ put[m] \in {"moved", "stored", "thrown", "dead"}

StoreInv ==
  /\ StoreTypeOK
  /\ \A m \in Msg : CallInv(m)
  /\ \A p \in Path : FileInv(p)
  /\ KeptUnlessNamesake /\ OnlyWhole

\* Every call of store returns, unless the process is killed first: neither
\* the other callers nor the verdicts keep it from the mutex for ever.
StoreReturns ==
  \A m \in Msg : put[m] = "called" ~> put[m] \in {"stored", "failed", "thrown", "dead"}

-----------------------------------------------------------------------------
(* MailStore implements the promise of Mailbox: renames and answers are    *)
(* its steps, and the rest stutters.                                       *)

Told(m) ==
  CASE put[m] = "stored" -> "id"
    [] put[m] = "failed" -> "empty"
    [] put[m] \in {"thrown", "dead"} -> "unknown"
    [] OTHER -> "none"

ToldId(m) == IF put[m] = "stored" THEN PathOf(m) ELSE NoMsg

Box == INSTANCE Mailbox WITH
  Name <- Path, NoName <- NoMsg,
  answer <- [m \in Msg |-> Told(m)],
  id <- [m \in Msg |-> ToldId(m)]

\* Seen from outside, store is one step, through deaths, failing writes and
\* the clock; it answers the empty id only if it has left nothing, and the name
\* of a message only while the message is there (store, atomicWriteFile).
ImplementsMailbox == Box!BoxSpec
=============================================================================
