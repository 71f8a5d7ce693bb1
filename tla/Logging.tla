------------------------------ MODULE Logging ------------------------------
(***************************************************************************)
(* The log of a process, src/core/logger.cpp, with its rotation, and the   *)
(* audit log of src/core/audit_log.cpp, which writes a line of its own and *)
(* then logs the same event, its mutex locked around both.                 *)
(*                                                                         *)
(* A file is the sequence of its lines.  text[0] is the log, text[i] the   *)
(* file that rotation calls <log>.log.<i>.  A line takes Size of a file,   *)
(* and the counter adds Slack more, since the code adds 64 to a message    *)
(* for a prefix and an end of line that take 34 at most.                   *)
(* Lines below the level are left out, and every flush succeeds.           *)
(***************************************************************************)
EXTENDS Naturals, Sequences, Threads

CONSTANTS
  Line,      \* what there is to log, each once
  Audited,   \* the lines that go through the audit log
  CannotOpen,\* what the log has when the audit file does not open
  Files,     \* the files that rotation renames, 5
  MaxSize,   \* MAX_SIZE
  Size,      \* Size[l]: what the line l takes in a file
  Slack,     \* what the counter adds for a line beyond its size
  MaxFaults  \* bound: failing calls and deaths

ASSUME LogNames  == Audited \subseteq Line /\ CannotOpen \notin Line
ASSUME LogLimits == /\ Files \in Nat /\ MaxSize \in Nat \ {0}
                    /\ Size \in [Line \cup {CannotOpen} -> Nat \ {0}]
                    /\ Slack \in Nat /\ MaxFaults \in Nat

VARIABLES
  present,   \* the files that exist
  text,      \* text[i]: the lines of file i
  bytes,     \* bytes[i]: its size, as file_size tells it
  console,   \* the lines on standard output, of all processes
  auditFile, \* the lines of the audit log
  isOpen,    \* out_.is_open()
  fileSize,  \* fileSize_
  named,     \* setFile was called
  logMutex,  \* who holds the mutex_ of the logger
  auditMutex,\* who holds audit_mutex
  inLog,     \* inLog[t]: where thread t is
  line,      \* line[t]: what it logs
  shift,     \* the file that rotation looks at next
  done,      \* the lines whose calls have begun
  written,   \* every line of the logger, in order; those of them that
  filed,     \* went to the file
  logFaults  \* the failing calls and deaths so far

disk     == <<present, text, bytes, auditFile>>
outputs  == <<console, written, filed>>
stream   == <<isOpen, fileSize, named>>
callers  == <<logMutex, auditMutex, inLog, line, shift, done>>
logvars  == <<disk, outputs, stream, callers, logFaults>>

Numbers == 0..(Files + 1)
Text    == Seq(Line \cup {CannotOpen})

LogTypeOK ==
  /\ present \subseteq Numbers /\ text \in [Numbers -> Text] /\ bytes \in [Numbers -> Nat]
  /\ console \in Text /\ auditFile \in Seq(Audited)
  /\ isOpen \in BOOLEAN /\ fileSize \in Nat /\ named \in BOOLEAN
  /\ logMutex \in Thread \cup {Nobody} /\ auditMutex \in Thread \cup {Nobody}
  /\ inLog \in [Thread -> {"idle", "audit", "append", "log", "rotate", "reopen", "write"}]
  /\ line \in [Thread -> Line \cup {CannotOpen}]
  /\ shift \in Numbers /\ done \subseteq Line
  /\ written \in Text /\ filed \in Text /\ logFaults \in 0..MaxFaults

LogInit ==
  /\ present = {} /\ text = [i \in Numbers |-> <<>>] /\ bytes = [i \in Numbers |-> 0]
  /\ auditFile = <<>>
  /\ console = <<>> /\ written = <<>> /\ filed = <<>>
  /\ isOpen = FALSE /\ fileSize = 0 /\ named = FALSE
  /\ logMutex = Nobody /\ auditMutex = Nobody
  /\ inLog = [t \in Thread |-> "idle"] /\ line = [t \in Thread |-> CannotOpen]
  /\ shift = 0 /\ done = {} /\ logFaults = 0

Faulty == logFaults < MaxFaults /\ logFaults' = logFaults + 1

-----------------------------------------------------------------------------
\* Fault: the size of a file that is there is not looked at.
SetFile_FromZero ==
  /\ ~named /\ logMutex = Nobody
  /\ named' = TRUE /\ fileSize' = 0
  /\ \/ isOpen' = TRUE /\ present' = present \cup {0} /\ UNCHANGED logFaults
     \/ isOpen' = FALSE /\ Faulty /\ UNCHANGED present
  /\ UNCHANGED <<text, bytes, auditFile, outputs, callers>>

\* setFile, which main calls once: what was logged before went to the console.
SetFile ==
  /\ ~named /\ logMutex = Nobody
  /\ named' = TRUE /\ fileSize' = bytes[0]
  /\ \/ isOpen' = TRUE /\ present' = present \cup {0} /\ UNCHANGED logFaults
     \/ isOpen' = FALSE /\ Faulty /\ UNCHANGED present
  /\ UNCHANGED <<text, bytes, auditFile, outputs, callers>>

\* A thread logs a line, or audits an event.
LogCall(t, l) ==
  /\ inLog[t] = "idle" /\ l \notin done
  /\ inLog' = [inLog EXCEPT ![t] = IF l \in Audited THEN "audit" ELSE "log"]
  /\ line' = [line EXCEPT ![t] = l]
  /\ done' = done \cup {l}
  /\ UNCHANGED <<disk, outputs, stream, logMutex, auditMutex, shift, logFaults>>

LogMove(t, from, next) == inLog[t] = from /\ inLog' = [inLog EXCEPT ![t] = next]

\* writeLog locks audit_mutex...
AuditLock(t) ==
  /\ auditMutex = Nobody /\ auditMutex' = t
  /\ LogMove(t, "audit", "append")
  /\ UNCHANGED <<disk, outputs, stream, logMutex, line, shift, done, logFaults>>

\* Fault: the mutex is given back before the event is logged.
AuditAppend_Unlocks(t) ==
  /\ LogMove(t, "append", "log")
  /\ auditMutex' = Nobody
  /\ auditFile' = Append(auditFile, line[t])
  /\ UNCHANGED <<present, text, bytes, outputs, stream, logMutex, line, shift, done, logFaults>>

\* ...opens its file and writes the line; when it cannot open it, that is what
\* it logs.
AuditAppend(t) ==
  /\ LogMove(t, "append", "log")
  /\ \/ auditFile' = Append(auditFile, line[t]) /\ UNCHANGED <<line, logFaults>>
     \/ line' = [line EXCEPT ![t] = CannotOpen] /\ Faulty /\ UNCHANGED auditFile
  /\ UNCHANGED <<present, text, bytes, outputs, stream, logMutex, auditMutex, shift, done>>

-----------------------------------------------------------------------------
\* log locks mutex_; rotateIfNeeded closes a file that is large enough.
LogLock(t) ==
  /\ logMutex = Nobody /\ logMutex' = t
  /\ IF isOpen /\ fileSize >= MaxSize
       THEN LogMove(t, "log", "rotate") /\ isOpen' = FALSE /\ shift' = Files
       ELSE LogMove(t, "log", "write") /\ UNCHANGED <<isOpen, shift>>
  /\ UNCHANGED <<disk, outputs, fileSize, named, auditMutex, line, done, logFaults>>

\* rename: file i replaces the next one.
Rename(i) ==
  /\ present' = (present \ {i}) \cup {i + 1}
  /\ text' = [text EXCEPT ![i] = <<>>, ![i + 1] = text[i]]
  /\ bytes' = [bytes EXCEPT ![i] = 0, ![i + 1] = bytes[i]]

\* Fault: the files are renamed from the log up.
Rotate_Upwards(t) ==
  /\ inLog[t] = "rotate"
  /\ IF Files - shift \in present THEN Rename(Files - shift) ELSE UNCHANGED <<present, text, bytes>>
  /\ IF shift > 0 THEN shift' = shift - 1 /\ UNCHANGED inLog
                  ELSE LogMove(t, "rotate", "reopen") /\ UNCHANGED shift
  /\ UNCHANGED <<auditFile, outputs, stream, logMutex, auditMutex, line, done, logFaults>>

\* One round of the loop of rotateIfNeeded; the last is for the log itself.
Rotate(t) ==
  /\ inLog[t] = "rotate"
  /\ IF shift \in present THEN Rename(shift) ELSE UNCHANGED <<present, text, bytes>>
  /\ IF shift > 0 THEN shift' = shift - 1 /\ UNCHANGED inLog
                  ELSE LogMove(t, "rotate", "reopen") /\ UNCHANGED shift
  /\ UNCHANGED <<auditFile, outputs, stream, logMutex, auditMutex, line, done, logFaults>>

\* The mutexes that t holds are given back when log, or writeLog, is left.
Release(t) ==
  /\ inLog' = [inLog EXCEPT ![t] = "idle"]
  /\ logMutex' = Nobody
  /\ auditMutex' = IF auditMutex = t THEN Nobody ELSE auditMutex

\* A rename fails: it throws out of log, which leaves the file closed.
RotateThrows(t) ==
  /\ inLog[t] = "rotate" /\ shift \in present /\ Faulty
  /\ Release(t)
  /\ UNCHANGED <<disk, outputs, stream, line, shift, done>>

Reopen(t) ==
  /\ LogMove(t, "reopen", "write")
  /\ fileSize' = 0
  /\ \/ isOpen' = TRUE /\ present' = present \cup {0} /\ UNCHANGED logFaults
     \/ Faulty /\ UNCHANGED <<isOpen, present>>
  /\ UNCHANGED <<text, bytes, auditFile, outputs, named, logMutex, auditMutex, line, shift, done>>

\* writeToStream, to the file or to the console.
WriteLine(t) ==
  /\ inLog[t] = "write"
  /\ IF isOpen
       THEN /\ text' = [text EXCEPT ![0] = Append(@, line[t])]
            /\ bytes' = [bytes EXCEPT ![0] = @ + Size[line[t]]]
            /\ filed' = Append(filed, line[t])
            /\ UNCHANGED console
       ELSE console' = Append(console, line[t]) /\ UNCHANGED <<text, bytes, filed>>
  /\ written' = Append(written, line[t])
  /\ fileSize' = fileSize + Size[line[t]] + Slack
  /\ Release(t)
  /\ UNCHANGED <<present, auditFile, isOpen, named, line, shift, done, logFaults>>

\* The process dies, at any time, and is started again.
LogDeath ==
  /\ Faulty
  /\ isOpen' = FALSE /\ fileSize' = 0 /\ named' = FALSE
  /\ logMutex' = Nobody /\ auditMutex' = Nobody
  /\ inLog' = [t \in Thread |-> "idle"]
  /\ line' = [t \in Thread |-> CannotOpen]
  /\ shift' = 0
  /\ UNCHANGED <<disk, outputs, done>>

-----------------------------------------------------------------------------
LogStep(t) ==
  \/ AuditLock(t) \/ AuditAppend(t)
  \/ LogLock(t) \/ Rotate(t) \/ RotateThrows(t) \/ Reopen(t) \/ WriteLine(t)

LogNext ==
  \/ SetFile \/ LogDeath
  \/ \E t \in Thread : LogStep(t) \/ \E l \in Line : LogCall(t, l)

LogSpec == LogInit /\ [][LogNext]_logvars

-----------------------------------------------------------------------------
(* What the log promises.                                                  *)

\* Where the files are in what was logged to files: file i has the lines after
\* cut[i + 1], up to cut[i], and only what is before the oldest file is lost.
InOrder(cut) ==
  /\ cut[0] = Len(filed)
  /\ \A i \in Numbers : /\ cut[i] = cut[i + 1] + Len(text[i])
                        /\ text[i] = SubSeq(filed, cut[i + 1] + 1, cut[i])
  /\ cut[Files + 2] > 0 => Files + 1 \in present

\* Read from the oldest to the newest, the files are the last lines that were
\* logged to a file, none missing in between and none twice: through renames
\* that fail and deaths between them.  What is missing at the front was in the
\* oldest file and replaced there (rotateIfNeeded).
KeptInOrder == \E cut \in [0..(Files + 2) -> 0..Len(filed)] : InOrder(cut)

\* No line is added to a file that has MAX_SIZE: a file is over it by less than
\* its last line, as the size is looked at before a line is written, and not
\* the line.  Also over restarts, which take the size from the file and not
\* from the counter (rotateIfNeeded, setFile, log).
SizeBounded ==
  \A i \in Numbers : text[i] # <<>> => bytes[i] < MaxSize + Size[text[i][Len(text[i])]]

\* The places of the log that tell of audited events, and what says where each
\* of them is in the audit file.
Events == {k \in 1..Len(written) : written[k] \in Audited}
InTrail(where) ==
  /\ \A k \in Events : auditFile[where[k]] = written[k]
  /\ \A k, l \in Events : k < l => where[k] < where[l]

\* The log tells of the audited events in the order of the audit file, and of
\* none that is not there (writeLog).
AuditedInOrder == \E where \in [Events -> 1..Len(auditFile)] : InTrail(where)

-----------------------------------------------------------------------------
(* The invariant of the sizes.                                             *)

\* The thread that has the mutex of the logger, and what it has found.
InTheLog ==
  /\ \A t \in Thread : inLog[t] \in {"rotate", "reopen", "write"} <=> logMutex = t
  /\ \A t \in Thread :
       /\ inLog[t] \in {"rotate", "reopen"} => ~isOpen
       /\ inLog[t] = "rotate" => shift <= Files
       /\ inLog[t] = "reopen" => text[0] = <<>> /\ bytes[0] = 0
       /\ inLog[t] = "write" /\ isOpen => fileSize < MaxSize
       /\ inLog[t] \in {"audit", "append"} => line[t] \in Audited

\* The counter is never below the size of the file.
Counted ==
  /\ \A i \in Numbers : i \notin present => text[i] = <<>> /\ bytes[i] = 0
  /\ isOpen => 0 \in present /\ bytes[0] <= fileSize

LogInv == LogTypeOK /\ InTheLog /\ Counted /\ SizeBounded

-----------------------------------------------------------------------------
(* The invariant of the order.                                             *)

\* The file that a rotation is about to replace was moved on before, or is the
\* oldest.
Moved == \A t \in Thread : inLog[t] = "rotate" /\ shift < Files => text[shift + 1] = <<>>

\* An event that is in the audit file and not yet in the log: its thread has
\* audit_mutex, and it is the last of the file.
InAudit(t) ==
  /\ inLog[t] \in {"append", "log", "rotate", "reopen", "write"}
  /\ line[t] \in Audited
Pending(t) == InAudit(t) /\ inLog[t] # "append"

AuditHeld == \A t \in Thread : InAudit(t) => auditMutex = t

AuditTrail ==
  \E where \in [Events -> 1..Len(auditFile)] :
    /\ InTrail(where)
    /\ \A t \in Thread : Pending(t) =>
         /\ Len(auditFile) > 0 /\ auditFile[Len(auditFile)] = line[t]
         /\ \A k \in Events : where[k] < Len(auditFile)

LogIInv == LogInv /\ KeptInOrder /\ Moved /\ AuditHeld /\ AuditTrail
=============================================================================
