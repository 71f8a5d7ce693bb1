------------------------------ MODULE Mailbox ------------------------------
(***************************************************************************)
(* What a caller of the mail store may rely on: a message enters an inbox  *)
(* whole, in one step, under a name that the caller is then told; it       *)
(* leaves only by a verdict on that name, or by another message of the     *)
(* same name; and a caller is told that nothing was stored only when       *)
(* nothing was.  There are no temporary files, no mutex, no clock and no   *)
(* process that dies.  MailStore implements this module.                   *)
(***************************************************************************)

CONSTANTS
  Msg,     \* the messages, one for each call of store
  Name,    \* what distinguishes the files of all mailboxes
  NoMsg,   \* no message of that name
  NoName   \* the caller has been told no name

VARIABLES
  inbox,      \* the message of each name in an inbox
  quarantine, \* the message of each name in a quarantine
  answer,     \* what the caller of store has been told
  id          \* the name that it was told

boxvars == <<inbox, quarantine, answer, id>>

BoxTypeOK ==
  /\ inbox \in [Name -> Msg \cup {NoMsg}] /\ quarantine \in [Name -> Msg \cup {NoMsg}]
  /\ answer \in [Msg -> {"none", "id", "empty", "unknown"}]
  /\ id \in [Msg -> Name \cup {NoName}]

\* The message is in no mailbox.
Out(m) == \A n \in Name : inbox[n] # m /\ quarantine[n] # m

BoxInit ==
  /\ inbox = [n \in Name |-> NoMsg] /\ quarantine = inbox
  /\ answer = [m \in Msg |-> "none"]
  /\ id = [m \in Msg |-> NoName]

\* The message enters, at most once, and before its caller has an answer.  What
\* had its name is replaced.
Deliver(m, n) ==
  /\ answer[m] = "none" /\ Out(m)
  /\ inbox' = [inbox EXCEPT ![n] = m]
  /\ UNCHANGED <<quarantine, answer, id>>

Answer(m, a) == answer[m] = "none" /\ answer' = [answer EXCEPT ![m] = a]

\* The caller is told the name of a message that is there...
AnswerId(m, n) ==
  /\ inbox[n] = m
  /\ Answer(m, "id") /\ id' = [id EXCEPT ![m] = n]
  /\ UNCHANGED <<inbox, quarantine>>

\* ...or that nothing was stored, when nothing was...
AnswerEmpty(m) ==
  /\ Out(m)
  /\ Answer(m, "empty")
  /\ UNCHANGED <<inbox, quarantine, id>>

\* ...or nothing that it can rely on, as when its process dies with all its
\* callers: the message may or may not be there.
AnswerUnknown(callers) ==
  /\ \A m \in callers : answer[m] = "none"
  /\ answer' = [m \in Msg |-> IF m \in callers THEN "unknown" ELSE answer[m]]
  /\ UNCHANGED <<inbox, quarantine, id>>

\* A verdict about m acts on the message that has the name of m by now.
Quarantine(m) ==
  /\ answer[m] = "id" /\ inbox[id[m]] # NoMsg
  /\ quarantine' = [quarantine EXCEPT ![id[m]] = inbox[id[m]]]
  /\ inbox' = [inbox EXCEPT ![id[m]] = NoMsg]
  /\ UNCHANGED <<answer, id>>

Delete(m) ==
  /\ answer[m] = "id"
  /\ inbox' = [inbox EXCEPT ![id[m]] = NoMsg]
  /\ UNCHANGED <<quarantine, answer, id>>

BoxNext ==
  \/ \E m \in Msg : \/ \E n \in Name : Deliver(m, n) \/ AnswerId(m, n)
                    \/ AnswerEmpty(m) \/ Quarantine(m) \/ Delete(m)
  \/ \E callers \in SUBSET Msg : AnswerUnknown(callers)

BoxSpec == BoxInit /\ [][BoxNext]_boxvars

-----------------------------------------------------------------------------
(* What follows for a caller.                                              *)

\* A message is in one mailbox under one name, once.
EachOnce ==
  \A m \in Msg, n \in Name :
    /\ ~(inbox[n] = m /\ quarantine[n] = m)
    /\ \A o \in Name \ {n} : inbox[n] = m \/ quarantine[n] = m =>
                               inbox[o] # m /\ quarantine[o] # m

\* Who was told that nothing was stored can send it again without a copy.
EmptyIsOut == \A m \in Msg : answer[m] = "empty" => Out(m)

\* A verdict has a name to go by.
Named == \A m \in Msg : answer[m] = "id" => id[m] \in Name

BoxInv == BoxTypeOK /\ EachOnce /\ EmptyIsOut /\ Named
=============================================================================
