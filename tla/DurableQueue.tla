---------------------------- MODULE DurableQueue ----------------------------
(***************************************************************************)
(* What a caller of the outbound queue may rely on: a message that enters  *)
(* the queue stays there until the remote host has taken a copy over or    *)
(* until it is set aside; once it has left the queue no further copy is    *)
(* sent; and a caller is told of success only for a message that entered.  *)
(* HaQueue implements this module; MailQueue alone does not, for a worker  *)
(* without the leader lock may send a message that has left the queue.     *)
(***************************************************************************)
EXTENDS Naturals

CONSTANT Msg

VARIABLES
  status,   \* where the message is, seen from outside
  answer,   \* what the caller of enqueue has been told
  copies    \* copies the remote host has accepted

absvars == <<status, answer, copies>>

Statuses == {"absent", "queued", "parked", "rejected", "done"}

AbsTypeOK ==
  /\ status \in [Msg -> Statuses]
  /\ answer \in [Msg -> {"none", "ok", "error"}]
  /\ copies \in [Msg -> Nat]

AbsInit ==
  /\ status = [m \in Msg |-> "absent"]
  /\ answer = [m \in Msg |-> "none"]
  /\ copies = [m \in Msg |-> 0]

Move(m, from, to) ==
  /\ status[m] = from
  /\ status' = [status EXCEPT ![m] = to]
  /\ UNCHANGED <<answer, copies>>

\* The message becomes visible to the workers.
Enter(m) == answer[m] = "none" /\ Move(m, "absent", "queued")

\* Success is reported only for a message that has entered the queue.
AnswerOk(m) ==
  /\ answer[m] = "none" /\ status[m] # "absent"
  /\ answer' = [answer EXCEPT ![m] = "ok"]
  /\ UNCHANGED <<status, copies>>

\* An error may be reported at any point, even for a message that has
\* entered: the caller cannot conclude that it has not.
AnswerError(m) ==
  /\ answer[m] = "none"
  /\ answer' = [answer EXCEPT ![m] = "error"]
  /\ UNCHANGED <<status, copies>>

\* Copies are sent of queued messages only, possibly more than one.
Copy(m) ==
  /\ status[m] = "queued"
  /\ copies' = [copies EXCEPT ![m] = @ + 1]
  /\ UNCHANGED <<status, answer>>

\* The message leaves the queue: as delivered only if a copy was accepted.
Finish(m) == copies[m] > 0 /\ Move(m, "queued", "done")
Park(m)   == Move(m, "queued", "parked")
Reject(m) == Move(m, "queued", "rejected")

AbsNext ==
  \E m \in Msg :
    \/ Enter(m) \/ AnswerOk(m) \/ AnswerError(m)
    \/ Copy(m) \/ Finish(m) \/ Park(m) \/ Reject(m)

AbsSpec == AbsInit /\ [][AbsNext]_absvars
=============================================================================
