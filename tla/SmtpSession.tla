---------------------------- MODULE SmtpSession ----------------------------
(***************************************************************************)
(* The SMTP dialogue of src/smtp/smtp_session.cpp, and the storing of the  *)
(* messages that it accepts: SmtpSession composed with MailStore.          *)
(*                                                                         *)
(* Each session is a thread that blocks in readLine, handles the line and  *)
(* reads the next.  SmtpServer constructs every session with tlsActive_    *)
(* true, so that no handler takes a "530 Must issue STARTTLS" branch and   *)
(* STARTTLS itself is always answered with 454; commands that are refused  *)
(* or unknown, and NOOP, change nothing and have no action.                *)
(***************************************************************************)
EXTENDS MailStore, Sequences

CONSTANTS
  Session,  \* the sessions
  MaxRcpt   \* bound on the recipients of one transaction

ASSUME MaxRcptAssumption == MaxRcpt \in Nat

VARIABLES
  at,        \* at[s]: where the thread of s is
  state,     \* state_
  authed,    \* authed_
  mailFrom,  \* mailFrom_; NoUser is the empty string
  rcptTo,    \* rcptTo_
  doing,     \* doing[s]: the message that handleData of s is storing
  letter,    \* letter[m]: the StoredMessage that handleData builds
  acked,     \* the messages answered with 250
  agreed     \* what the replies have told the client its envelope is

dialogue == <<at, state, authed, mailFrom, rcptTo, agreed, doing>>
mail     == <<letter, acked>>
smtpvars == <<svars, dialogue, mail>>

States   == {"CONNECTED", "HELO_EHLO", "AUTH", "MAIL_FROM", "RCPT_TO"}
Places   == {"closed", "command", "body", "storing"}
Mailbox  == User \cup {NoUser}
Envelope == [from : Mailbox, rcpts : Seq(User)]
Empty    == [from |-> NoUser, rcpts |-> <<>>]

ASSUME EnvelopeAssumption == NoMsg \notin Envelope

Letters == [from : Mailbox, rcpts : Seq(User), agreed : Envelope,
            authed : BOOLEAN]
Blank   == [from |-> NoUser, rcpts |-> <<>>, agreed |-> Empty,
            authed |-> FALSE]

SmtpTypeOK ==
  /\ StoreTypeOK
  /\ at \in [Session -> Places]
  /\ state \in [Session -> States]
  /\ authed \in [Session -> BOOLEAN]
  /\ mailFrom \in [Session -> Mailbox]
  /\ rcptTo \in [Session -> Seq(User)]
  /\ letter \in [Msg -> Letters]
  /\ acked \subseteq Msg
  /\ agreed \in [Session -> Envelope]
  /\ doing \in [Session -> Msg \cup {NoMsg}]

SmtpInit ==
  /\ StoreInit
  /\ at = [s \in Session |-> "closed"]
  /\ state = [s \in Session |-> "CONNECTED"]
  /\ authed = [s \in Session |-> FALSE]
  /\ mailFrom = [s \in Session |-> NoUser]
  /\ rcptTo = [s \in Session |-> <<>>]
  /\ agreed = [s \in Session |-> Empty]
  /\ doing = [s \in Session |-> NoMsg]
  /\ letter = [m \in Msg |-> Blank]
  /\ acked = {}

-----------------------------------------------------------------------------
(* SmtpSession::run and handleCommand.                                     *)

\* A connection is accepted and its session constructed.
Connect(s) ==
  /\ up /\ at[s] = "closed"
  /\ at' = [at EXCEPT ![s] = "command"]
  /\ UNCHANGED <<svars, mail, state, authed, mailFrom, rcptTo, agreed, doing>>

\* readLine has read a line in time; handleCommand dispatches on it.
Command(s) == at[s] = "command"

\* EHLO or HELO: an open transaction is left as it is.
Hello(s) ==
  /\ Command(s)
  /\ state' = [state EXCEPT ![s] = "HELO_EHLO"]
  /\ agreed' = [agreed EXCEPT ![s] = Empty]
  /\ UNCHANGED <<svars, mail, at, authed, mailFrom, rcptTo, doing>>

\* AUTH: authenticateSmtp may refuse or throw.  A session that is already
\* authenticated is told so and is in state AUTH again all the same.
Auth(s) ==
  /\ Command(s) /\ state[s] # "CONNECTED"
  /\ authed' = [authed EXCEPT ![s] = TRUE]
  /\ state' = [state EXCEPT ![s] = "AUTH"]
  /\ UNCHANGED <<svars, mail, at, mailFrom, rcptTo, agreed, doing>>

\* MAIL begins a transaction: the recipients of an earlier one are dropped.
Mail(s, u) ==
  /\ Command(s) /\ state[s] # "CONNECTED" /\ authed[s]
  /\ mailFrom' = [mailFrom EXCEPT ![s] = u]
  /\ rcptTo' = [rcptTo EXCEPT ![s] = <<>>]
  /\ state' = [state EXCEPT ![s] = "MAIL_FROM"]
  /\ agreed' = [agreed EXCEPT ![s] = [from |-> u, rcpts |-> <<>>]]
  /\ UNCHANGED <<svars, mail, at, authed, doing>>

Rcpt(s, u) ==
  /\ Command(s) /\ state[s] \in {"MAIL_FROM", "RCPT_TO"}
  /\ Len(rcptTo[s]) < MaxRcpt
  /\ rcptTo' = [rcptTo EXCEPT ![s] = Append(@, u)]
  /\ state' = [state EXCEPT ![s] = "RCPT_TO"]
  /\ agreed' = [agreed EXCEPT ![s] = [from |-> @.from, rcpts |-> Append(@.rcpts, u)]]
  /\ UNCHANGED <<svars, mail, at, authed, mailFrom, doing>>

\* Fault: RSET leaves the state of the transaction.
Rset_KeepsState(s) ==
  /\ Command(s)
  /\ authed' = [authed EXCEPT ![s] = FALSE]
  /\ mailFrom' = [mailFrom EXCEPT ![s] = NoUser]
  /\ rcptTo' = [rcptTo EXCEPT ![s] = <<>>]
  /\ agreed' = [agreed EXCEPT ![s] = Empty]
  /\ UNCHANGED <<svars, mail, at, state, doing>>

\* RSET also forgets that the client has authenticated.
Rset(s) ==
  /\ Command(s)
  /\ authed' = [authed EXCEPT ![s] = FALSE]
  /\ mailFrom' = [mailFrom EXCEPT ![s] = NoUser]
  /\ rcptTo' = [rcptTo EXCEPT ![s] = <<>>]
  /\ state' = [state EXCEPT ![s] = "HELO_EHLO"]
  /\ agreed' = [agreed EXCEPT ![s] = Empty]
  /\ UNCHANGED <<svars, mail, at, doing>>

\* QUIT; the peer closes, or a line is too long; or a line has come after
\* the time-out of the session: isTimeoutExceeded is asked only then, so
\* that a client that sends nothing keeps its session.
Leave(s) ==
  /\ at[s] = "command"
  /\ at' = [at EXCEPT ![s] = "closed"]
  /\ state' = [state EXCEPT ![s] = "CONNECTED"]
  /\ authed' = [authed EXCEPT ![s] = FALSE]
  /\ mailFrom' = [mailFrom EXCEPT ![s] = NoUser]
  /\ rcptTo' = [rcptTo EXCEPT ![s] = <<>>]
  /\ agreed' = [agreed EXCEPT ![s] = Empty]
  /\ UNCHANGED <<svars, mail, doing>>

-----------------------------------------------------------------------------
(* SmtpSession::handleData.                                                *)

\* DATA is answered with 354 and the body is read, without a time-out.
Data(s) ==
  /\ Command(s) /\ state[s] = "RCPT_TO"
  /\ rcptTo[s] # <<>>
  /\ at' = [at EXCEPT ![s] = "body"]
  /\ UNCHANGED <<svars, mail, state, authed, mailFrom, rcptTo, agreed, doing>>

\* Fault: the sender of the transaction that has ended is kept.
EndData_KeepsSender(s) ==
  /\ at' = [at EXCEPT ![s] = "command"]
  /\ state' = [state EXCEPT ![s] = "MAIL_FROM"]
  /\ rcptTo' = [rcptTo EXCEPT ![s] = <<>>]
  /\ agreed' = [agreed EXCEPT ![s] = Empty]
  /\ doing' = [doing EXCEPT ![s] = NoMsg]
  /\ UNCHANGED <<authed, mailFrom>>

\* handleCommand after handleData, whatever it answered: the state is that
\* of a transaction without a sender.
EndData(s) ==
  /\ at' = [at EXCEPT ![s] = "command"]
  /\ state' = [state EXCEPT ![s] = "MAIL_FROM"]
  /\ mailFrom' = [mailFrom EXCEPT ![s] = NoUser]
  /\ rcptTo' = [rcptTo EXCEPT ![s] = <<>>]
  /\ agreed' = [agreed EXCEPT ![s] = Empty]
  /\ doing' = [doing EXCEPT ![s] = NoMsg]
  /\ UNCHANGED authed

\* "552 Message size exceeds" or "451 ... too complex".
BodyRefused(s) ==
  /\ at[s] = "body"
  /\ EndData(s)
  /\ UNCHANGED <<svars, mail>>

\* No memory for the copy that the size check makes: run answers "451 ...
\* command failed" and reads on, with the transaction as it was.
BodyThrows(s) ==
  /\ at[s] = "body"
  /\ at' = [at EXCEPT ![s] = "command"]
  /\ UNCHANGED <<svars, mail, state, authed, mailFrom, rcptTo, agreed, doing>>

\* Fault: the message is acknowledged before it is stored.
BodyRead_AcksFirst(s, m) ==
  /\ at[s] = "body"
  /\ at' = [at EXCEPT ![s] = "storing"]
  /\ Call(m, rcptTo[s][1])
  /\ doing' = [doing EXCEPT ![s] = m]
  /\ acked' = acked \cup {m}
  /\ letter' = [letter EXCEPT ![m] =
       [from |-> mailFrom[s], rcpts |-> rcptTo[s], agreed |-> agreed[s],
        authed |-> authed[s]]]
  /\ UNCHANGED <<state, authed, mailFrom, rcptTo, agreed>>

\* The loop ends: the dot was read, or readLine has returned false because
\* the connection is closed or a line is too long.  Either way what was
\* read is stored, in the mailbox of the first recipient.
BodyRead(s, m) ==
  /\ at[s] = "body"
  /\ at' = [at EXCEPT ![s] = "storing"]
  /\ Call(m, rcptTo[s][1])
  /\ doing' = [doing EXCEPT ![s] = m]
  /\ letter' = [letter EXCEPT ![m] =
       [from |-> mailFrom[s], rcpts |-> rcptTo[s], agreed |-> agreed[s],
        authed |-> authed[s]]]
  /\ UNCHANGED <<acked, state, authed, mailFrom, rcptTo, agreed>>

\* store has returned: an id, "250 Message accepted for delivery"; the empty
\* id or an exception, "451 Internal error - storage failed".
Reply(s) ==
  /\ at[s] = "storing" /\ put[doing[s]] \in {"stored", "failed", "thrown"}
  /\ EndData(s)
  /\ acked' = IF put[doing[s]] = "stored" THEN acked \cup {doing[s]} ELSE acked
  /\ UNCHANGED <<svars, letter>>

-----------------------------------------------------------------------------
\* The process is killed with all its sessions.
KillSessions ==
  /\ Kill
  /\ at' = [s \in Session |-> "closed"]
  /\ state' = [s \in Session |-> "CONNECTED"]
  /\ authed' = [s \in Session |-> FALSE]
  /\ mailFrom' = [s \in Session |-> NoUser]
  /\ rcptTo' = [s \in Session |-> <<>>]
  /\ agreed' = [s \in Session |-> Empty]
  /\ doing' = [s \in Session |-> NoMsg]
  /\ UNCHANGED mail

Line(s) ==
  \/ Hello(s) \/ Auth(s) \/ Rset(s) \/ Data(s) \/ Leave(s)
  \/ \E u \in User : Mail(s, u) \/ Rcpt(s, u)

Body(s) == BodyRefused(s) \/ BodyThrows(s) \/ \E m \in Msg : BodyRead(s, m)

\* The store's own steps: sessions in store, verdicts, restart, clock.
StoreStep ==
  /\ \/ \E m \in Msg : Put(m) \/ Retro(m)
     \/ Restart \/ SetClock
  /\ UNCHANGED <<dialogue, mail>>

SmtpNext ==
  \/ \E s \in Session : Connect(s) \/ Line(s) \/ Body(s) \/ Reply(s)
  \/ StoreStep
  \/ KillSessions

SmtpSpec == SmtpInit /\ [][SmtpNext]_smtpvars

-----------------------------------------------------------------------------
(* What a session promises.                                                *)

\* A message is handed to the store with the sender and the recipients that
\* the client was told about since its last MAIL, RSET, EHLO or DATA: no
\* order of commands mixes two transactions.
EnvelopeAsAgreed ==
  \A m \in Msg : put[m] # "new" =>
     /\ letter[m].from = letter[m].agreed.from
     /\ letter[m].rcpts = letter[m].agreed.rcpts

\* What is stored comes from a session that had authenticated, and that had
\* not been reset since.
OnlyAuthenticated == \A m \in Msg : put[m] # "new" => letter[m].authed

\* "Only acknowledge acceptance AFTER message is durably stored": once 250
\* has been sent no crash takes the message away, nor anything else but a
\* verdict or a message of the same name.
AckedIsDurable ==
  \A m \in acked :
     /\ m \in whole
     /\ inbox[PathOf(m)] = m \/ m \in judged \/ HasNamesake(m)

\* The strengthening that every step preserves: what the state of a session
\* says about the envelope it has collected.
Transaction(s) ==
  /\ at[s] # "closed" => up
  /\ state[s] \in {"MAIL_FROM", "RCPT_TO"} =>
       /\ authed[s]
       /\ agreed[s] = [from |-> mailFrom[s], rcpts |-> rcptTo[s]]
  /\ state[s] = "RCPT_TO" => rcptTo[s] # <<>>
  /\ at[s] \in {"body", "storing"} => state[s] = "RCPT_TO"
  /\ at[s] = "storing" => doing[s] \in Msg /\ put[doing[s]] \notin {"new", "dead"}

SmtpInv ==
  /\ SmtpTypeOK /\ StoreInv
  /\ \A s \in Session : Transaction(s)
  /\ EnvelopeAsAgreed /\ OnlyAuthenticated
  /\ \A m \in acked : put[m] = "stored" /\ m \in whole

\* Every recipient accepted with 250 finds the message in the mailbox.
EveryRecipientServed ==
  \A m \in acked \ judged : HasNamesake(m) \/
     \A i \in DOMAIN letter[m].rcpts : \E t \in Id : inbox[<<letter[m].rcpts[i], t>>] = m

-----------------------------------------------------------------------------
(* SmtpSession implements Relay.                                           *)

\* The transaction that a session has open, by its own variables.
Open(s) == IF state[s] \in {"MAIL_FROM", "RCPT_TO"}
             THEN [from |-> mailFrom[s], rcpts |-> rcptTo[s]]
             ELSE NoMsg

\* The message as handleData has handed it to the store.
Sent(m) == IF put[m] = "new" THEN NoMsg
           ELSE [from |-> letter[m].from, rcpts |-> letter[m].rcpts]

Contract == INSTANCE Relay WITH
  Client <- Session, Owner <- [p \in Path |-> p[1]], NoEnvelope <- NoMsg,
  Name <- Path, NoName <- NoMsg,
  answer <- [m \in Msg |-> Told(m)], id <- [m \in Msg |-> ToldId(m)],
  known <- authed, offer <- [s \in Session |-> Open(s)], waits <- doing,
  sent <- [m \in Msg |-> Sent(m)]

\* The server keeps what its replies promise, in any order of commands and
\* over deaths: only clients that have logged in hand messages over, each is
\* stored with the envelope that its client has built, for its first recipient,
\* and 250 follows the name that store returned (handleCommand, handleData).
ImplementsRelay == Contract!RelaySpec

\* What the refinement needs besides: a message is stored for the first of its
\* recipients, and a session waits for the message that it stores.
Bound ==
  /\ \A m \in Msg : put[m] # "new" => letter[m].rcpts # <<>> /\ box[m] = letter[m].rcpts[1]
  /\ \A s \in Session : at[s] # "storing" => doing[s] = NoMsg
=============================================================================
