------------------------------- MODULE Relay -------------------------------
(***************************************************************************)
(* What a client of the server may rely on.  A client that has logged in   *)
(* builds an envelope by MAIL and RCPT; a message that it hands over is    *)
(* taken with that envelope, and with no other; it is stored in the        *)
(* mailbox of its first recipient, and answered with 250 only when the     *)
(* store has told its name.  SmtpSession implements this module.           *)
(***************************************************************************)
EXTENDS Mailbox, Sequences

CONSTANTS
  Client,     \* the clients
  User,       \* senders and recipients
  NoUser,     \* the empty sender
  Owner,      \* Owner[n]: whose mailbox a file of the name n is in
  NoEnvelope  \* no transaction is open; the message was not handed over

VARIABLES
  known,      \* known[c]: c has logged in
  offer,      \* offer[c]: the envelope of the open transaction of c
  waits,      \* waits[c]: the message that c waits for the answer to
  sent,       \* sent[m]: the envelope that m was taken with
  acked       \* the messages answered with 250

clients   == <<known, offer, waits>>
messages  == <<sent, acked>>
relayvars == <<boxvars, clients, messages>>

\* The transaction after a message, which has an empty sender (RCPT is
\* accepted in it).
Fresh == [from |-> NoUser, rcpts |-> <<>>]

RelayInit ==
  /\ BoxInit
  /\ known = [c \in Client |-> FALSE]
  /\ offer = [c \in Client |-> NoEnvelope]
  /\ waits = [c \in Client |-> NoMsg]
  /\ sent = [m \in Msg |-> NoEnvelope]
  /\ acked = {}

-----------------------------------------------------------------------------
\* A client that does not wait for an answer may go on.
Speaks(c, envelope, login) ==
  /\ waits[c] = NoMsg
  /\ offer' = [offer EXCEPT ![c] = envelope]
  /\ known' = [known EXCEPT ![c] = login]
  /\ UNCHANGED <<boxvars, waits, messages>>

\* AUTH, HELO and EHLO leave the transaction; RSET and the end of the
\* connection forget the login as well.
LogIn(c)   == Speaks(c, NoEnvelope, TRUE)
Abandon(c) == Speaks(c, NoEnvelope, known[c])
Reset(c)   == Speaks(c, NoEnvelope, FALSE)

Begin(c, u) == known[c] /\ Speaks(c, [from |-> u, rcpts |-> <<>>], TRUE)

AddRecipient(c, u) ==
  /\ offer[c] # NoEnvelope
  /\ Speaks(c, [from |-> offer[c].from, rcpts |-> Append(offer[c].rcpts, u)], known[c])

\* A message is refused before it is stored.
Refuse(c) == offer[c] # NoEnvelope /\ Speaks(c, Fresh, known[c])

\* Only a client that has logged in hands a message over.
Submit(c, m) ==
  /\ known[c] /\ waits[c] = NoMsg
  /\ offer[c] # NoEnvelope /\ offer[c].rcpts # <<>>
  /\ sent[m] = NoEnvelope
  /\ sent' = [sent EXCEPT ![m] = offer[c]]
  /\ waits' = [waits EXCEPT ![c] = m]
  /\ UNCHANGED <<boxvars, known, offer, acked>>

\* 250 if the store has told the name, 451 otherwise.
Reply(c) ==
  /\ waits[c] # NoMsg /\ answer[waits[c]] # "none"
  /\ acked' = acked \cup {m \in {waits[c]} : answer[m] = "id"}
  /\ waits' = [waits EXCEPT ![c] = NoMsg]
  /\ offer' = [offer EXCEPT ![c] = Fresh]
  /\ UNCHANGED <<boxvars, known, sent>>

-----------------------------------------------------------------------------
\* What was handed over is stored, in the mailbox of its first recipient.
Store(m) ==
  /\ sent[m] # NoEnvelope
  /\ \/ \E n \in Name : /\ Owner[n] = sent[m].rcpts[1]
                        /\ Deliver(m, n) \/ AnswerId(m, n)
     \/ AnswerEmpty(m) \/ AnswerUnknown({m})
  /\ UNCHANGED <<clients, messages>>

Judge(m) == (Quarantine(m) \/ Delete(m)) /\ UNCHANGED <<clients, messages>>

\* The server dies: every connection ends, and who waited has no answer.
Die ==
  /\ \E cut \in SUBSET {m \in Msg : sent[m] # NoEnvelope} : AnswerUnknown(cut)
  /\ known' = [c \in Client |-> FALSE]
  /\ offer' = [c \in Client |-> NoEnvelope]
  /\ waits' = [c \in Client |-> NoMsg]
  /\ UNCHANGED messages

RelayNext ==
  \/ \E c \in Client :
       \/ LogIn(c) \/ Abandon(c) \/ Reset(c) \/ Refuse(c) \/ Reply(c)
       \/ \E u \in User : Begin(c, u) \/ AddRecipient(c, u)
       \/ \E m \in Msg : Submit(c, m)
  \/ \E m \in Msg : Store(m) \/ Judge(m)
  \/ Die

RelaySpec == RelayInit /\ [][RelayNext]_relayvars
=============================================================================
