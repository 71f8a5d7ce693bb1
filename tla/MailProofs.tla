------------------------------ MODULE MailProofs ------------------------------
(***************************************************************************)
(* The store, and the dialogue on top of it, for any number of sessions,   *)
(* messages, mailboxes, recipients and ids.                                *)
(*                                                                         *)
(* StoreInv is the inductive invariant of the store: every step is shown   *)
(* to preserve the types, what a call knows of its files (CallInv), what a *)
(* file says of the call that wrote it (FileInv), and the two promises     *)
(* themselves.                                                             *)
(*                                                                         *)
(* SmtpInv extends it: it ties the state of each session to the envelope   *)
(* that it has collected and to what its client has been told, and the     *)
(* acknowledged messages to the store.                                     *)
(***************************************************************************)
EXTENDS SmtpSession, TLAPS

-----------------------------------------------------------------------------
(* The store.                                                              *)

USE StoreNames

\* The initial state satisfies the invariant.
LEMMA StoreInvInit == StoreInit => StoreInv
  BY DEF StoreInit, StoreInv, StoreTypeOK, CallInv, FileInv, KeptUnlessNamesake, OnlyWhole,
         PutStates, Locked, Files, Path

\* Every step of StoreNext, and a stutter, preserves the invariant.
LEMMA StoreInvStep == StoreInv /\ [StoreNext]_svars => StoreInv'
<1> SUFFICES ASSUME StoreInv, [StoreNext]_svars PROVE StoreInv'
  OBVIOUS
<1> USE DEF StoreInv, svars, disk, calls
<1>1. ASSUME NEW m \in Msg, NEW u \in User \cup {NoUser}, Call(m, u) PROVE StoreInv'
  <2> USE <1>1 DEF Call, PutGo
  <2>1. StoreTypeOK'
    BY DEF StoreTypeOK, PutStates, Files, Path, PathOf
  <2>2. ASSUME NEW k \in Msg PROVE CallInv(k)'
    BY <2>2 DEF CallInv, StoreTypeOK, PutStates, Files, Path, PathOf, Locked, FileInv
  <2>3. ASSUME NEW p \in Path PROVE FileInv(p)'
    BY <2>3 DEF FileInv, CallInv, StoreTypeOK, PutStates, Files, Path, PathOf, Locked
  <2>4. KeptUnlessNamesake'
    BY DEF KeptUnlessNamesake, HasNamesake, FileInv, CallInv, StoreTypeOK, PutStates, Files, Path, PathOf, Locked
  <2>5. OnlyWhole'
    BY DEF OnlyWhole, CallInv, FileInv, StoreTypeOK, PutStates, Files, Path, PathOf, Locked
  <2> QED BY <2>1, <2>2, <2>3, <2>4, <2>5
<1>2. ASSUME NEW m \in Msg, CannotStore(m) PROVE StoreInv'
  <2> USE <1>2 DEF CannotStore, PutGo
  <2>1. StoreTypeOK'
    BY DEF StoreTypeOK, PutStates, Files, Path, PathOf
  <2>2. ASSUME NEW k \in Msg PROVE CallInv(k)'
    BY <2>2 DEF CallInv, StoreTypeOK, PutStates, Files, Path, PathOf, Locked, FileInv
  <2>3. ASSUME NEW p \in Path PROVE FileInv(p)'
    BY <2>3 DEF FileInv, CallInv, StoreTypeOK, PutStates, Files, Path, PathOf, Locked
  <2>4. KeptUnlessNamesake'
    BY DEF KeptUnlessNamesake, HasNamesake, FileInv, CallInv, StoreTypeOK, PutStates, Files, Path, PathOf, Locked
  <2>5. OnlyWhole'
    BY DEF OnlyWhole, CallInv, FileInv, StoreTypeOK, PutStates, Files, Path, PathOf, Locked
  <2> QED BY <2>1, <2>2, <2>3, <2>4, <2>5
<1>3. ASSUME NEW m \in Msg, GenerateId(m) PROVE StoreInv'
  <2> USE <1>3 DEF GenerateId, PutGo
  <2>1. StoreTypeOK'
    BY DEF StoreTypeOK, PutStates, Files, Path, PathOf
  <2>2. ASSUME NEW k \in Msg PROVE CallInv(k)'
    BY <2>2 DEF CallInv, StoreTypeOK, PutStates, Files, Path, PathOf, Locked, FileInv
  <2>3. ASSUME NEW p \in Path PROVE FileInv(p)'
    BY <2>3 DEF FileInv, CallInv, StoreTypeOK, PutStates, Files, Path, PathOf, Locked
  <2>4. KeptUnlessNamesake'
    BY DEF KeptUnlessNamesake, HasNamesake, FileInv, CallInv, StoreTypeOK, PutStates, Files, Path, PathOf, Locked
  <2>5. OnlyWhole'
    BY DEF OnlyWhole, CallInv, FileInv, StoreTypeOK, PutStates, Files, Path, PathOf, Locked
  <2> QED BY <2>1, <2>2, <2>3, <2>4, <2>5
<1>4. ASSUME NEW m \in Msg, CreateTemp(m) PROVE StoreInv'
  <2> USE <1>4 DEF CreateTemp, PutGo
  <2>1. StoreTypeOK'
    BY DEF StoreTypeOK, PutStates, Files, Path, PathOf
  <2>2. ASSUME NEW k \in Msg PROVE CallInv(k)'
    BY <2>2 DEF CallInv, StoreTypeOK, PutStates, Files, Path, PathOf, Locked, FileInv
  <2>3. ASSUME NEW p \in Path PROVE FileInv(p)'
    BY <2>3 DEF FileInv, CallInv, StoreTypeOK, PutStates, Files, Path, PathOf, Locked
  <2>4. KeptUnlessNamesake'
    BY DEF KeptUnlessNamesake, HasNamesake, FileInv, CallInv, StoreTypeOK, PutStates, Files, Path, PathOf, Locked
  <2>5. OnlyWhole'
    BY DEF OnlyWhole, CallInv, FileInv, StoreTypeOK, PutStates, Files, Path, PathOf, Locked
  <2> QED BY <2>1, <2>2, <2>3, <2>4, <2>5
<1>5. ASSUME NEW m \in Msg, WriteTemp(m) PROVE StoreInv'
  <2> USE <1>5 DEF WriteTemp, PutGo
  <2>1. StoreTypeOK'
    BY DEF StoreTypeOK, PutStates, Files, Path, PathOf
  <2>2. ASSUME NEW k \in Msg PROVE CallInv(k)'
    BY <2>2 DEF CallInv, StoreTypeOK, PutStates, Files, Path, PathOf, Locked, FileInv
  <2>3. ASSUME NEW p \in Path PROVE FileInv(p)'
    BY <2>3 DEF FileInv, CallInv, StoreTypeOK, PutStates, Files, Path, PathOf, Locked
  <2>4. KeptUnlessNamesake'
    BY DEF KeptUnlessNamesake, HasNamesake, FileInv, CallInv, StoreTypeOK, PutStates, Files, Path, PathOf, Locked
  <2>5. OnlyWhole'
    BY DEF OnlyWhole, CallInv, FileInv, StoreTypeOK, PutStates, Files, Path, PathOf, Locked
  <2> QED BY <2>1, <2>2, <2>3, <2>4, <2>5
<1>6. ASSUME NEW m \in Msg, FileFails(m) PROVE StoreInv'
  <2> USE <1>6 DEF FileFails, PutGo
  <2>1. StoreTypeOK'
    BY DEF StoreTypeOK, PutStates, Files, Path, PathOf
  <2>2. ASSUME NEW k \in Msg PROVE CallInv(k)'
    BY <2>2 DEF CallInv, StoreTypeOK, PutStates, Files, Path, PathOf, Locked, FileInv
  <2>3. ASSUME NEW p \in Path PROVE FileInv(p)'
    BY <2>3 DEF FileInv, CallInv, StoreTypeOK, PutStates, Files, Path, PathOf, Locked
  <2>4. KeptUnlessNamesake'
    BY DEF KeptUnlessNamesake, HasNamesake, FileInv, CallInv, StoreTypeOK, PutStates, Files, Path, PathOf, Locked
  <2>5. OnlyWhole'
    BY DEF OnlyWhole, CallInv, FileInv, StoreTypeOK, PutStates, Files, Path, PathOf, Locked
  <2> QED BY <2>1, <2>2, <2>3, <2>4, <2>5
<1>7. ASSUME NEW m \in Msg, RenameTemp(m) PROVE StoreInv'
  <2> USE <1>7 DEF RenameTemp, PutGo
  <2>1. StoreTypeOK'
    BY DEF StoreTypeOK, PutStates, Files, Path, PathOf
  <2>2. ASSUME NEW k \in Msg PROVE CallInv(k)'
    BY <2>2 DEF CallInv, StoreTypeOK, PutStates, Files, Path, PathOf, Locked, FileInv
  <2>3. ASSUME NEW p \in Path PROVE FileInv(p)'
    BY <2>3 DEF FileInv, CallInv, StoreTypeOK, PutStates, Files, Path, PathOf, Locked
  <2>4. KeptUnlessNamesake'
    BY DEF KeptUnlessNamesake, HasNamesake, FileInv, CallInv, StoreTypeOK, PutStates, Files, Path, PathOf, Locked
  <2>5. OnlyWhole'
    BY DEF OnlyWhole, CallInv, FileInv, StoreTypeOK, PutStates, Files, Path, PathOf, Locked
  <2> QED BY <2>1, <2>2, <2>3, <2>4, <2>5
<1>8. ASSUME NEW m \in Msg, Verify(m) PROVE StoreInv'
  <2> USE <1>8 DEF Verify, PutGo
  <2>1. StoreTypeOK'
    BY DEF StoreTypeOK, PutStates, Files, Path, PathOf
  <2>2. ASSUME NEW k \in Msg PROVE CallInv(k)'
    BY <2>2 DEF CallInv, StoreTypeOK, PutStates, Files, Path, PathOf, Locked, FileInv
  <2>3. ASSUME NEW p \in Path PROVE FileInv(p)'
    BY <2>3 DEF FileInv, CallInv, StoreTypeOK, PutStates, Files, Path, PathOf, Locked
  <2>4. KeptUnlessNamesake'
    BY DEF KeptUnlessNamesake, HasNamesake, FileInv, CallInv, StoreTypeOK, PutStates, Files, Path, PathOf, Locked
  <2>5. OnlyWhole'
    BY DEF OnlyWhole, CallInv, FileInv, StoreTypeOK, PutStates, Files, Path, PathOf, Locked
  <2> QED BY <2>1, <2>2, <2>3, <2>4, <2>5
<1>9. ASSUME NEW m \in Msg, VerifyThrows(m) PROVE StoreInv'
  <2> USE <1>9 DEF VerifyThrows, PutGo
  <2>1. StoreTypeOK'
    BY DEF StoreTypeOK, PutStates, Files, Path, PathOf
  <2>2. ASSUME NEW k \in Msg PROVE CallInv(k)'
    <3>1. mutex = m
      BY DEF CallInv, Locked
    <3>2. CASE k = m
      BY <3>1, <3>2 DEF CallInv, StoreTypeOK, PutStates, Locked
    <3>3. CASE k # m
      BY <3>1, <3>3 DEF CallInv, StoreTypeOK, PathOf, Locked, calls, disk
    <3> QED BY <3>2, <3>3
  <2>3. ASSUME NEW p \in Path PROVE FileInv(p)'
    BY <2>3 DEF FileInv, CallInv, StoreTypeOK, PutStates, Files, Path, PathOf, Locked
  <2>4. KeptUnlessNamesake'
    BY DEF KeptUnlessNamesake, HasNamesake, FileInv, CallInv, StoreTypeOK, PutStates, Files, Path, PathOf, Locked
  <2>5. OnlyWhole'
    BY DEF OnlyWhole, CallInv, FileInv, StoreTypeOK, PutStates, Files, Path, PathOf, Locked
  <2> QED BY <2>1, <2>2, <2>3, <2>4, <2>5
<1>10. ASSUME NEW m \in Msg, MoveToQuarantine(m) PROVE StoreInv'
  <2> USE <1>10 DEF MoveToQuarantine
  <2>1. StoreTypeOK'
    BY DEF StoreTypeOK, PutStates, Files, Path, PathOf
  <2>2. ASSUME NEW k \in Msg PROVE CallInv(k)'
    BY <2>2 DEF CallInv, StoreTypeOK, PutStates, Files, Path, PathOf, Locked, FileInv
  <2>3. ASSUME NEW p \in Path PROVE FileInv(p)'
    BY <2>3 DEF FileInv, CallInv, StoreTypeOK, PutStates, Files, Path, PathOf, Locked
  <2>4. KeptUnlessNamesake'
    BY DEF KeptUnlessNamesake, HasNamesake, FileInv, CallInv, StoreTypeOK, PutStates, Files, Path, PathOf, Locked
  <2>5. OnlyWhole'
    BY DEF OnlyWhole, CallInv, FileInv, StoreTypeOK, PutStates, Files, Path, PathOf, Locked
  <2> QED BY <2>1, <2>2, <2>3, <2>4, <2>5
<1>11. ASSUME NEW m \in Msg, DeleteMessage(m) PROVE StoreInv'
  <2> USE <1>11 DEF DeleteMessage
  <2>1. StoreTypeOK'
    BY DEF StoreTypeOK, PutStates, Files, Path, PathOf
  <2>2. ASSUME NEW k \in Msg PROVE CallInv(k)'
    BY <2>2 DEF CallInv, StoreTypeOK, PutStates, Files, Path, PathOf, Locked, FileInv
  <2>3. ASSUME NEW p \in Path PROVE FileInv(p)'
    BY <2>3 DEF FileInv, CallInv, StoreTypeOK, PutStates, Files, Path, PathOf, Locked
  <2>4. KeptUnlessNamesake'
    BY DEF KeptUnlessNamesake, HasNamesake, FileInv, CallInv, StoreTypeOK, PutStates, Files, Path, PathOf, Locked
  <2>5. OnlyWhole'
    BY DEF OnlyWhole, CallInv, FileInv, StoreTypeOK, PutStates, Files, Path, PathOf, Locked
  <2> QED BY <2>1, <2>2, <2>3, <2>4, <2>5
<1>12. ASSUME Kill PROVE StoreInv'
  <2> USE <1>12 DEF Kill
  <2>1. StoreTypeOK'
    BY DEF StoreTypeOK, PutStates, Files, Path, PathOf
  <2>2. ASSUME NEW k \in Msg PROVE CallInv(k)'
    BY <2>2 DEF CallInv, StoreTypeOK, PutStates, Files, Path, PathOf, Locked, FileInv
  <2>3. ASSUME NEW p \in Path PROVE FileInv(p)'
    BY <2>3 DEF FileInv, CallInv, StoreTypeOK, PutStates, Files, Path, PathOf, Locked
  <2>4. KeptUnlessNamesake'
    BY DEF KeptUnlessNamesake, HasNamesake, FileInv, CallInv, StoreTypeOK, PutStates, Files, Path, PathOf, Locked
  <2>5. OnlyWhole'
    BY DEF OnlyWhole, CallInv, FileInv, StoreTypeOK, PutStates, Files, Path, PathOf, Locked
  <2> QED BY <2>1, <2>2, <2>3, <2>4, <2>5
<1>13. ASSUME Restart PROVE StoreInv'
  <2> USE <1>13 DEF Restart
  <2>1. StoreTypeOK'
    BY DEF StoreTypeOK, PutStates, Files, Path, PathOf
  <2>2. ASSUME NEW k \in Msg PROVE CallInv(k)'
    BY <2>2 DEF CallInv, StoreTypeOK, PutStates, Files, Path, PathOf, Locked, FileInv
  <2>3. ASSUME NEW p \in Path PROVE FileInv(p)'
    BY <2>3 DEF FileInv, CallInv, StoreTypeOK, PutStates, Files, Path, PathOf, Locked
  <2>4. KeptUnlessNamesake'
    BY DEF KeptUnlessNamesake, HasNamesake, FileInv, CallInv, StoreTypeOK, PutStates, Files, Path, PathOf, Locked
  <2>5. OnlyWhole'
    BY DEF OnlyWhole, CallInv, FileInv, StoreTypeOK, PutStates, Files, Path, PathOf, Locked
  <2> QED BY <2>1, <2>2, <2>3, <2>4, <2>5
<1>14. ASSUME SetClock PROVE StoreInv'
  <2> USE <1>14 DEF SetClock
  <2>1. StoreTypeOK'
    BY DEF StoreTypeOK, PutStates, Files, Path, PathOf
  <2>2. ASSUME NEW k \in Msg PROVE CallInv(k)'
    BY <2>2 DEF CallInv, StoreTypeOK, PutStates, Files, Path, PathOf, Locked, FileInv
  <2>3. ASSUME NEW p \in Path PROVE FileInv(p)'
    BY <2>3 DEF FileInv, CallInv, StoreTypeOK, PutStates, Files, Path, PathOf, Locked
  <2>4. KeptUnlessNamesake'
    BY DEF KeptUnlessNamesake, HasNamesake, FileInv, CallInv, StoreTypeOK, PutStates, Files, Path, PathOf, Locked
  <2>5. OnlyWhole'
    BY DEF OnlyWhole, CallInv, FileInv, StoreTypeOK, PutStates, Files, Path, PathOf, Locked
  <2> QED BY <2>1, <2>2, <2>3, <2>4, <2>5
<1>15. ASSUME UNCHANGED svars PROVE StoreInv'
  <2> USE <1>15 DEF svars
  <2>1. StoreTypeOK'
    BY DEF StoreTypeOK, PutStates, Files, Path, PathOf
  <2>2. ASSUME NEW k \in Msg PROVE CallInv(k)'
    BY <2>2 DEF CallInv, StoreTypeOK, PutStates, Files, Path, PathOf, Locked, FileInv
  <2>3. ASSUME NEW p \in Path PROVE FileInv(p)'
    BY <2>3 DEF FileInv, CallInv, StoreTypeOK, PutStates, Files, Path, PathOf, Locked
  <2>4. KeptUnlessNamesake'
    BY DEF KeptUnlessNamesake, HasNamesake, FileInv, CallInv, StoreTypeOK, PutStates, Files, Path, PathOf, Locked
  <2>5. OnlyWhole'
    BY DEF OnlyWhole, CallInv, FileInv, StoreTypeOK, PutStates, Files, Path, PathOf, Locked
  <2> QED BY <2>1, <2>2, <2>3, <2>4, <2>5
<1> QED
  BY <1>1, <1>2, <1>3, <1>4, <1>5, <1>6, <1>7, <1>8, <1>9, <1>10, <1>11, <1>12, <1>13, <1>14, <1>15 DEF StoreNext, Put, Retro, Process

\* The inductive invariant holds throughout.
THEOREM StoreInvariant == StoreSpec => []StoreInv
  BY StoreInvInit, StoreInvStep, PTL DEF StoreSpec

\* Type correctness of the store.
THEOREM StoreTypes == StoreSpec => []StoreTypeOK
<1>1. StoreInv => StoreTypeOK
  BY DEF StoreInv
<1> QED BY StoreInvariant, <1>1, PTL

\* A message for which store returned an id stays until a verdict about it,
\* unless another message was stored under the same name.
THEOREM StoreKeeps == StoreSpec => []KeptUnlessNamesake
<1>1. StoreInv => KeptUnlessNamesake
  BY DEF StoreInv
<1> QED BY StoreInvariant, <1>1, PTL

\* A message for which store returned the empty id is in no mailbox.
THEOREM StoreFailureIsClean == StoreSpec => []FailedIsAbsent
<1>1. StoreInv => FailedIsAbsent
  BY DEF StoreInv, FailedIsAbsent, FileInv
<1> QED BY StoreInvariant, <1>1, PTL

\* No half-written message is in a mailbox.
THEOREM StoreOnlyWhole == StoreSpec => []OnlyWhole
<1>1. StoreInv => OnlyWhole
  BY DEF StoreInv
<1> QED BY StoreInvariant, <1>1, PTL

-----------------------------------------------------------------------------
(* The store implements Mailbox.                                           *)

\* A call that has not yet renamed its file, or has failed, has left nothing.
LEMMA NothingLeft ==
  ASSUME StoreInv, NEW m \in Msg, put[m] \in {"new", "called", "named", "open", "closed", "failed"}
  PROVE  Box!Out(m)
BY DEF StoreInv, FileInv, Box!Out

\* No file in a mailbox, and no answer: nothing that can be seen.
LEMMA NotSeen ==
  ASSUME UNCHANGED <<inbox, quarantine>>,
         \A k \in Msg : Told(k)' = Told(k),
         \A k \in Msg : put'[k] = "stored" <=> put[k] = "stored",
         \A k \in Msg : put[k] = "stored" => PathOf(k)' = PathOf(k)
  PROVE  UNCHANGED Box!boxvars
BY DEF Box!boxvars, ToldId

\* An answer other than a name.
LEMMA ToldOther ==
  ASSUME NEW m \in Msg, NEW a, a # "id", Told(m) = "none", Told(m)' = a,
         UNCHANGED <<inbox, quarantine, box, stamp>>,
         \A k \in Msg \ {m} : put'[k] = put[k]
  PROVE  /\ Box!Answer(m, a) /\ \A k \in Msg \ {m} : Told(k)' = Told(k)
         /\ UNCHANGED <<inbox, quarantine, [k \in Msg |-> ToldId(k)]>>
<1>1. \A k \in Msg \ {m} : Told(k)' = Told(k)
  BY DEF Told
<1>2. put[m] # "stored" /\ put'[m] # "stored"
  BY DEF Told
<1>3. \A k \in Msg : ToldId(k)' = ToldId(k)
  BY <1>2 DEF ToldId, PathOf
<1> QED
  BY <1>1, <1>3 DEF Box!Answer

\* The steps before the rename: only a failure is seen.
LEMMA BoxBefore ==
  ASSUME StoreInv, NEW m \in Msg,
         \/ \E u \in User \cup {NoUser} : Call(m, u)
         \/ CannotStore(m) \/ GenerateId(m) \/ CreateTemp(m) \/ WriteTemp(m) \/ FileFails(m)
  PROVE  Box!AnswerEmpty(m) \/ UNCHANGED Box!boxvars
<1>0. put \in [Msg -> PutStates] /\ box \in [Msg -> User \cup {NoUser}] /\ stamp \in [Msg -> Id]
  BY DEF StoreInv, StoreTypeOK
<1> USE DEF disk, calls
<1>1. ASSUME NEW u \in User \cup {NoUser}, Call(m, u) PROVE UNCHANGED Box!boxvars
  BY <1>0, <1>1, NotSeen DEF Call, PutGo, Told, PathOf
<1>2. CASE GenerateId(m) \/ CreateTemp(m) \/ WriteTemp(m)
  BY <1>0, <1>2, NotSeen DEF GenerateId, CreateTemp, WriteTemp, PutGo, Told, PathOf
<1>3. CASE CannotStore(m) \/ FileFails(m)
  <2>1. /\ put[m] \in {"called", "named", "open", "closed"} /\ put'[m] = "failed"
        /\ UNCHANGED <<inbox, quarantine, box, stamp>> /\ \A k \in Msg \ {m} : put'[k] = put[k]
    BY <1>0, <1>3 DEF CannotStore, FileFails, PutGo
  <2>2. Told(m) = "none" /\ Told(m)' = "empty"
    BY <2>1 DEF Told
  <2> QED
    BY <2>1, <2>2, NothingLeft, ToldOther DEF Box!AnswerEmpty
<1> QED
  BY <1>1, <1>2, <1>3

\* The rename, by which the message enters, and the answers.
LEMMA BoxAfter ==
  ASSUME StoreInv, NEW m \in Msg, RenameTemp(m) \/ Verify(m) \/ VerifyThrows(m)
  PROVE  /\ PathOf(m) \in Path
         /\ \/ Box!Deliver(m, PathOf(m)) \/ Box!AnswerId(m, PathOf(m))
            \/ Box!AnswerUnknown({m})
<1>0. /\ put \in [Msg -> PutStates] /\ inbox \in Files
      /\ PathOf(m) \in Path /\ CallInv(m)
  <2>1. CallInv(m) /\ put[m] \in Locked
    BY DEF StoreInv, RenameTemp, Verify, VerifyThrows, PutGo, Locked
  <2>2. box[m] \in User /\ stamp[m] \in Id
    BY <2>1 DEF CallInv, StoreInv, StoreTypeOK
  <2> QED
    BY <2>1, <2>2 DEF StoreInv, StoreTypeOK, PathOf, Path
<1>1. CASE RenameTemp(m)
  <2>1. /\ put[m] = "closed" /\ put'[m] = "moved" /\ \A k \in Msg \ {m} : put'[k] = put[k]
        /\ inbox' = [inbox EXCEPT ![PathOf(m)] = m] /\ UNCHANGED <<quarantine, box, stamp>>
    BY <1>0, <1>1 DEF RenameTemp, PutGo, CallInv
  <2>2. \A k \in Msg : Told(k)' = Told(k) /\ ToldId(k)' = ToldId(k)
    BY <2>1 DEF Told, ToldId, PathOf
  <2>3. Told(m) = "none"
    BY <2>1 DEF Told
  <2>4. Box!Deliver(m, PathOf(m))
    BY <2>1, <2>2, <2>3, NothingLeft DEF Box!Deliver
  <2> QED
    BY <1>0, <2>4
<1>2. CASE Verify(m)
  <2>1. /\ put[m] = "moved" /\ put'[m] = "stored" /\ \A k \in Msg \ {m} : put'[k] = put[k]
        /\ UNCHANGED <<inbox, quarantine, box, stamp>> /\ inbox[PathOf(m)] = m
    BY <1>0, <1>2 DEF Verify, PutGo, CallInv, disk
  <2>2. \A k \in Msg : /\ Told(k)' = IF k = m THEN "id" ELSE Told(k)
                       /\ ToldId(k)' = IF k = m THEN PathOf(m) ELSE ToldId(k)
    BY <2>1 DEF Told, ToldId, PathOf
  <2>3. Told(m) = "none"
    BY <2>1 DEF Told
  <2>4. Box!AnswerId(m, PathOf(m))
    BY <2>1, <2>2, <2>3 DEF Box!AnswerId, Box!Answer
  <2> QED
    BY <1>0, <2>4
<1>3. CASE VerifyThrows(m)
  <2>1. /\ put[m] = "moved" /\ put'[m] = "thrown" /\ \A k \in Msg \ {m} : put'[k] = put[k]
        /\ UNCHANGED <<inbox, quarantine, box, stamp>>
    BY <1>0, <1>3 DEF VerifyThrows, PutGo, disk
  <2>2. Told(m) = "none" /\ Told(m)' = "unknown"
    BY <2>1 DEF Told
  <2>3. Box!AnswerUnknown({m})
    BY <2>1, <2>2, ToldOther DEF Box!AnswerUnknown
  <2> QED
    BY <1>0, <2>3
<1> QED
  BY <1>1, <1>2, <1>3

\* A verdict, which goes by the name that the caller was told.
LEMMA BoxVerdict ==
  ASSUME StoreInv, NEW m \in Msg, Retro(m)
  PROVE  Box!Quarantine(m) \/ Box!Delete(m)
<1>1. put[m] = "stored" /\ UNCHANGED calls
  BY DEF Retro, MoveToQuarantine, DeleteMessage
<1>2. /\ \A k \in Msg : Told(k)' = Told(k) /\ ToldId(k)' = ToldId(k)
      /\ Told(m) = "id" /\ ToldId(m) = PathOf(m)
  BY <1>1 DEF calls, Told, ToldId, PathOf
<1> QED
  BY <1>2 DEF Retro, MoveToQuarantine, DeleteMessage, Box!Quarantine, Box!Delete

\* A death cuts off the calls under way, which get no answer.
LEMMA BoxDeath ==
  ASSUME StoreInv, Kill
  PROVE  \E cut \in SUBSET {m \in Msg : put[m] # "new"} : Box!AnswerUnknown(cut)
<1> DEFINE cut == {m \in Msg : put[m] \in Locked \cup {"called"}}
<1>1. /\ \A k \in Msg : put'[k] = IF k \in cut THEN "dead" ELSE put[k]
      /\ UNCHANGED <<inbox, quarantine, box, stamp>>
  BY DEF Kill, disk
<1>2. /\ \A k \in cut : Told(k) = "none"
      /\ \A k \in Msg : Told(k)' = IF k \in cut THEN "unknown" ELSE Told(k)
  BY <1>1 DEF Told, Locked
<1>3. \A k \in Msg : ToldId(k)' = ToldId(k)
  BY <1>1 DEF ToldId, Locked, PathOf
<1>4. cut \in SUBSET {m \in Msg : put[m] # "new"}
  BY DEF Locked
<1> HIDE DEF cut
<1>5. Box!AnswerUnknown(cut)
  BY <1>1, <1>2, <1>3, <1>4 DEF Box!AnswerUnknown
<1> QED
  BY <1>4, <1>5

\* A restart and the clock are not seen.
LEMMA BoxProcess ==
  ASSUME Restart \/ SetClock \/ UNCHANGED svars
  PROVE  UNCHANGED Box!boxvars
BY NotSeen DEF Restart, SetClock, svars, calls, disk, Told, PathOf

\* The store implements Mailbox: seen from outside a call is one step, through
\* deaths, failing writes and other callers.
THEOREM StoreImplementsMailbox == StoreSpec => ImplementsMailbox
<1>1. StoreInit => Box!BoxInit
  BY DEF StoreInit, Box!BoxInit, Told, ToldId
<1>2. StoreInv /\ [StoreNext]_svars => [Box!BoxNext]_(Box!boxvars)
  <2> SUFFICES ASSUME StoreInv, [StoreNext]_svars PROVE [Box!BoxNext]_(Box!boxvars)
    OBVIOUS
  <2>1. ASSUME NEW m \in Msg, (\E u \in User \cup {NoUser} : Call(m, u)) \/ Put(m) \/ Retro(m)
        PROVE  [Box!BoxNext]_(Box!boxvars)
    <3>1. \/ Box!AnswerEmpty(m) \/ UNCHANGED Box!boxvars
          \/ Box!Quarantine(m) \/ Box!Delete(m) \/ Box!AnswerUnknown({m})
          \/ \E n \in Path : Box!Deliver(m, n) \/ Box!AnswerId(m, n)
      BY <2>1, BoxBefore, BoxAfter, BoxVerdict DEF Put
    <3>2. {m} \in SUBSET Msg
      OBVIOUS
    <3> QED
      BY <3>1, <3>2 DEF Box!BoxNext
  <2>2. CASE Kill
    BY <2>2, BoxDeath DEF Box!BoxNext
  <2>3. CASE Restart \/ SetClock \/ UNCHANGED svars
    BY <2>3, BoxProcess
  <2> QED
    BY <2>1, <2>2, <2>3 DEF StoreNext, Process
<1>3. StoreSpec => Box!BoxSpec
  BY <1>1, <1>2, StoreInvariant, PTL DEF StoreSpec, Box!BoxSpec
<1> QED
  BY <1>3 DEF ImplementsMailbox

\* An answer is one message's.
LEMMA AnswerIs ==
  ASSUME NEW m \in Msg, NEW a, Box!Answer(m, a)
  PROVE  \A k \in Msg : Told(k)' = IF k = m THEN a ELSE Told(k)
BY DEF Box!Answer

\* What Mailbox says by itself: its callers' messages are in one place each,
\* and not at all after the answer that nothing was stored.
LEMMA BoxInvariant == Box!BoxSpec => []Box!BoxInv
<1> DEFINE Names   == [k \in Msg |-> ToldId(k)]
           Answers == [k \in Msg |-> Told(k)]
           Kept    == Box!EachOnce /\ Box!EmptyIsOut
<1>1. Box!BoxInit => Box!BoxInv
  BY DEF Box!BoxInit, Box!BoxInv, Box!BoxTypeOK, Box!EachOnce, Box!EmptyIsOut, Box!Named
<1>2. Box!BoxInv /\ [Box!BoxNext]_(Box!boxvars) => Box!BoxInv'
  <2> SUFFICES ASSUME Box!BoxInv, [Box!BoxNext]_(Box!boxvars) PROVE Box!BoxInv'
    OBVIOUS
  <2> USE DEF Box!BoxInv
  <2>0. /\ inbox \in [Path -> Msg \cup {NoMsg}] /\ quarantine \in [Path -> Msg \cup {NoMsg}]
        /\ \A k \in Msg : Told(k) \in {"none", "id", "empty", "unknown"}
        /\ \A k \in Msg : Names[k] \in Path \cup {NoMsg}
        /\ \A k \in Msg : Told(k) = "id" => Names[k] \in Path
    BY DEF Box!BoxTypeOK, Box!Named, Told
  <2>1. ASSUME NEW m \in Msg, NEW n \in Path, Box!Deliver(m, n) PROVE Box!BoxInv'
    <3>1. /\ inbox' = [inbox EXCEPT ![n] = m] /\ quarantine' = quarantine /\ Box!Out(m)
          /\ Answers' = Answers /\ Names' = Names /\ Told(m) = "none"
      BY <2>1 DEF Box!Deliver
    <3>2. \A k \in Msg : Told(k)' = Told(k)
      BY <3>1
    <3>3. Kept'
      BY <2>0, <3>1, <3>2 DEF Box!EachOnce, Box!EmptyIsOut, Box!Out
    <3>4. Box!BoxTypeOK' /\ Box!Named'
      BY <2>0, <3>1, <3>2 DEF Box!BoxTypeOK, Box!Named
    <3> QED
      BY <3>3, <3>4
  <2>2. ASSUME UNCHANGED <<inbox, quarantine>>,
               \A k \in Msg : Told(k)' \in {"none", "id", "empty", "unknown"},
               \A k \in Msg : Told(k)' = "empty" => Told(k) = "empty" \/ Box!Out(k),
               \A k \in Msg : Names[k]' \in Path \cup {NoMsg},
               \A k \in Msg : Told(k)' = "id" => Names[k]' \in Path
        PROVE  Box!BoxInv'
    <3>1. Kept'
      BY <2>2 DEF Box!EachOnce, Box!EmptyIsOut, Box!Out
    <3>2. Box!BoxTypeOK' /\ Box!Named'
      BY <2>0, <2>2 DEF Box!BoxTypeOK, Box!Named
    <3> QED
      BY <3>1, <3>2
  <2>3. ASSUME NEW m \in Msg, NEW n \in Path, Box!AnswerId(m, n) PROVE Box!BoxInv'
    <3>1. /\ UNCHANGED <<inbox, quarantine>> /\ Names' = [Names EXCEPT ![m] = n]
          /\ \A k \in Msg : Told(k)' = IF k = m THEN "id" ELSE Told(k)
      BY <2>3, AnswerIs DEF Box!AnswerId
    <3>2. \A k \in Msg : Names'[k] = IF k = m THEN n ELSE Names[k]
      BY <3>1
    <3> QED
      BY <2>0, <2>2, <3>1, <3>2
  <2>4. ASSUME NEW m \in Msg, Box!AnswerEmpty(m) PROVE Box!BoxInv'
    <3>1. /\ UNCHANGED <<inbox, quarantine>> /\ Box!Out(m) /\ Names' = Names
          /\ \A k \in Msg : Told(k)' = IF k = m THEN "empty" ELSE Told(k)
      BY <2>4, AnswerIs DEF Box!AnswerEmpty
    <3> HIDE DEF Names
    <3> QED
      BY <2>0, <2>2, <3>1
  <2>5. ASSUME NEW callers \in SUBSET Msg, Box!AnswerUnknown(callers) PROVE Box!BoxInv'
    <3>1. /\ UNCHANGED <<inbox, quarantine>> /\ Names' = Names
          /\ \A k \in Msg : Told(k)' = IF k \in callers THEN "unknown" ELSE Told(k)
      BY <2>5 DEF Box!AnswerUnknown
    <3> HIDE DEF Names
    <3> QED
      BY <2>0, <2>2, <3>1
  <2>6. ASSUME NEW m \in Msg, Box!Quarantine(m) \/ Box!Delete(m) PROVE Box!BoxInv'
    <3> DEFINE n == Names[m]
    <3>1. /\ Told(m) = "id" /\ Answers' = Answers /\ Names' = Names
          /\ inbox' = [inbox EXCEPT ![n] = NoMsg]
          /\ \/ quarantine' = quarantine
             \/ inbox[n] # NoMsg /\ quarantine' = [quarantine EXCEPT ![n] = inbox[n]]
      BY <2>6 DEF Box!Quarantine, Box!Delete
    <3>2. \A k \in Msg : Told(k)' = Told(k)
      BY <3>1
    <3>3. n \in Path
      BY <2>0, <3>1
    <3> HIDE DEF n
    <3>4. /\ inbox' \in [Path -> Msg \cup {NoMsg}] /\ quarantine' \in [Path -> Msg \cup {NoMsg}]
          /\ \A o \in Path : inbox'[o] = IF o = n THEN NoMsg ELSE inbox[o]
          /\ \A o \in Path : quarantine'[o] = quarantine[o]
                             \/ (o = n /\ quarantine'[o] = inbox[o])
      <4>1. /\ inbox' \in [Path -> Msg \cup {NoMsg}]
            /\ \A o \in Path : inbox'[o] = IF o = n THEN NoMsg ELSE inbox[o]
        BY <2>0, <3>1
      <4>2. CASE quarantine' = quarantine
        BY <2>0, <4>1, <4>2
      <4>3. CASE quarantine' = [quarantine EXCEPT ![n] = inbox[n]]
        <5>1. inbox[n] \in Msg \cup {NoMsg}
          BY <2>0, <3>3
        <5> QED
          BY <2>0, <4>1, <4>3, <5>1
      <4> QED
        BY <3>1, <4>2, <4>3
    <3>5. Kept'
      BY <2>0, <3>2, <3>4 DEF Box!EachOnce, Box!EmptyIsOut, Box!Out
    <3>6. Box!BoxTypeOK' /\ Box!Named'
      BY <2>0, <3>1, <3>2, <3>4 DEF Box!BoxTypeOK, Box!Named
    <3> QED
      BY <3>5, <3>6
  <2>7. CASE UNCHANGED Box!boxvars
    <3>1. UNCHANGED <<inbox, quarantine>> /\ Names' = Names /\ \A k \in Msg : Told(k)' = Told(k)
      <4>1. UNCHANGED <<inbox, quarantine>> /\ Answers' = Answers /\ Names' = Names
        BY <2>7 DEF Box!boxvars
      <4> QED
        BY <4>1
    <3> HIDE DEF Names
    <3> QED
      BY <2>0, <2>2, <3>1
  <2> QED
    BY <2>1, <2>3, <2>4, <2>5, <2>6, <2>7 DEF Box!BoxNext
<1> QED
  BY <1>1, <1>2, PTL DEF Box!BoxSpec

\* A message is in one mailbox under one name, once: no order of calls, deaths
\* and verdicts makes a copy of it.
THEOREM StoreEachOnce == StoreSpec => []Box!EachOnce
<1>1. Box!BoxInv => Box!EachOnce
  BY DEF Box!BoxInv
<1>2. StoreSpec => Box!BoxSpec
  BY StoreImplementsMailbox DEF ImplementsMailbox
<1> QED
  BY BoxInvariant, <1>1, <1>2, PTL

-----------------------------------------------------------------------------
(* The dialogue.                                                           *)

\* The initial state satisfies the invariant.
LEMMA SmtpInvInit == SmtpInit => SmtpInv
<1> SUFFICES ASSUME SmtpInit PROVE SmtpInv
  OBVIOUS
<1> USE DEF SmtpInit
<1>1. StoreInv
  BY StoreInvInit
<1>2. Blank \in Letters /\ Empty \in Envelope
  BY DEF Blank, Letters, Empty, Envelope, Mailbox
<1>3. SmtpTypeOK
  BY <1>1, <1>2 DEF SmtpTypeOK, StoreInv, Places, States, Mailbox
<1>4. ASSUME NEW s \in Session PROVE Transaction(s)
  BY DEF Transaction
<1>5. EnvelopeAsAgreed /\ OnlyAuthenticated
  BY DEF StoreInit, EnvelopeAsAgreed, OnlyAuthenticated
<1> QED BY <1>1, <1>3, <1>4, <1>5 DEF SmtpInv

\* A call of store that has begun stays begun, and one that has returned an
\* id stays returned; only a kill leaves a call dead.
LEMMA PutAdvances ==
  ASSUME StoreTypeOK, StoreNext, NEW m \in Msg
  PROVE  /\ put[m] = "stored" => put'[m] = "stored"
         /\ put[m] # "new" => put'[m] # "new"
         /\ put[m] \notin {"new", "dead"} => put'[m] # "dead" \/ Kill
         /\ m \in whole => m \in whole'
  BY DEF StoreTypeOK, StoreNext, Call, Put, Retro, Process, PutGo, CannotStore, GenerateId,
         CreateTemp, WriteTemp, FileFails, RenameTemp, Verify, VerifyThrows,
         MoveToQuarantine, DeleteMessage, Kill, Restart, SetClock, Locked, disk, calls

\* The types of what a session keeps, and what a step of the session s leaves alone.
SessionTypeOK ==
  /\ at \in [Session -> Places] /\ state \in [Session -> States]
  /\ authed \in [Session -> BOOLEAN] /\ mailFrom \in [Session -> Mailbox]
  /\ rcptTo \in [Session -> Seq(User)] /\ agreed \in [Session -> Envelope]
  /\ doing \in [Session -> Msg \cup {NoMsg}]
OnlyOf(s) ==
  \A r \in Session \ {s} :
    /\ at'[r] = at[r] /\ state'[r] = state[r] /\ authed'[r] = authed[r]
    /\ mailFrom'[r] = mailFrom[r] /\ rcptTo'[r] = rcptTo[r]
    /\ agreed'[r] = agreed[r] /\ doing'[r] = doing[r]

\* A step of one session that leaves the store keeps the invariant, if it keeps the
\* session's own part and acknowledges only what is stored.
LEMMA DialogueStep ==
  ASSUME SmtpInv, NEW s \in Session, UNCHANGED <<svars, letter>>,
         acked' \subseteq acked \cup {m \in Msg : put[m] = "stored" /\ m \in whole},
         SessionTypeOK', OnlyOf(s), Transaction(s)'
  PROVE  SmtpInv'
<1>1. UNCHANGED <<up, put, box, stamp, whole>> /\ StoreInv /\ SmtpTypeOK
  BY DEF SmtpInv, svars, calls, disk
<1>2. StoreInv'
  BY <1>1, StoreInvStep
<1>3. SmtpTypeOK'
  BY <1>1, <1>2 DEF SmtpTypeOK, SessionTypeOK, StoreInv
<1>4. ASSUME NEW r \in Session PROVE Transaction(r)'
  <2>1. CASE r = s
    BY <2>1
  <2>2. CASE r # s
    BY <1>1, <2>2 DEF SmtpInv, Transaction, OnlyOf
  <2> QED
    BY <2>1, <2>2
<1>5. EnvelopeAsAgreed' /\ OnlyAuthenticated'
  BY <1>1 DEF SmtpInv, EnvelopeAsAgreed, OnlyAuthenticated
<1>6. (\A m \in acked : put[m] = "stored" /\ m \in whole)'
  BY <1>1 DEF SmtpInv
<1> QED
  BY <1>2, <1>3, <1>4, <1>5, <1>6 DEF SmtpInv

\* Commands.
LEMMA LineKeeps ==
  ASSUME SmtpInv, NEW s \in Session, Connect(s) \/ Line(s)
  PROVE  SmtpInv'
<1>0. /\ SessionTypeOK /\ up /\ Transaction(s) /\ at[s] \in {"closed", "command"}
      /\ Empty \in Envelope /\ \A u \in User : [from |-> u, rcpts |-> <<>>] \in Envelope
  BY DEF SmtpInv, SmtpTypeOK, SessionTypeOK, Empty, Envelope, Mailbox, Transaction, Connect, Line,
         Hello, Auth, Rset, Data, Leave, Mail, Rcpt, Command
<1> USE DEF SessionTypeOK, OnlyOf, Places, States, Mailbox
<1>1. UNCHANGED <<svars, mail>> /\ up'
  BY <1>0 DEF Connect, Line, Hello, Auth, Rset, Data, Leave, Mail, Rcpt, svars
<1>2. CASE Connect(s) \/ Data(s)
  <2>1. SessionTypeOK' /\ OnlyOf(s)
    BY <1>0, <1>2 DEF Connect, Data
  <2>2. Transaction(s)'
    BY <1>0, <1>1, <1>2 DEF Connect, Data, Command, Transaction
  <2> QED
    BY <1>1, <2>1, <2>2, DialogueStep DEF mail
<1>3. CASE Hello(s) \/ Auth(s)
  <2>1. SessionTypeOK' /\ OnlyOf(s)
    BY <1>0, <1>3 DEF Hello, Auth
  <2>2. Transaction(s)'
    BY <1>0, <1>1, <1>3 DEF Hello, Auth, Command, Transaction
  <2> QED
    BY <1>1, <2>1, <2>2, DialogueStep DEF mail
<1>4. CASE Rset(s) \/ Leave(s)
  <2>0. NoUser \in Mailbox /\ <<>> \in Seq(User)
    OBVIOUS
  <2>1. SessionTypeOK' /\ OnlyOf(s)
    <3>1. CASE Rset(s)
      BY <1>0, <2>0, <3>1 DEF Rset
    <3>2. CASE Leave(s)
      BY <1>0, <2>0, <3>2 DEF Leave
    <3> QED
      BY <1>4, <3>1, <3>2
  <2>2. Transaction(s)'
    BY <1>0, <1>1, <1>4 DEF Rset, Leave, Command, Transaction
  <2> QED
    BY <1>1, <2>1, <2>2, DialogueStep DEF mail
<1>5. ASSUME NEW u \in User, Mail(s, u) PROVE SmtpInv'
  <2>1. SessionTypeOK' /\ OnlyOf(s)
    BY <1>0, <1>5 DEF Mail
  <2>2. Transaction(s)'
    BY <1>0, <1>1, <1>5 DEF Mail, Command, Transaction
  <2> QED
    BY <1>1, <2>1, <2>2, DialogueStep DEF mail
<1>6. ASSUME NEW u \in User, Rcpt(s, u) PROVE SmtpInv'
  <2>1. mailFrom[s] \in Mailbox /\ Append(rcptTo[s], u) \in Seq(User) /\ Append(rcptTo[s], u) # <<>>
    <3>1. rcptTo[s] \in Seq(User) /\ mailFrom[s] \in Mailbox
      BY <1>0
    <3>2. Len(Append(rcptTo[s], u)) = Len(rcptTo[s]) + 1
      BY <3>1
    <3> QED
      BY <3>1, <3>2
  <2>2. agreed' = [agreed EXCEPT ![s] = [from |-> mailFrom[s], rcpts |-> Append(rcptTo[s], u)]]
    <3>1. agreed[s] = [from |-> mailFrom[s], rcpts |-> rcptTo[s]]
      BY <1>0, <1>6 DEF Rcpt, Transaction
    <3>2. agreed[s].from = mailFrom[s] /\ agreed[s].rcpts = rcptTo[s]
      BY <3>1
    <3> QED
      BY <1>6, <3>2 DEF Rcpt
  <2>3. SessionTypeOK' /\ OnlyOf(s)
    BY <1>0, <1>6, <2>1, <2>2 DEF Rcpt, Envelope
  <2>4. /\ at'[s] = "command" /\ state'[s] = "RCPT_TO" /\ authed'[s] /\ mailFrom'[s] = mailFrom[s]
        /\ rcptTo'[s] = Append(rcptTo[s], u)
        /\ agreed'[s] = [from |-> mailFrom[s], rcpts |-> Append(rcptTo[s], u)]
    BY <1>0, <1>6, <2>2 DEF Rcpt, Command, Transaction
  <2>5. Transaction(s)'
    BY <1>1, <2>1, <2>4 DEF Transaction
  <2> QED
    BY <1>1, <2>3, <2>5, DialogueStep DEF mail
<1> QED
  BY <1>2, <1>3, <1>4, <1>5, <1>6 DEF Line

\* DATA, from the body to the answer.
LEMMA DataKeeps ==
  ASSUME SmtpInv, NEW s \in Session, Body(s) \/ Reply(s)
  PROVE  SmtpInv'
<1>0. /\ SessionTypeOK /\ SmtpTypeOK /\ StoreInv /\ up /\ Transaction(s)
      /\ state[s] = "RCPT_TO" /\ Empty \in Envelope
  BY DEF SmtpInv, SmtpTypeOK, SessionTypeOK, Empty, Envelope, Mailbox, Transaction,
         Body, BodyRefused, BodyThrows, BodyRead, Reply
<1> USE DEF SessionTypeOK, OnlyOf, Places, States, Mailbox
<1>1. CASE BodyThrows(s)
  <2>1. SessionTypeOK' /\ OnlyOf(s)
    BY <1>0, <1>1 DEF BodyThrows
  <2>2. Transaction(s)'
    BY <1>0, <1>1 DEF BodyThrows, Transaction, svars
  <2> QED
    BY <1>1, <2>1, <2>2, DialogueStep DEF BodyThrows, mail
<1>2. ASSUME EndData(s), UNCHANGED svars PROVE SessionTypeOK' /\ OnlyOf(s) /\ Transaction(s)'
  <2>1. SessionTypeOK' /\ OnlyOf(s)
    BY <1>0, <1>2 DEF EndData
  <2>2. /\ at'[s] = "command" /\ state'[s] = "MAIL_FROM" /\ authed'[s] /\ up'
        /\ agreed'[s] = [from |-> mailFrom'[s], rcpts |-> rcptTo'[s]]
    BY <1>0, <1>2 DEF EndData, Transaction, Empty, svars
  <2> QED
    BY <2>1, <2>2 DEF Transaction
<1>3. CASE BodyRefused(s)
  BY <1>2, <1>3, DialogueStep DEF BodyRefused, mail
<1>4. CASE Reply(s)
  <2>1. doing[s] \in Msg /\ (put[doing[s]] = "stored" => doing[s] \in whole)
    BY <1>0, <1>4 DEF Reply, Transaction, StoreInv, CallInv
  <2>2. acked' \subseteq acked \cup {m \in Msg : put[m] = "stored" /\ m \in whole}
    BY <1>4, <2>1 DEF Reply
  <2> QED
    BY <1>2, <1>4, <2>2, DialogueStep DEF Reply
<1>5. ASSUME NEW m \in Msg, BodyRead(s, m) PROVE SmtpInv'
  <2>1. rcptTo[s] \in Seq(User) /\ rcptTo[s] # <<>> /\ rcptTo[s][1] \in User
    BY <1>0 DEF Transaction
  <2>2. StoreInv'
    <3>1. Call(m, rcptTo[s][1])
      BY <1>5 DEF BodyRead
    <3> QED
      BY <1>0, <2>1, <3>1, StoreInvStep DEF StoreNext
  <2>3. /\ put[m] = "new" /\ put' = [put EXCEPT ![m] = "called"] /\ UNCHANGED <<up, whole, acked>>
        /\ at' = [at EXCEPT ![s] = "storing"] /\ doing' = [doing EXCEPT ![s] = m]
        /\ UNCHANGED <<state, authed, mailFrom, rcptTo, agreed>>
        /\ letter' = [letter EXCEPT ![m] = [from |-> mailFrom[s], rcpts |-> rcptTo[s],
                                            agreed |-> agreed[s], authed |-> authed[s]]]
    BY <1>5 DEF BodyRead, Call, PutGo, disk
  <2>4. put \in [Msg -> PutStates] /\ letter \in [Msg -> Letters]
    BY <1>0 DEF SmtpTypeOK, StoreTypeOK
  <2>5. SmtpTypeOK'
    <3>1. [from |-> mailFrom[s], rcpts |-> rcptTo[s], agreed |-> agreed[s], authed |-> authed[s]] \in Letters
      BY <1>0 DEF Letters
    <3> QED
      BY <1>0, <2>2, <2>3, <2>4, <3>1 DEF SmtpTypeOK, StoreInv
  <2>6. ASSUME NEW r \in Session PROVE Transaction(r)'
    <3>1. Transaction(r)
      BY DEF SmtpInv
    <3>2. CASE r = s
      BY <1>0, <2>3, <2>4, <3>1, <3>2 DEF Transaction
    <3>3. CASE r # s
      <4>1. at'[r] = at[r] /\ doing'[r] = doing[r]
        BY <1>0, <2>3, <3>3
      <4>2. at[r] = "storing" => doing[r] # m
        BY <2>3, <3>1 DEF Transaction
      <4> QED
        BY <2>3, <2>4, <3>1, <4>1, <4>2 DEF Transaction
    <3> QED
      BY <3>2, <3>3
  <2>7. EnvelopeAsAgreed' /\ OnlyAuthenticated'
    <3>1. authed[s] /\ agreed[s] = [from |-> mailFrom[s], rcpts |-> rcptTo[s]]
      BY <1>0 DEF Transaction
    <3> QED
      BY <2>3, <2>4, <3>1 DEF SmtpInv, EnvelopeAsAgreed, OnlyAuthenticated
  <2>8. (\A k \in acked : put[k] = "stored" /\ k \in whole)'
    BY <1>0, <2>3, <2>4 DEF SmtpInv, SmtpTypeOK
  <2> QED
    BY <2>2, <2>5, <2>6, <2>7, <2>8 DEF SmtpInv
<1> QED
  BY <1>1, <1>3, <1>4, <1>5 DEF Body

\* The store's own steps begin no call and leave the mailboxes of all calls.
LEMMA StoreStepKeeps ==
  ASSUME SmtpInv, StoreStep \/ KillSessions, NEW m \in Msg
  PROVE  (put'[m] = "new" <=> put[m] = "new") /\ box' = box /\ UNCHANGED mail
<1>1. put \in [Msg -> PutStates]
  BY DEF SmtpInv, StoreInv, StoreTypeOK
<1> QED
  BY <1>1 DEF StoreStep, KillSessions, Put, Retro, PutGo, CannotStore, GenerateId, CreateTemp, WriteTemp,
         FileFails, RenameTemp, Verify, VerifyThrows, MoveToQuarantine, DeleteMessage,
         Kill, Restart, SetClock, Locked, calls

\* The steps of the store, and the death of the process.
LEMMA StoreKeepsSessions ==
  ASSUME SmtpInv, StoreStep
  PROVE  SmtpInv'
<1>1. SmtpTypeOK /\ StoreTypeOK /\ UNCHANGED <<at, state, authed, mailFrom, rcptTo, agreed, doing, letter, acked>>
  BY DEF SmtpInv, StoreInv, StoreStep, dialogue, mail
<1>2. StoreNext /\ (up => up')
  BY DEF StoreStep, StoreNext, Process, Put, Retro, CannotStore, GenerateId, CreateTemp, WriteTemp,
         FileFails, RenameTemp, Verify, VerifyThrows, MoveToQuarantine, DeleteMessage, Restart, SetClock
<1>3. StoreInv'
  BY <1>2, StoreInvStep DEF SmtpInv
<1>4. SmtpTypeOK'
  BY <1>1, <1>3 DEF SmtpTypeOK, StoreInv
<1>5. ASSUME NEW s \in Session PROVE Transaction(s)'
  <2>1. Transaction(s)
    BY DEF SmtpInv
  <2>2. ~Kill \/ at[s] = "closed"
    BY <1>2, <2>1 DEF Kill, Transaction
  <2>3. at[s] = "storing" => put'[doing[s]] \notin {"new", "dead"}
    BY <1>1, <1>2, <2>1, <2>2, PutAdvances DEF Transaction
  <2> QED
    BY <1>1, <1>2, <2>1, <2>3 DEF Transaction
<1>6. EnvelopeAsAgreed' /\ OnlyAuthenticated'
  BY <1>1, StoreStepKeeps DEF SmtpInv, EnvelopeAsAgreed, OnlyAuthenticated
<1>7. (\A m \in acked : put[m] = "stored" /\ m \in whole)'
  BY <1>1, <1>2, PutAdvances DEF SmtpInv, SmtpTypeOK
<1> QED
  BY <1>3, <1>4, <1>5, <1>6, <1>7 DEF SmtpInv

LEMMA DeathKeeps ==
  ASSUME SmtpInv, KillSessions
  PROVE  SmtpInv'
<1>1. SmtpTypeOK /\ StoreTypeOK /\ StoreNext /\ UNCHANGED <<letter, acked>> /\ Empty \in Envelope
  BY DEF SmtpInv, StoreInv, KillSessions, StoreNext, Process, mail, Empty, Envelope, Mailbox
<1>2. StoreInv'
  BY <1>1, StoreInvStep DEF SmtpInv
<1>3. SmtpTypeOK'
  BY <1>1, <1>2 DEF KillSessions, SmtpTypeOK, StoreInv, Places, States, Mailbox
<1>4. ASSUME NEW s \in Session PROVE Transaction(s)'
  BY DEF KillSessions, Transaction
<1>5. EnvelopeAsAgreed' /\ OnlyAuthenticated'
  BY <1>1, StoreStepKeeps DEF SmtpInv, EnvelopeAsAgreed, OnlyAuthenticated
<1>6. (\A m \in acked : put[m] = "stored" /\ m \in whole)'
  BY <1>1, PutAdvances DEF SmtpInv, SmtpTypeOK
<1> QED
  BY <1>2, <1>3, <1>4, <1>5, <1>6 DEF SmtpInv

\* Every step of SmtpNext, and a stutter, preserves the invariant.
LEMMA SmtpInvStep == SmtpInv /\ [SmtpNext]_smtpvars => SmtpInv'
<1> SUFFICES ASSUME SmtpInv, [SmtpNext]_smtpvars PROVE SmtpInv'
  OBVIOUS
<1>1. CASE UNCHANGED smtpvars
  <2>1. StoreInv'
    BY <1>1, StoreInvStep DEF smtpvars, SmtpInv
  <2>2. UNCHANGED <<up, put, whole, at, state, authed, mailFrom, rcptTo, agreed, doing, letter, acked>>
    BY <1>1 DEF smtpvars, svars, calls, disk, dialogue, mail
  <2>3. SmtpTypeOK'
    BY <2>1, <2>2 DEF SmtpInv, SmtpTypeOK, StoreInv
  <2>4. (\A s \in Session : Transaction(s))'
    BY <2>2 DEF SmtpInv, Transaction
  <2>5. (EnvelopeAsAgreed /\ OnlyAuthenticated)'
    BY <2>2 DEF SmtpInv, EnvelopeAsAgreed, OnlyAuthenticated
  <2> QED
    BY <2>1, <2>2, <2>3, <2>4, <2>5 DEF SmtpInv
<1> QED
  BY <1>1, LineKeeps, DataKeeps, StoreKeepsSessions, DeathKeeps DEF SmtpNext

\* The inductive invariant holds throughout.
THEOREM SmtpInvariant == SmtpSpec => []SmtpInv
  BY SmtpInvInit, SmtpInvStep, PTL DEF SmtpSpec

\* Type correctness of the sessions and the store.
THEOREM SmtpTypes == SmtpSpec => []SmtpTypeOK
<1>1. SmtpInv => SmtpTypeOK
  BY DEF SmtpInv
<1> QED BY SmtpInvariant, <1>1, PTL

\* No order of commands mixes the envelopes of two transactions.
THEOREM SmtpEnvelope == SmtpSpec => []EnvelopeAsAgreed
<1>1. SmtpInv => EnvelopeAsAgreed
  BY DEF SmtpInv
<1> QED BY SmtpInvariant, <1>1, PTL

\* What is stored comes from an authenticated session.
THEOREM SmtpAuthenticated == SmtpSpec => []OnlyAuthenticated
<1>1. SmtpInv => OnlyAuthenticated
  BY DEF SmtpInv
<1> QED BY SmtpInvariant, <1>1, PTL

\* A message answered with 250 is on the disk, and stays in its mailbox
\* until a verdict about it or a message of the same name.
THEOREM SmtpAckedIsDurable == SmtpSpec => []AckedIsDurable
<1>1. SmtpInv => AckedIsDurable
  BY DEF SmtpInv, AckedIsDurable, StoreInv, KeptUnlessNamesake, SmtpTypeOK
<1> QED BY SmtpInvariant, <1>1, PTL

-----------------------------------------------------------------------------
(* The sessions and the store implement Relay.                             *)

\* A message is stored for its first recipient, and a session waits only for the
\* message that it stores: each step keeps the binding.
LEMMA BoundInit == SmtpInit => Bound
BY DEF SmtpInit, StoreInit, Bound

LEMMA BoundStep == SmtpInv /\ Bound /\ [SmtpNext]_smtpvars => Bound'
<1> SUFFICES ASSUME SmtpInv, Bound, [SmtpNext]_smtpvars PROVE Bound'
  OBVIOUS
<1>0. /\ at \in [Session -> Places] /\ doing \in [Session -> Msg \cup {NoMsg}]
      /\ put \in [Msg -> PutStates] /\ box \in [Msg -> User \cup {NoUser}]
      /\ letter \in [Msg -> Letters]
  BY DEF SmtpInv, SmtpTypeOK, StoreTypeOK
<1>1. ASSUME NEW s \in Session, Connect(s) \/ Line(s) \/ BodyThrows(s) PROVE Bound'
  <2>1. /\ UNCHANGED <<put, box, letter, doing>>
        /\ \A r \in Session : at'[r] # "storing" => at[r] # "storing"
    BY <1>0, <1>1 DEF Connect, Line, BodyThrows, Hello, Auth, Rset, Data, Leave, Mail, Rcpt,
                      Command, svars, calls, mail
  <2> QED
    BY <2>1 DEF Bound
<1>2. ASSUME NEW s \in Session, BodyRefused(s) \/ Reply(s) PROVE Bound'
  <2>1. /\ UNCHANGED <<put, box, letter>>
        /\ at' = [at EXCEPT ![s] = "command"] /\ doing' = [doing EXCEPT ![s] = NoMsg]
    BY <1>2 DEF BodyRefused, Reply, EndData, svars, calls, mail
  <2> QED
    BY <1>0, <2>1 DEF Bound
<1>3. ASSUME NEW s \in Session, NEW m \in Msg, BodyRead(s, m) PROVE Bound'
  <2>1. /\ at' = [at EXCEPT ![s] = "storing"] /\ doing' = [doing EXCEPT ![s] = m]
        /\ \A k \in Msg \ {m} : put'[k] = put[k] /\ box'[k] = box[k] /\ letter'[k] = letter[k]
        /\ letter'[m].rcpts = rcptTo[s] /\ box'[m] = rcptTo[s][1]
    BY <1>0, <1>3 DEF BodyRead, Call, PutGo
  <2>2. rcptTo[s] # <<>>
    BY <1>3 DEF BodyRead, SmtpInv, Transaction
  <2> QED
    BY <1>0, <2>1, <2>2 DEF Bound
<1>4. CASE StoreStep
  BY <1>4, StoreStepKeeps DEF Bound, StoreStep, dialogue, mail
<1>5. CASE KillSessions
  BY <1>5, StoreStepKeeps DEF Bound, KillSessions, mail
<1>6. CASE UNCHANGED smtpvars
  BY <1>6 DEF Bound, smtpvars, svars, calls, dialogue, mail
<1> QED
  BY <1>1, <1>2, <1>3, <1>4, <1>5, <1>6 DEF SmtpNext, Body

\* Relay speaks of mailboxes as Mailbox does.
LEMMA SameBox ==
  /\ \A m \in Msg, n \in Path : /\ Box!Deliver(m, n) => Contract!Deliver(m, n)
                                /\ Box!AnswerId(m, n) => Contract!AnswerId(m, n)
  /\ \A m \in Msg : /\ Box!AnswerEmpty(m) => Contract!AnswerEmpty(m)
                    /\ Box!Quarantine(m) => Contract!Quarantine(m)
                    /\ Box!Delete(m) => Contract!Delete(m)
  /\ \A callers \in SUBSET Msg : Box!AnswerUnknown(callers) => Contract!AnswerUnknown(callers)
  /\ Box!BoxInit => Contract!BoxInit
  /\ UNCHANGED Box!boxvars => UNCHANGED Contract!boxvars
BY DEF Box!Deliver, Contract!Deliver, Box!AnswerId, Contract!AnswerId, Box!AnswerEmpty, Contract!AnswerEmpty,
       Box!Quarantine, Contract!Quarantine, Box!Delete, Contract!Delete, Box!AnswerUnknown, Contract!AnswerUnknown,
       Box!Answer, Contract!Answer, Box!Out, Contract!Out, Box!BoxInit, Contract!BoxInit,
       Box!boxvars, Contract!boxvars

\* A transaction is open in these states, and then it is an envelope.
LEMMA OpenIs ==
  ASSUME SmtpInv, NEW s \in Session
  PROVE  /\ state[s] \in {"MAIL_FROM", "RCPT_TO"} =>
              Open(s) = [from |-> mailFrom[s], rcpts |-> rcptTo[s]] /\ Open(s) # NoMsg
         /\ state[s] \notin {"MAIL_FROM", "RCPT_TO"} => Open(s) = NoMsg
<1>1. mailFrom[s] \in Mailbox /\ rcptTo[s] \in Seq(User)
  BY DEF SmtpInv, SmtpTypeOK
<1>2. [from |-> mailFrom[s], rcpts |-> rcptTo[s]] \in Envelope
  BY <1>1 DEF Envelope
<1> QED
  BY <1>2, EnvelopeAssumption DEF Open

\* A command changes the transaction and the login of its session, and nothing
\* that the store holds.
LEMMA SpeaksIs ==
  ASSUME NEW s \in Session, NEW envelope, NEW login, doing[s] = NoMsg,
         UNCHANGED <<svars, mail, doing>>, authed' = [authed EXCEPT ![s] = login],
         Open(s)' = envelope, \A r \in Session \ {s} : Open(r)' = Open(r)
  PROVE  Contract!Speaks(s, envelope, login)
<1>1. UNCHANGED Contract!boxvars
  BY NotSeen, SameBox DEF svars, calls, disk, Told, PathOf
<1>2. UNCHANGED Contract!messages
  BY DEF Contract!messages, Sent, svars, calls, mail
<1>3. [r \in Session |-> Open(r)]' = [[r \in Session |-> Open(r)] EXCEPT ![s] = envelope]
  OBVIOUS
<1> QED
  BY <1>1, <1>2, <1>3 DEF Contract!Speaks

\* Where a session stands between its commands is not seen.
LEMMA RelayStutter ==
  ASSUME UNCHANGED <<svars, mail, state, authed, mailFrom, rcptTo, doing>>
  PROVE  UNCHANGED Contract!relayvars
<1>1. UNCHANGED Contract!boxvars
  BY NotSeen, SameBox DEF svars, calls, disk, Told, PathOf
<1>2. UNCHANGED Contract!messages
  BY DEF Contract!messages, Sent, svars, calls, mail
<1>3. UNCHANGED Contract!clients
  BY DEF Contract!clients, Open
<1> QED
  BY <1>1, <1>2, <1>3 DEF Contract!relayvars

\* The commands: AUTH, HELO, EHLO, RSET, MAIL, RCPT and the end of a connection.
LEMMA RelayLine ==
  ASSUME SmtpInv, Bound, NEW s \in Session, Line(s)
  PROVE  \/ Contract!LogIn(s) \/ Contract!Abandon(s) \/ Contract!Reset(s)
         \/ \E u \in User : Contract!Begin(s, u) \/ Contract!AddRecipient(s, u)
         \/ UNCHANGED Contract!relayvars
<1>0. /\ state \in [Session -> States] /\ authed \in [Session -> BOOLEAN]
      /\ mailFrom \in [Session -> Mailbox] /\ rcptTo \in [Session -> Seq(User)]
      /\ at[s] = "command" /\ doing[s] = NoMsg
  BY DEF SmtpInv, SmtpTypeOK, Line, Hello, Auth, Rset, Data, Leave, Mail, Rcpt, Command, Bound
<1>1. CASE Hello(s)
  <2>1. Open(s)' = NoMsg /\ \A r \in Session \ {s} : Open(r)' = Open(r)
    BY <1>0, <1>1 DEF Hello, Open
  <2>2. authed' = [authed EXCEPT ![s] = authed[s]]
    BY <1>0, <1>1 DEF Hello
  <2> QED
    BY <1>0, <1>1, <2>1, <2>2, SpeaksIs DEF Hello, Contract!Abandon
<1>2. CASE Auth(s)
  <2>1. Open(s)' = NoMsg /\ \A r \in Session \ {s} : Open(r)' = Open(r)
    BY <1>0, <1>2 DEF Auth, Open
  <2> QED
    BY <1>0, <1>2, <2>1, SpeaksIs DEF Auth, Contract!LogIn
<1>3. CASE Rset(s) \/ Leave(s)
  <2>1. Open(s)' = NoMsg /\ \A r \in Session \ {s} : Open(r)' = Open(r)
    BY <1>0, <1>3 DEF Rset, Leave, Open
  <2> QED
    BY <1>0, <1>3, <2>1, SpeaksIs DEF Rset, Leave, Contract!Reset
<1>4. ASSUME NEW u \in User, Mail(s, u) PROVE Contract!Begin(s, u)
  <2>1. Open(s)' = [from |-> u, rcpts |-> <<>>] /\ \A r \in Session \ {s} : Open(r)' = Open(r)
    BY <1>0, <1>4 DEF Mail, Open
  <2>2. authed[s] /\ authed' = [authed EXCEPT ![s] = TRUE]
    BY <1>0, <1>4 DEF Mail
  <2> QED
    BY <1>0, <1>4, <2>1, <2>2, SpeaksIs DEF Mail, Contract!Begin
<1>5. ASSUME NEW u \in User, Rcpt(s, u) PROVE Contract!AddRecipient(s, u)
  <2>1. Open(s) = [from |-> mailFrom[s], rcpts |-> rcptTo[s]] /\ Open(s) # NoMsg
    BY <1>5, OpenIs DEF Rcpt
  <2>2. /\ Open(s)' = [from |-> Open(s).from, rcpts |-> Append(Open(s).rcpts, u)]
        /\ \A r \in Session \ {s} : Open(r)' = Open(r)
    BY <1>0, <1>5, <2>1 DEF Rcpt, Open
  <2>3. authed' = [authed EXCEPT ![s] = authed[s]]
    BY <1>0, <1>5 DEF Rcpt
  <2> QED
    BY <1>0, <1>5, <2>1, <2>2, <2>3, SpeaksIs DEF Rcpt, Contract!AddRecipient
<1>6. CASE Data(s)
  BY <1>6, RelayStutter DEF Data
<1> QED
  BY <1>1, <1>2, <1>3, <1>4, <1>5, <1>6 DEF Line

\* DATA: a message is refused, or handed to the store with the transaction that
\* its session has open; and the answer follows what store has returned.
LEMMA RelayData ==
  ASSUME SmtpInv, Bound, NEW s \in Session, Body(s) \/ Reply(s)
  PROVE  \/ Contract!Refuse(s) \/ Contract!Reply(s)
         \/ \E m \in Msg : Contract!Submit(s, m)
         \/ UNCHANGED Contract!relayvars
<1>0. /\ state \in [Session -> States] /\ authed \in [Session -> BOOLEAN]
      /\ put \in [Msg -> PutStates] /\ letter \in [Msg -> Letters]
      /\ doing \in [Session -> Msg \cup {NoMsg}] /\ Transaction(s)
  BY DEF SmtpInv, SmtpTypeOK, StoreTypeOK
<1>1. Open(s) = [from |-> mailFrom[s], rcpts |-> rcptTo[s]] /\ Open(s) # NoMsg
  BY <1>0, OpenIs DEF Body, BodyRefused, BodyThrows, BodyRead, Reply, Transaction
<1>2. ASSUME EndData(s) PROVE Open(s)' = Contract!Fresh /\ \A r \in Session \ {s} : Open(r)' = Open(r)
  BY <1>0, <1>2 DEF EndData, Open, Contract!Fresh, SmtpInv, SmtpTypeOK
<1>3. CASE BodyRefused(s)
  <2>1. doing[s] = NoMsg /\ UNCHANGED doing /\ authed' = [authed EXCEPT ![s] = authed[s]]
    BY <1>0, <1>3 DEF BodyRefused, EndData, Bound
  <2> QED
    BY <1>1, <1>2, <1>3, <2>1, SpeaksIs DEF BodyRefused, Contract!Refuse
<1>4. CASE BodyThrows(s)
  BY <1>4, RelayStutter DEF BodyThrows
<1>5. ASSUME NEW m \in Msg, BodyRead(s, m) PROVE Contract!Submit(s, m)
  <2>1. /\ authed[s] /\ doing[s] = NoMsg /\ rcptTo[s] # <<>>
        /\ UNCHANGED <<authed, acked>> /\ \A r \in Session : Open(r)' = Open(r)
    BY <1>0, <1>5 DEF BodyRead, Transaction, Bound, Open
  <2>2. /\ put[m] = "new" /\ put'[m] = "called" /\ \A k \in Msg \ {m} : put'[k] = put[k]
        /\ UNCHANGED <<inbox, quarantine, stamp>> /\ \A k \in Msg \ {m} : box'[k] = box[k]
        /\ letter'[m].from = mailFrom[s] /\ letter'[m].rcpts = rcptTo[s]
        /\ \A k \in Msg \ {m} : letter'[k] = letter[k]
    BY <1>0, <1>5 DEF BodyRead, Call, PutGo, disk, SmtpInv, StoreInv, StoreTypeOK
  <2>3. UNCHANGED Contract!boxvars
    <3>1. \A k \in Msg : Told(k)' = Told(k)
      BY <2>2 DEF Told
    <3> QED
      BY <2>2, <3>1, NotSeen, SameBox DEF PathOf
  <2>4. Sent(m) = NoMsg /\ Sent(m)' = Open(s) /\ \A k \in Msg \ {m} : Sent(k)' = Sent(k)
    BY <1>1, <2>2 DEF Sent
  <2>5. [k \in Msg |-> Sent(k)]' = [[k \in Msg |-> Sent(k)] EXCEPT ![m] = Open(s)]
    BY <2>4
  <2>6. doing' = [doing EXCEPT ![s] = m]
    BY <1>5 DEF BodyRead
  <2>7. /\ [r \in Session |-> Open(r)][s] = Open(s) /\ [k \in Msg |-> Sent(k)][m] = NoMsg
        /\ UNCHANGED [r \in Session |-> Open(r)] /\ Open(s).rcpts # <<>>
    BY <1>1, <2>1, <2>4
  <2>8. UNCHANGED <<Contract!boxvars, authed, [r \in Session |-> Open(r)], acked>>
    BY <2>1, <2>3, <2>7
  <2> QED
    BY <1>1, <2>1, <2>5, <2>6, <2>7, <2>8 DEF Contract!Submit
<1>6. CASE Reply(s)
  <2>1. /\ doing[s] \in Msg /\ doing[s] # NoMsg /\ Told(doing[s]) # "none"
        /\ Told(doing[s]) = "id" <=> put[doing[s]] = "stored"
    BY <1>0, <1>6, StoreNames DEF Reply, Transaction, Told
  <2>2. UNCHANGED Contract!boxvars
    BY <1>6, NotSeen, SameBox DEF Reply, svars, calls, disk, Told, PathOf
  <2>3. \A k \in Msg : Sent(k)' = Sent(k)
    BY <1>6 DEF Reply, Sent, svars, calls
  <2>4. acked' = acked \cup {k \in {doing[s]} : Told(k) = "id"}
    BY <1>6, <2>1 DEF Reply
  <2>5. UNCHANGED authed /\ doing' = [doing EXCEPT ![s] = NoMsg]
    BY <1>6 DEF Reply, EndData
  <2>6. [r \in Session |-> Open(r)]' = [[r \in Session |-> Open(r)] EXCEPT ![s] = Contract!Fresh]
    BY <1>2, <1>6 DEF Reply
  <2>7. acked' = acked \cup {k \in {doing[s]} : [j \in Msg |-> Told(j)][k] = "id"}
    BY <2>1, <2>4
  <2>8. Contract!Reply(s)
    BY <2>1, <2>2, <2>3, <2>5, <2>6, <2>7 DEF Contract!Reply
  <2> QED
    BY <2>8
<1> QED
  BY <1>3, <1>4, <1>5, <1>6 DEF Body

\* The store: its steps are those of Mailbox, for the mailbox of the first
\* recipient; a death ends all sessions.
LEMMA RelayStore ==
  ASSUME SmtpInv, Bound, StoreStep \/ KillSessions
  PROVE  \/ \E m \in Msg : Contract!Store(m) \/ Contract!Judge(m)
         \/ Contract!Die \/ UNCHANGED Contract!relayvars
<1>0. StoreInv /\ \A m \in Msg : Sent(m)' = Sent(m)
  BY StoreStepKeeps DEF SmtpInv, Sent, mail
<1>1. CASE StoreStep
  <2>1. \A s \in Session : Open(s)' = Open(s)
    BY <1>1 DEF StoreStep, dialogue, Open
  <2>2. UNCHANGED <<Contract!clients, Contract!messages>>
    BY <1>0, <1>1, <2>1 DEF StoreStep, dialogue, mail, Contract!clients, Contract!messages
  <2>3. ASSUME NEW m \in Msg, Put(m) PROVE Contract!Store(m) \/ UNCHANGED Contract!relayvars
    <3>1. put[m] # "new"
      BY <2>3 DEF Put, CannotStore, GenerateId, CreateTemp, WriteTemp, FileFails, RenameTemp,
                  Verify, VerifyThrows, PutGo
    <3>2. Sent(m) # NoMsg /\ Sent(m).rcpts[1] = box[m]
      <4>1. letter[m].from \in Mailbox /\ letter[m].rcpts \in Seq(User)
        BY DEF SmtpInv, SmtpTypeOK, Letters
      <4>2. Sent(m) \in Envelope
        BY <3>1, <4>1 DEF Sent, Envelope
      <4> QED
        BY <3>1, <4>2, EnvelopeAssumption DEF Bound, Sent
    <3>3. CASE RenameTemp(m) \/ Verify(m) \/ VerifyThrows(m)
      <4>1. /\ PathOf(m) \in Path /\ [p \in Path |-> p[1]][PathOf(m)] = Sent(m).rcpts[1]
            /\ \/ Contract!Deliver(m, PathOf(m)) \/ Contract!AnswerId(m, PathOf(m))
               \/ Contract!AnswerUnknown({m})
        BY <1>0, <3>2, <3>3, BoxAfter, SameBox DEF PathOf
      <4> QED
        BY <2>2, <3>2, <4>1 DEF Contract!Store
    <3>4. CASE Box!AnswerEmpty(m)
      BY <2>2, <3>2, <3>4, SameBox DEF Contract!Store
    <3>5. CASE UNCHANGED Box!boxvars
      BY <2>2, <3>5, SameBox DEF Contract!relayvars
    <3> QED
      BY <1>0, <2>3, <3>3, <3>4, <3>5, BoxBefore DEF Put
  <2>4. ASSUME NEW m \in Msg, Retro(m) PROVE Contract!Judge(m)
    BY <1>0, <2>2, <2>4, BoxVerdict, SameBox DEF Contract!Judge
  <2>5. CASE Restart \/ SetClock
    BY <2>2, <2>5, BoxProcess, SameBox DEF Contract!relayvars
  <2> QED
    BY <1>1, <2>3, <2>4, <2>5 DEF StoreStep
<1>2. CASE KillSessions
  <2>1. PICK cut \in SUBSET {m \in Msg : put[m] # "new"} : Contract!AnswerUnknown(cut)
    BY <1>0, <1>2, BoxDeath, SameBox DEF KillSessions
  <2>2. cut \in SUBSET {m \in Msg : [k \in Msg |-> Sent(k)][m] # NoMsg}
    <3>1. ASSUME NEW m \in Msg, put[m] # "new" PROVE Sent(m) # NoMsg
      <4>1. letter[m].from \in Mailbox /\ letter[m].rcpts \in Seq(User)
        BY DEF SmtpInv, SmtpTypeOK, Letters
      <4>2. Sent(m) \in Envelope
        BY <3>1, <4>1 DEF Sent, Envelope
      <4> QED
        BY <4>2, EnvelopeAssumption
    <3> QED
      BY <3>1
  <2>3. \A s \in Session : Open(s)' = NoMsg
    BY <1>2 DEF KillSessions, Open
  <2>4. UNCHANGED Contract!messages
    BY <1>0, <1>2 DEF KillSessions, mail, Contract!messages
  <2> QED
    BY <1>2, <2>1, <2>2, <2>3, <2>4 DEF KillSessions, Contract!Die
<1> QED
  BY <1>1, <1>2

\* Relay is implemented: whatever the order of the commands, the deaths and the
\* steps of other callers of store, the server keeps what its replies promise.
THEOREM SmtpImplementsRelay == SmtpSpec => ImplementsRelay
<1>1. SmtpInit => Contract!RelayInit
  <2> SUFFICES ASSUME SmtpInit PROVE Contract!RelayInit
    OBVIOUS
  <2>1. Contract!BoxInit
    BY SameBox DEF SmtpInit, StoreInit, Box!BoxInit, Told, ToldId
  <2> QED
    BY <2>1 DEF SmtpInit, StoreInit, Contract!RelayInit, Open, Sent
<1>2. SmtpInv /\ Bound /\ [SmtpNext]_smtpvars => [Contract!RelayNext]_(Contract!relayvars)
  <2> SUFFICES ASSUME SmtpInv, Bound, [SmtpNext]_smtpvars PROVE [Contract!RelayNext]_(Contract!relayvars)
    OBVIOUS
  <2>1. ASSUME NEW s \in Session, Connect(s) \/ Line(s) \/ Body(s) \/ Reply(s)
        PROVE  [Contract!RelayNext]_(Contract!relayvars)
    <3>1. CASE Connect(s)
      BY <3>1, RelayStutter DEF Connect
    <3> QED
      BY <2>1, <3>1, RelayLine, RelayData DEF Contract!RelayNext
  <2>2. CASE StoreStep \/ KillSessions
    BY <2>2, RelayStore DEF Contract!RelayNext
  <2>3. CASE UNCHANGED smtpvars
    BY <2>3, RelayStutter DEF smtpvars, dialogue
  <2> QED
    BY <2>1, <2>2, <2>3 DEF SmtpNext
<1>3. SmtpSpec => Contract!RelaySpec
  BY <1>1, <1>2, BoundInit, BoundStep, SmtpInvariant, PTL DEF SmtpSpec, Contract!RelaySpec
<1> QED
  BY <1>3 DEF ImplementsRelay

\* The sessions call the store as it may be called, so that what holds of the
\* store by itself holds under them: whatever they do, a message is in one mailbox
\* once, and in none after a 451 that the empty id has caused.
THEOREM SmtpUsesStore == SmtpSpec => StoreSpec /\ [](Box!EachOnce /\ Box!EmptyIsOut)
<1>1. SmtpInit => StoreInit
  BY DEF SmtpInit
<1>2. SmtpInv /\ [SmtpNext]_smtpvars => [StoreNext]_svars
  <2> SUFFICES ASSUME SmtpInv, [SmtpNext]_smtpvars PROVE [StoreNext]_svars
    OBVIOUS
  <2>1. ASSUME NEW s \in Session, NEW m \in Msg, BodyRead(s, m) PROVE StoreNext
    <3>1. rcptTo[s] \in Seq(User) /\ rcptTo[s] # <<>>
      BY <2>1 DEF BodyRead, SmtpInv, SmtpTypeOK, Transaction
    <3>2. rcptTo[s][1] \in User
      BY <3>1
    <3> QED
      BY <2>1, <3>2 DEF BodyRead, StoreNext
  <2>2. ASSUME NEW s \in Session, Connect(s) \/ Line(s) \/ BodyRefused(s) \/ BodyThrows(s) \/ Reply(s)
        PROVE  UNCHANGED svars
    BY <2>2 DEF Connect, Line, BodyRefused, BodyThrows, Reply, Hello, Auth, Rset, Data, Leave, Mail, Rcpt
  <2>3. StoreStep \/ KillSessions => StoreNext
    BY DEF StoreStep, KillSessions, StoreNext, Process
  <2> QED
    BY <2>1, <2>2, <2>3 DEF SmtpNext, Body, smtpvars
<1>3. SmtpSpec => StoreSpec
  BY <1>1, <1>2, SmtpInvariant, PTL DEF SmtpSpec, StoreSpec
<1>4. StoreSpec => Box!BoxSpec
  BY StoreImplementsMailbox DEF ImplementsMailbox
<1>5. Box!BoxInv => Box!EachOnce /\ Box!EmptyIsOut
  BY DEF Box!BoxInv
<1> QED
  BY <1>3, <1>4, <1>5, BoxInvariant, PTL
=============================================================================
