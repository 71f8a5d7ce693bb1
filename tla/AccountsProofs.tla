--------------------------- MODULE AccountsProofs ----------------------------
(***************************************************************************)
(* For any processes, accounts and passwords: the migration of the users   *)
(* file loses no account, and a process uses no hash that is not on the    *)
(* disk and no plain text.  The invariant is AccountInv of LocalAccounts.  *)
(*                                                                         *)
(* For any accounts, sessions, threads and times of a cluster: a session   *)
(* that has been revoked does not validate again unless a validation was in*)
(* progress, and the accounts follow what was added and removed.  The      *)
(* invariant is AuthInv of DistributedAuth; each part is preserved by a    *)
(* lemma.                                                                  *)
(***************************************************************************)
EXTENDS LocalAccounts, DistributedAuth, TLAPS

-----------------------------------------------------------------------------
(* The accounts of a process.                                              *)

-----------------------------------------------------------------------------
(* The contents of a file.                                                 *)

\* The empty file.
LEMMA NoneIs == NoAccounts \in Contents /\ DOMAIN NoAccounts = {}
<1>1. NoAccounts \in [{} -> Cred] /\ {} \in SUBSET Account
  BY DEF NoAccounts
<1> QED
  BY <1>1 DEF Contents, NoAccounts

\* An entry, and a file with one entry replaced.
LEMMA EntryIs ==
  ASSUME NEW f \in Contents
  PROVE  /\ DOMAIN f \subseteq Account
         /\ \A u \in DOMAIN f : f[u] \in Cred
         /\ \A u \in DOMAIN f, c \in Cred : [f EXCEPT ![u] = c] \in Contents
<1>1. PICK S \in SUBSET Account : f \in [S -> Cred]
  BY DEF Contents
<1>2. \A u \in S, c \in Cred : [f EXCEPT ![u] = c] \in [S -> Cred]
  BY <1>1
<1> QED
  BY <1>1, <1>2 DEF Contents

\* Part of a file.
LEMMA OnlyIs ==
  ASSUME NEW f \in Contents, NEW S, S \subseteq DOMAIN f
  PROVE  /\ Only(f, S) \in Contents
         /\ DOMAIN Only(f, S) = S
         /\ \A u \in S : Only(f, S)[u] = f[u]
<1>1. Only(f, S) \in [S -> Cred] /\ S \in SUBSET Account
  BY EntryIs DEF Only
<1> QED
  BY <1>1 DEF Contents, Only

\* The migration keeps the accounts and their passwords, and what is hashed.
LEMMA MigratedIs ==
  ASSUME NEW f \in Contents
  PROVE  /\ Migrated(f) \in Contents
         /\ DOMAIN Migrated(f) = DOMAIN f
         /\ \A u \in DOMAIN f : /\ Migrated(f)[u].of = f[u].of
                                /\ IsHashed(f[u]) => Migrated(f)[u] = f[u]
         /\ Hashed(f) \subseteq DOMAIN f /\ Hashed(f) \subseteq Hashed(Migrated(f))
<1>1. \A c \in Cred : Hash(c) \in Cred /\ Hash(c).of = c.of
  BY DEF Cred, Hash
<1>2. Migrated(f) \in [DOMAIN f -> Cred] /\ DOMAIN f \in SUBSET Account
  BY <1>1, EntryIs DEF Migrated
<1> QED
  BY <1>1, <1>2, EntryIs DEF Contents, Migrated, Hashed

-----------------------------------------------------------------------------
(* The parts of the invariant.                                             *)

\* The processes start with nothing in memory.
LEMMA AccountInvInit == AccountInit => AccountInv
<1> SUFFICES ASSUME AccountInit PROVE AccountInv
  OBVIOUS
<1>1. file \in Contents /\ DOMAIN file = Account /\ \A u \in Account : file[u].of = known[u]
  BY DEF AccountInit, Contents
<1>2. \A u \in Account : file[u].of \in Password \cup {NoPassword}
  BY DEF AccountInit, Cred
<1>3. \A n \in Node : root[n] = NoAccounts /\ users[n] = NoAccounts
  BY DEF AccountInit
<1>4. AccountTypeOK
  BY <1>1, <1>2, NoneIs DEF AccountInit, AccountTypeOK, Phases
<1> QED
  BY <1>1, <1>3, <1>4, NoneIs
     DEF AccountInit, AccountInv, KeptHashed, InHand, AccountsSurvive, InMemoryIsOnDisk,
         TrueMeansAll, Undisturbed, Migrating

\* Every variable keeps its type.
LEMMA AccountTypesStep == AccountInv /\ [AccountNext]_accvars => AccountTypeOK'
<1> SUFFICES ASSUME AccountInv, [AccountNext]_accvars PROVE AccountTypeOK'
  OBVIOUS
<1>0. AccountTypeOK /\ InHand
  BY DEF AccountInv
<1> USE <1>0 DEF AccountTypeOK, Go, Phases, memory, givens
<1>1. ASSUME NEW n \in Node, Load(n) PROVE AccountTypeOK'
  <2>1. Hashed(file) \subseteq DOMAIN file /\ Migrated(file) \in Contents
    BY MigratedIs
  <2>2. \A S \in SUBSET Hashed(file) : Only(file, S) \in Contents
    BY <2>1, OnlyIs
  <2>3. CASE LoadFails(n)
    BY <2>2, <2>3 DEF LoadFails
  <2>4. CASE LoadHashed(n)
    BY <2>4 DEF LoadHashed
  <2>5. CASE LoadPlain(n)
    <3>1. overlap' \in BOOLEAN
      BY <2>5 DEF LoadPlain
    <3> QED
      BY <2>1, <2>2, <2>5, <3>1 DEF LoadPlain
  <2> QED
    BY <1>1, <2>3, <2>4, <2>5 DEF Load
<1>2. ASSUME NEW n \in Node, Migrate(n) PROVE AccountTypeOK'
  <2>1. \A S \in SUBSET DOMAIN root[n] : Only(root[n], S) \in Contents
    BY OnlyIs
  <2>2. CASE OpenTemp(n)
    BY <2>2, NoneIs DEF OpenTemp
  <2>7. CASE OpenFails(n)
    BY <2>7, NoneIs DEF OpenFails, Return
  <2>3. CASE WriteTemp(n) \/ WriteFails(n)
    BY <2>1, <2>3 DEF WriteTemp, WriteFails, Written
  <2>4. CASE Discard(n)
    BY <2>4, NoneIs DEF Discard, Return
  <2>5. CASE RenameTemp(n) \/ RenameFails(n)
    BY <2>5 DEF RenameTemp, RenameFails
  <2>6. CASE Publish(n)
    <3>1. phase[n] = "publish"
      BY <2>6 DEF Publish
    <3>2. \A S \in SUBSET Hashed(root[n]) : DOMAIN users[n] \cup S \in SUBSET DOMAIN root[n]
      BY <3>1 DEF InHand, Hashed
    <3>3. users' \in [Node -> Contents]
      <4>1. CASE Hashed(root[n]) = DOMAIN root[n]
        BY <2>6, <4>1 DEF Publish
      <4>2. CASE Hashed(root[n]) # DOMAIN root[n]
        <5>1. PICK S \in SUBSET Hashed(root[n]) :
                users' = [users EXCEPT ![n] = Only(root[n], DOMAIN users[n] \cup S)]
          BY <2>6, <4>2 DEF Publish
        <5>2. Only(root[n], DOMAIN users[n] \cup S) \in Contents
          BY <2>1, <3>2
        <5> QED
          BY <5>1, <5>2
      <4> QED
        BY <4>1, <4>2
    <3>4. loaded' \in [Node -> BOOLEAN] /\ root' \in [Node -> Contents]
      BY <2>6, NoneIs DEF Publish, Return
    <3> QED
      BY <2>6, <3>3, <3>4 DEF Publish
  <2> QED
    BY <1>2, <2>2, <2>3, <2>4, <2>5, <2>6, <2>7 DEF Migrate
<1>3. ASSUME NEW n \in Node, EndProcess(n) PROVE AccountTypeOK'
  BY <1>3, NoneIs DEF EndProcess
<1>4. ASSUME NEW u \in Account, NEW p \in Password, Edit(u, p) PROVE AccountTypeOK'
  <2>1. [kind |-> "plain", of |-> p] \in Cred
    BY DEF Cred
  <2> QED
    BY <1>4, <2>1, EntryIs DEF Edit
<1>5. CASE UNCHANGED accvars
  BY <1>5 DEF accvars
<1> QED
  BY <1>1, <1>2, <1>3, <1>4, <1>5 DEF AccountNext

\* What a step of a migration puts in memory and in the tree.
LEMMA PublishIs ==
  ASSUME AccountInv, NEW n \in Node, Publish(n)
  PROVE  /\ users[n] \in Contents /\ root[n] \in Contents
         /\ DOMAIN users'[n] \subseteq Hashed(root[n])
         /\ \A u \in DOMAIN users'[n] : users'[n][u] = root[n][u]
         /\ loaded'[n] => users'[n] = root[n]
<1>1. users \in [Node -> Contents] /\ root \in [Node -> Contents] /\ loaded \in [Node -> BOOLEAN]
  BY DEF AccountInv, AccountTypeOK
<1>2. DOMAIN users[n] \subseteq Hashed(root[n])
  BY DEF AccountInv, InHand, Publish, Go
<1>3. CASE Hashed(root[n]) = DOMAIN root[n]
  BY <1>1, <1>3 DEF Publish
<1>4. CASE Hashed(root[n]) # DOMAIN root[n]
  <2>1. PICK S \in SUBSET Hashed(root[n]) :
          users' = [users EXCEPT ![n] = Only(root[n], DOMAIN users[n] \cup S)]
    BY <1>4 DEF Publish
  <2>2. DOMAIN users[n] \cup S \subseteq DOMAIN root[n]
    BY <1>2 DEF Hashed
  <2>3. users'[n] = Only(root[n], DOMAIN users[n] \cup S)
    BY <1>1, <2>1
  <2>4. ~loaded'[n]
    BY <1>1, <1>4 DEF Publish, Return
  <2> QED
    BY <1>1, <1>2, <2>2, <2>3, <2>4, OnlyIs
<1> QED
  BY <1>3, <1>4

\* No step puts plain text into users_.
LEMMA HashedStep == AccountInv /\ [AccountNext]_accvars => KeptHashed'
<1> SUFFICES ASSUME AccountInv, [AccountNext]_accvars PROVE KeptHashed'
  OBVIOUS
<1>0. /\ KeptHashed /\ file \in Contents
      /\ users \in [Node -> Contents] /\ root \in [Node -> Contents]
  BY DEF AccountInv, AccountTypeOK
<1> USE DEF KeptHashed, memory, givens
<1>1. ASSUME NEW n \in Node, Load(n) PROVE KeptHashed'
  <2>1. \A S \in SUBSET Hashed(file) :
          /\ DOMAIN Only(file, S) = S
          /\ \A u \in S : Only(file, S)[u] = file[u]
    BY <1>0, OnlyIs, MigratedIs
  <2>2. CASE LoadFails(n)
    <3>1. PICK S \in SUBSET Hashed(file) : users' = [users EXCEPT ![n] = Only(file, S)]
      BY <2>2 DEF LoadFails
    <3> QED
      BY <1>0, <2>1, <3>1 DEF Hashed
  <2>3. CASE LoadHashed(n)
    BY <1>0, <2>3 DEF LoadHashed, Hashed
  <2>4. CASE LoadPlain(n)
    BY <1>0, <2>1, <2>4 DEF LoadPlain, Hashed
  <2> QED
    BY <1>1, <2>2, <2>3, <2>4 DEF Load
<1>2. ASSUME NEW n \in Node, Migrate(n) PROVE KeptHashed'
  <2>1. CASE Publish(n)
    <3>1. \A u \in DOMAIN users'[n] : IsHashed(users'[n][u])
      BY <2>1, PublishIs DEF Hashed
    <3>2. \A k \in Node \ {n} : users'[k] = users[k]
      BY <1>0, <2>1 DEF Publish
    <3> QED
      BY <1>0, <3>1, <3>2
  <2>2. CASE ~Publish(n)
    <3>1. UNCHANGED users
      BY <1>2, <2>2
         DEF Migrate, OpenTemp, OpenFails, WriteTemp, WriteFails, Discard, RenameTemp, RenameFails
    <3> QED
      BY <1>0, <3>1
  <2> QED
    BY <2>1, <2>2
<1>3. ASSUME NEW n \in Node, EndProcess(n) PROVE KeptHashed'
  BY <1>0, <1>3, NoneIs DEF EndProcess
<1>4. ASSUME NEW u \in Account, NEW p \in Password, Edit(u, p) PROVE KeptHashed'
  BY <1>0, <1>4 DEF Edit
<1>5. CASE UNCHANGED accvars
  BY <1>0, <1>5 DEF accvars
<1> QED
  BY <1>1, <1>2, <1>3, <1>4, <1>5 DEF AccountNext

\* What a process has in hand fits the place it is at.
LEMMA InHandStep == AccountInv /\ [AccountNext]_accvars => InHand'
<1> SUFFICES ASSUME AccountInv, [AccountNext]_accvars PROVE InHand'
  OBVIOUS
<1>0. AccountTypeOK /\ InHand
  BY DEF AccountInv
<1> USE <1>0 DEF AccountTypeOK, InHand, Migrating, Go, memory, givens
<1>1. ASSUME NEW n \in Node, Load(n) PROVE InHand'
  <2>1. Hashed(file) \subseteq DOMAIN file /\ Hashed(file) \subseteq Hashed(Migrated(file))
    BY MigratedIs
  <2>2. DOMAIN Only(file, Hashed(file)) = Hashed(file)
    BY <2>1, OnlyIs
  <2>3. CASE LoadFails(n)
    BY <2>3 DEF LoadFails
  <2>4. CASE LoadHashed(n)
    BY <2>4 DEF LoadHashed
  <2>5. CASE LoadPlain(n)
    BY <2>1, <2>2, <2>5 DEF LoadPlain
  <2> QED
    BY <1>1, <2>3, <2>4, <2>5 DEF Load
<1>2. ASSUME NEW n \in Node, Migrate(n) PROVE InHand'
  <2>1. CASE OpenTemp(n)
    BY <2>1 DEF OpenTemp
  <2>2. CASE OpenFails(n)
    BY <2>2 DEF OpenFails, Return
  <2>3. CASE WriteTemp(n) \/ WriteFails(n)
    BY <2>3 DEF WriteTemp, WriteFails, Written
  <2>4. CASE Discard(n)
    BY <2>4 DEF Discard, Return
  <2>5. CASE RenameTemp(n)
    BY <2>5 DEF RenameTemp
  <2>6. CASE RenameFails(n)
    BY <2>6 DEF RenameFails
  <2>7. CASE Publish(n)
    <3>1. \A k \in Node \ {n} : users'[k] = users[k] /\ root'[k] = root[k] /\ loaded'[k] = loaded[k]
      BY <2>7 DEF Publish, Return
    <3> QED
      BY <2>7, <3>1 DEF Publish
  <2> QED
    BY <1>2, <2>1, <2>2, <2>3, <2>4, <2>5, <2>6, <2>7 DEF Migrate
<1>3. ASSUME NEW n \in Node, EndProcess(n) PROVE InHand'
  BY <1>3, NoneIs DEF EndProcess
<1>4. ASSUME NEW u \in Account, NEW p \in Password, Edit(u, p) PROVE InHand'
  BY <1>4 DEF Edit
<1>5. CASE UNCHANGED accvars
  BY <1>5 DEF accvars
<1> QED
  BY <1>1, <1>2, <1>3, <1>4, <1>5 DEF AccountNext

\* What was overlapped stays so.
LEMMA OverlapStays == AccountInv /\ [AccountNext]_accvars /\ ~overlap' => ~overlap
BY DEF AccountNext, Load, LoadFails, LoadHashed, LoadPlain, Migrate, OpenTemp, OpenFails,
       WriteTemp, WriteFails, Discard, RenameTemp, RenameFails, Publish, EndProcess, Edit,
       givens, accvars

\* Without an overlap only a rename and an edit change the users file.
LEMMA FileStep ==
  ASSUME AccountInv, [AccountNext]_accvars, ~overlap'
  PROVE  \/ UNCHANGED <<file, known>>
         \/ \E n \in Node : RenameTemp(n) /\ file' = Migrated(file) /\ UNCHANGED known
         \/ \E u \in Account, p \in Password : Edit(u, p) /\ \A k \in Node : ~Migrating(k)
<1>0. ~overlap /\ \A n \in Node : Undisturbed(n)
  BY OverlapStays DEF AccountInv
<1>1. ASSUME NEW n \in Node, Load(n) PROVE UNCHANGED <<file, known>>
  BY <1>1 DEF Load, LoadFails, LoadHashed, LoadPlain
<1>2. ASSUME NEW n \in Node, Migrate(n)
      PROVE  UNCHANGED <<file, known>>
             \/ (RenameTemp(n) /\ file' = Migrated(file) /\ UNCHANGED known)
  <2>1. CASE RenameTemp(n)
    BY <1>0, <2>1 DEF RenameTemp, Undisturbed, Migrating, Go, givens
  <2>2. CASE WriteTemp(n) \/ WriteFails(n)
    BY <1>0, <2>2 DEF WriteTemp, WriteFails, Written, Undisturbed, Go, givens
  <2> QED
    BY <1>2, <2>1, <2>2
       DEF Migrate, OpenTemp, OpenFails, Discard, RenameFails, Publish, givens
<1>3. ASSUME NEW n \in Node, EndProcess(n) PROVE UNCHANGED <<file, known>>
  BY <1>3 DEF EndProcess
<1>4. ASSUME NEW u \in Account, NEW p \in Password, Edit(u, p)
      PROVE \A k \in Node : ~Migrating(k)
  BY <1>4 DEF Edit
<1>5. CASE UNCHANGED accvars
  BY <1>5 DEF accvars
<1> QED
  BY <1>1, <1>2, <1>3, <1>4, <1>5 DEF AccountNext

\* The file keeps every account with its password.
LEMMA SurviveStep == AccountInv /\ [AccountNext]_accvars => AccountsSurvive'
<1> SUFFICES ASSUME AccountInv, [AccountNext]_accvars, ~overlap'
             PROVE  DOMAIN file' = Account /\ \A u \in Account : file'[u].of = known'[u]
  BY DEF AccountsSurvive
<1>0. /\ file \in Contents /\ known \in [Account -> Password \cup {NoPassword}]
      /\ DOMAIN file = Account /\ \A u \in Account : file[u].of = known[u]
  BY OverlapStays DEF AccountInv, AccountTypeOK, AccountsSurvive
<1>1. CASE UNCHANGED <<file, known>>
  BY <1>0, <1>1
<1>2. CASE file' = Migrated(file) /\ UNCHANGED known
  BY <1>0, <1>2, MigratedIs
<1>3. ASSUME NEW v \in Account, NEW p \in Password, Edit(v, p)
      PROVE  DOMAIN file' = Account /\ \A u \in Account : file'[u].of = known'[u]
  <2>1. [kind |-> "plain", of |-> p].of = p
    OBVIOUS
  <2> QED
    BY <1>0, <1>3, <2>1 DEF Edit
<1> QED
  BY <1>1, <1>2, <1>3, FileStep

\* What is in memory and hashed is on the disk.
LEMMA MemoryStep == AccountInv /\ [AccountNext]_accvars => InMemoryIsOnDisk'
<1> SUFFICES ASSUME AccountInv, [AccountNext]_accvars, ~overlap',
                    NEW n \in Node, NEW u \in DOMAIN users'[n] \ stale'[n]
             PROVE  users'[n][u] = file'[u]
  BY DEF InMemoryIsOnDisk
<1>0. /\ AccountTypeOK /\ KeptHashed /\ InHand /\ AccountsSurvive /\ ~overlap
      /\ \A k \in Node : \A v \in DOMAIN users[k] \ stale[k] : users[k][v] = file[v]
      /\ \A k \in Node : Undisturbed(k)
  BY OverlapStays DEF AccountInv, InMemoryIsOnDisk
<1>1. CASE users'[n] = users[n] /\ stale'[n] = stale[n] /\ UNCHANGED file
  BY <1>0, <1>1
<1>2. ASSUME NEW k \in Node, RenameTemp(k), file' = Migrated(file) PROVE users'[n][u] = file'[u]
  <2>1. UNCHANGED <<users, stale>>
    BY <1>2 DEF RenameTemp, memory, givens
  <2>2. u \in DOMAIN users[n] \ stale[n] /\ DOMAIN users[n] \subseteq DOMAIN file
    BY <1>0, <2>1, EntryIs DEF AccountTypeOK, AccountsSurvive
  <2>3. users[n][u] = file[u] /\ IsHashed(file[u])
    BY <1>0, <2>2 DEF KeptHashed
  <2> QED
    BY <1>0, <1>2, <2>1, <2>2, <2>3, MigratedIs DEF AccountTypeOK
<1>3. ASSUME NEW v \in Account, NEW p \in Password, Edit(v, p) PROVE users'[n][u] = file'[u]
  <2>1. phase[n] # "down" /\ users' = users /\ stale'[n] = stale[n] \cup {v}
    BY <1>0, <1>3 DEF Edit, InHand, AccountTypeOK, memory
  <2>2. u # v /\ file'[u] = file[u]
    BY <1>0, <1>3, <2>1, EntryIs DEF Edit, AccountTypeOK
  <2> QED
    BY <1>0, <2>1, <2>2
<1>4. ASSUME NEW k \in Node, Load(k) PROVE users'[n][u] = file'[u]
  <2>0. \A S \in SUBSET Hashed(file) :
          /\ DOMAIN Only(file, S) = S
          /\ \A v \in S : Only(file, S)[v] = file[v]
    <3>1. file \in Contents
      BY <1>0 DEF AccountTypeOK
    <3> QED
      BY <3>1, OnlyIs, MigratedIs
  <2>1. UNCHANGED file /\ \A m \in Node \ {k} : users'[m] = users[m] /\ stale'[m] = stale[m]
    BY <1>0, <1>4 DEF Load, LoadFails, LoadHashed, LoadPlain, AccountTypeOK
  <2>2. CASE LoadFails(k)
    <3>1. PICK S \in SUBSET Hashed(file) : users' = [users EXCEPT ![k] = Only(file, S)]
      BY <2>2 DEF LoadFails
    <3> QED
      BY <1>0, <1>1, <2>0, <2>1, <3>1 DEF AccountTypeOK
  <2>3. CASE LoadHashed(k)
    BY <1>0, <1>1, <2>1, <2>3 DEF LoadHashed, AccountTypeOK
  <2>4. CASE LoadPlain(k)
    BY <1>0, <1>1, <2>0, <2>1, <2>4 DEF LoadPlain, AccountTypeOK
  <2> QED
    BY <1>4, <2>2, <2>3, <2>4 DEF Load
<1>5. ASSUME NEW k \in Node, Publish(k) PROVE users'[n][u] = file'[u]
  <2>1. UNCHANGED <<file, stale>> /\ \A m \in Node \ {k} : users'[m] = users[m]
    BY <1>0, <1>5 DEF Publish, givens, AccountTypeOK
  <2>2. CASE n = k
    <3>1. u \in Hashed(root[n]) \ stale[n] /\ users'[n][u] = root[n][u]
      BY <1>5, <2>1, <2>2, PublishIs
    <3> QED
      BY <1>0, <1>5, <2>1, <2>2, <3>1 DEF Undisturbed, Publish, Go
  <2> QED
    BY <1>1, <2>1, <2>2
<1>6. ASSUME NEW k \in Node, EndProcess(k) PROVE users'[n][u] = file'[u]
  BY <1>0, <1>1, <1>6, NoneIs DEF EndProcess, AccountTypeOK
<1>7. ASSUME NEW k \in Node, Migrate(k), ~Publish(k) PROVE users' = users /\ stale' = stale
  BY <1>7
     DEF Migrate, OpenTemp, OpenFails, WriteTemp, WriteFails, Discard, RenameTemp, RenameFails,
         memory, givens
<1>8. CASE UNCHANGED accvars
  BY <1>1, <1>8 DEF accvars
<1> QED
  BY <1>1, <1>2, <1>3, <1>4, <1>5, <1>6, <1>7, <1>8, FileStep DEF AccountNext

\* A load that returned true has the accounts of the file.
LEMMA TrueStep == AccountInv /\ [AccountNext]_accvars => TrueMeansAll'
<1> SUFFICES ASSUME AccountInv, [AccountNext]_accvars, ~overlap',
                    NEW n \in Node, loaded'[n]
             PROVE  DOMAIN users'[n] = Account
  BY DEF TrueMeansAll
<1>0. /\ AccountTypeOK /\ AccountsSurvive /\ ~overlap
      /\ \A k \in Node : loaded[k] => DOMAIN users[k] = Account
      /\ \A k \in Node : Undisturbed(k)
  BY OverlapStays DEF AccountInv, TrueMeansAll
<1>1. CASE loaded'[n] = loaded[n] /\ users'[n] = users[n]
  BY <1>0, <1>1
<1>2. ASSUME NEW k \in Node, Load(k) PROVE DOMAIN users'[n] = Account
  <2>1. CASE k = n
    BY <1>0, <1>2, <2>1
       DEF Load, LoadFails, LoadHashed, LoadPlain, AccountTypeOK, AccountsSurvive, AccountInv,
           InHand, Go
  <2>2. CASE k # n
    BY <1>0, <1>1, <1>2, <2>2 DEF Load, LoadFails, LoadHashed, LoadPlain, AccountTypeOK
  <2> QED
    BY <2>1, <2>2
<1>3. ASSUME NEW k \in Node, Publish(k) PROVE DOMAIN users'[n] = Account
  <2>1. CASE k = n
    BY <1>0, <1>3, <2>1, PublishIs DEF Publish, Undisturbed, Go
  <2>2. CASE k # n
    BY <1>0, <1>1, <1>3, <2>2 DEF Publish, Return, AccountTypeOK
  <2> QED
    BY <2>1, <2>2
<1>4. ASSUME NEW k \in Node, Migrate(k), ~Publish(k) PROVE DOMAIN users'[n] = Account
  BY <1>0, <1>1, <1>4
     DEF Migrate, OpenTemp, OpenFails, WriteTemp, WriteFails, Discard, RenameTemp, RenameFails,
         Return, memory, AccountTypeOK
<1>5. ASSUME NEW k \in Node, EndProcess(k) PROVE DOMAIN users'[n] = Account
  BY <1>0, <1>1, <1>5 DEF EndProcess, AccountTypeOK
<1>6. ASSUME NEW u \in Account, NEW p \in Password, Edit(u, p) PROVE DOMAIN users'[n] = Account
  BY <1>1, <1>6 DEF Edit, memory
<1>7. CASE UNCHANGED accvars
  BY <1>1, <1>7 DEF accvars
<1> QED
  BY <1>2, <1>3, <1>4, <1>5, <1>6, <1>7 DEF AccountNext

\* Without an overlap nobody disturbs a migration.
LEMMA UndisturbedStep ==
  AccountInv /\ [AccountNext]_accvars => (~overlap' => \A n \in Node : Undisturbed(n)')
<1> SUFFICES ASSUME AccountInv, [AccountNext]_accvars, ~overlap', NEW n \in Node
             PROVE  Undisturbed(n)'
  OBVIOUS
<1>0. /\ AccountTypeOK /\ InHand /\ AccountsSurvive /\ ~overlap /\ file \in Contents
      /\ \A k \in Node : Undisturbed(k)
  BY OverlapStays DEF AccountInv, AccountTypeOK
<1> USE DEF Undisturbed, Migrating, Go, memory, givens
<1>1. ASSUME NEW k \in Node, Load(k) PROVE Undisturbed(n)'
  <2>1. CASE LoadFails(k) \/ LoadHashed(k)
    BY <1>0, <2>1 DEF LoadFails, LoadHashed, AccountTypeOK
  <2>2. CASE LoadPlain(k)
    <3>1. \A m \in Node \ {k} : ~Migrating(m)
      BY <2>2 DEF LoadPlain
    <3> QED
      BY <1>0, <2>2, <3>1 DEF LoadPlain, AccountTypeOK
  <2> QED
    BY <1>1, <2>1, <2>2 DEF Load
<1>2. ASSUME NEW k \in Node, Migrate(k) PROVE Undisturbed(n)'
  <2>1. CASE OpenTemp(k)
    BY <1>0, <2>1 DEF OpenTemp, AccountTypeOK
  <2>2. CASE OpenFails(k)
    BY <1>0, <2>2 DEF OpenFails, Return, AccountTypeOK
  <2>3. CASE WriteTemp(k)
    BY <1>0, <2>3 DEF WriteTemp, Written, AccountTypeOK
  <2>4. CASE WriteFails(k)
    BY <1>0, <2>4 DEF WriteFails, Written, AccountTypeOK
  <2>5. CASE Discard(k)
    BY <1>0, <2>5 DEF Discard, Return, AccountTypeOK
  <2>6. CASE RenameTemp(k)
    <3>1. file' = Migrated(file) /\ root[k] = Migrated(file)
      BY <1>0, <2>6 DEF RenameTemp
    <3>2. CASE n = k
      BY <1>0, <2>6, <3>1, <3>2, MigratedIs DEF RenameTemp, AccountTypeOK, AccountsSurvive, Hashed
    <3>3. CASE n # k
      <4>1. ~Migrating(n) /\ phase'[n] = phase[n] /\ root'[n] = root[n] /\ stale'[n] = stale[n]
        BY <1>0, <2>6, <3>3 DEF RenameTemp, AccountTypeOK
      <4>2. ASSUME phase[n] = "publish", NEW u \in Hashed(root[n]) \ stale[n]
            PROVE  root[n][u] = file'[u]
        <5>1. u \in DOMAIN file /\ root[n][u] = file[u] /\ IsHashed(file[u])
          BY <1>0, <4>2 DEF Hashed, AccountsSurvive
        <5> QED
          BY <1>0, <3>1, <5>1, MigratedIs
      <4> QED
        BY <1>0, <2>6, <4>1, <4>2 DEF RenameTemp, Hashed, AccountTypeOK
    <3> QED
      BY <3>2, <3>3
  <2>7. CASE RenameFails(k)
    BY <1>0, <2>7 DEF RenameFails, AccountTypeOK
  <2>8. CASE Publish(k)
    BY <1>0, <2>8 DEF Publish, Return, AccountTypeOK
  <2> QED
    BY <1>2, <2>1, <2>2, <2>3, <2>4, <2>5, <2>6, <2>7, <2>8 DEF Migrate
<1>3. ASSUME NEW k \in Node, EndProcess(k) PROVE Undisturbed(n)'
  BY <1>0, <1>3 DEF EndProcess, AccountTypeOK
<1>4. ASSUME NEW u \in Account, NEW p \in Password, Edit(u, p) PROVE Undisturbed(n)'
  <2>1. \A k \in Node : ~Migrating(k)
    BY <1>4 DEF Edit
  <2>2. \A v \in DOMAIN file \ {u} : file'[v] = file[v]
    BY <1>0, <1>4 DEF Edit
  <2>3. phase' = phase /\ root' = root /\ (phase[n] # "down" => stale'[n] = stale[n] \cup {u})
    BY <1>0, <1>4 DEF Edit, AccountTypeOK
  <2>4. phase[n] = "publish" => \A v \in Hashed(root[n]) : v \in DOMAIN file
    BY <1>0 DEF AccountsSurvive, Hashed
  <2> QED
    BY <1>0, <2>1, <2>2, <2>3, <2>4 DEF Hashed
<1>5. CASE UNCHANGED accvars
  BY <1>0, <1>5 DEF accvars, Hashed
<1> QED
  BY <1>1, <1>2, <1>3, <1>4, <1>5 DEF AccountNext

-----------------------------------------------------------------------------
(* The theorems.                                                           *)

\* AccountInv is inductive.
THEOREM AccountInvariant == AccountSpec => []AccountInv
<1>1. AccountInv /\ [AccountNext]_accvars => AccountInv'
  BY AccountTypesStep, HashedStep, InHandStep, SurviveStep, MemoryStep, TrueStep, UndisturbedStep
     DEF AccountInv
<1> QED
  BY AccountInvInit, <1>1, PTL DEF AccountSpec

\* The variables of the accounts keep their types.
THEOREM AccountTypes == AccountSpec => []AccountTypeOK
BY AccountInvariant, PTL DEF AccountInv

\* The users file keeps every account with its password: through failing
\* calls and deaths, unless two migrations overlap (loadFromFile).
THEOREM AccountsKept == AccountSpec => []AccountsSurvive
BY AccountInvariant, PTL DEF AccountInv

\* Nothing is in memory that a restart would not find on the disk.
THEOREM MemoryOnDisk == AccountSpec => []InMemoryIsOnDisk
BY AccountInvariant, PTL DEF AccountInv

\* Plain text is never in memory, whatever overlaps.
THEOREM AlwaysHashed == AccountSpec => []KeptHashed
BY AccountInvariant, PTL DEF AccountInv

\* loadFromFile returns true for all accounts or not at all.
THEOREM TrueIsAll == AccountSpec => []TrueMeansAll
BY AccountInvariant, PTL DEF AccountInv

-----------------------------------------------------------------------------
(* The accounts of a cluster.                                              *)

\* The sentinel is beyond every time that a step computes.
LEMMA Times ==
  ASSUME NEW n \in 0..MaxTime
  PROVE  /\ NoTime \in Nat /\ 0 \in Expiry /\ NoTime \in Expiry
         /\ n + Ttl \in Expiry /\ n + Ttl # NoTime
         /\ n + Hours \in 1..(MaxTime + Hours)
         /\ n + Hours \in Expiry /\ n \in Expiry /\ n # NoTime
         /\ \A e \in 1..(MaxTime + Hours), k \in 0..2 :
              (e + k) - 1 \in Expiry /\ (e + k) - 1 # NoTime
BY AuthTimes DEF NoTime, Expiry

\* The manager starts with nothing.
LEMMA AuthInvInit == AuthInit => AuthInv
<1> SUFFICES ASSUME AuthInit PROVE AuthInv
  OBVIOUS
<1>0. 0 \in 0..MaxTime
  BY AuthTimes
<1>1. AuthTypeOK
  BY <1>0, Times DEF AuthInit, AuthTypeOK, Ops
<1>2. AccountsFollow /\ ExpiriesKept /\ InProgress /\ RevokedIsGone
  BY DEF AuthInit, AccountsFollow, ExpiriesKept, InProgress, RevokedIsGone
<1> QED
  BY <1>1, <1>2 DEF AuthInv

\* Every variable keeps its type; no computed expiry is the sentinel's.
LEMMA TypesStep == AuthInv /\ [AuthNext]_avars => AuthTypeOK'
<1> SUFFICES ASSUME AuthInv, [AuthNext]_avars PROVE AuthTypeOK'
  OBVIOUS
<1> USE DEF AuthInv, AuthTypeOK, Begin, End, Ops
<1>0. now \in 0..MaxTime /\ NoTime \in Expiry /\ MaxTime \in Nat
  BY Times, AuthTimes
<1>1. ASSUME NEW t \in Thread, NEW u \in User, UserOp(t, u) PROVE AuthTypeOK'
  BY <1>0, <1>1, Times
     DEF UserOp, StoreUser, CacheUser, DeleteUser, DropUser, redis, caches, threads, ghosts
<1>2. ASSUME NEW t \in Thread, NEW s \in Sess, SessionOp(t, s) PROVE AuthTypeOK'
  <2>1. CASE StoreSession(t, s)
    BY <1>0, <2>1, Times DEF StoreSession, redis, caches, threads, ghosts
  <2>2. CASE CacheSession(t, s)
    <3>1. expiry[s] \in 1..(MaxTime + Hours)
      BY <2>2 DEF CacheSession, InProgress
    <3> QED
      BY <1>0, <2>2, <3>1, Times DEF CacheSession, redis, caches, threads, ghosts
  <2>3. CASE ReadSession(t, s)
    BY <1>0, <2>3 DEF ReadSession, redis, caches, threads, ghosts
  <2>4. CASE RefreshSession(t, s)
    BY <1>0, <2>4, Times DEF RefreshSession, redis, caches, threads, ghosts
  <2>5. CASE DeleteSession(t, s)
    BY <1>0, <2>5 DEF DeleteSession, redis, caches, threads, ghosts
  <2>6. CASE DropSession(t, s)
    BY <1>0, <2>6 DEF DropSession, redis, caches, threads, ghosts
  <2> QED
    BY <1>2, <2>1, <2>2, <2>3, <2>4, <2>5, <2>6 DEF SessionOp
<1>3. CASE Cleanup
  BY <1>0, <1>3 DEF Cleanup, redis, caches, threads, ghosts
<1>4. CASE Tick
  BY <1>0, <1>4 DEF Tick, redis, caches, threads, ghosts
<1>5. CASE UNCHANGED avars
  BY <1>5 DEF avars, redis, caches, threads, ghosts
<1> QED
  BY <1>1, <1>2, <1>3, <1>4, <1>5 DEF AuthNext

\* What a thread relies on is not taken away by the others.
LEMMA ProgressStep == AuthInv /\ [AuthNext]_avars => InProgress'
<1> SUFFICES ASSUME AuthInv, [AuthNext]_avars PROVE InProgress'
  OBVIOUS
<1> USE DEF AuthInv, AuthTypeOK, Begin, End, InProgress
<1>0. now \in 0..MaxTime /\ NoTime \in Expiry
  BY Times, AuthTimes
<1>1. ASSUME NEW t \in Thread, NEW u \in User, UserOp(t, u) PROVE InProgress'
  BY <1>1, AuthNames
     DEF UserOp, StoreUser, CacheUser, DeleteUser, DropUser, redis, caches, threads, ghosts
<1>2. ASSUME NEW t \in Thread, NEW s \in Sess, SessionOp(t, s) PROVE InProgress'
  <2>1. CASE StoreSession(t, s)
    BY <1>0, <2>1, Times DEF StoreSession, Busy, redis, caches, threads, ghosts
  <2>2. CASE CacheSession(t, s)
    BY <1>0, <2>2, Times DEF CacheSession, redis, caches, threads, ghosts
  <2>3. CASE ReadSession(t, s)
    BY <2>3 DEF ReadSession, redis, caches, threads, ghosts
  <2>4. CASE RefreshSession(t, s)
    BY <2>4 DEF RefreshSession, redis, caches, threads, ghosts
  <2>5. CASE DeleteSession(t, s)
    BY <2>5 DEF DeleteSession, redis, caches, threads, ghosts
  <2>6. CASE DropSession(t, s)
    BY <2>6 DEF DropSession, redis, caches, threads, ghosts
  <2> QED
    BY <1>2, <2>1, <2>2, <2>3, <2>4, <2>5, <2>6 DEF SessionOp
<1>3. CASE Cleanup
  BY <1>0, <1>3 DEF Cleanup, redis, caches, threads, ghosts
<1>4. CASE Tick
  BY <1>4 DEF Tick, redis, caches, threads, ghosts
<1>5. CASE UNCHANGED avars
  BY <1>5 DEF avars, redis, caches, threads, ghosts
<1> QED
  BY <1>1, <1>2, <1>3, <1>4, <1>5 DEF AuthNext

\* A step leaves the accounts with what was added and removed.
LEMMA AccountsStep == AuthInv /\ [AuthNext]_avars => AccountsFollow'
<1> SUFFICES ASSUME AuthInv, [AuthNext]_avars PROVE AccountsFollow'
  OBVIOUS
<1> USE DEF AuthInv, AuthTypeOK, AccountsFollow, ExpiriesKept, Busy, Begin, End
<1>0. now \in 0..MaxTime /\ now # NoTime /\ NoTime \in Nat /\ MaxTime \in Nat /\ Ttl \in Nat
  BY Times, AuthTimes
<1>1. ASSUME NEW t \in Thread, NEW u \in User, UserOp(t, u) PROVE AccountsFollow'
  <2>1. CASE StoreUser(t, u)
    BY <1>0, <2>1 DEF StoreUser, redis, caches, threads, ghosts
  <2>2. CASE CacheUser(t, u)
    BY <1>0, <2>2 DEF CacheUser, redis, caches, threads, ghosts
  <2>3. CASE DeleteUser(t, u)
    BY <1>0, <2>3 DEF DeleteUser, redis, caches, threads, ghosts
  <2>4. CASE DropUser(t, u)
    BY <1>0, <2>4 DEF DropUser, redis, caches, threads, ghosts
  <2> QED
    BY <1>1, <2>1, <2>2, <2>3, <2>4 DEF UserOp
<1>2. ASSUME NEW t \in Thread, NEW s \in Sess, SessionOp(t, s) PROVE AccountsFollow'
  <2>1. UNCHANGED <<now, account, accExp, added>>
    BY <1>2 DEF SessionOp, StoreSession, CacheSession, ReadSession, RefreshSession,
                DeleteSession, DropSession, redis, caches, ghosts
  <2>2. \A r \in Thread : at[r] \in {"addUser", "removeUser"}
                            => at'[r] = at[r] /\ arg'[r] = arg[r]
    BY <1>2 DEF SessionOp, StoreSession, CacheSession, ReadSession, RefreshSession,
                DeleteSession, DropSession
  <2> QED
    BY <2>1, <2>2
<1>3. CASE Cleanup
  BY <1>0, <1>3 DEF Cleanup, Expiry, redis, caches, threads, ghosts
<1>4. CASE Tick
  BY <1>0, <1>4 DEF Tick, Expiry, redis, caches, threads, ghosts
<1>5. CASE UNCHANGED avars
  BY <1>5 DEF avars, redis, caches, threads, ghosts
<1> QED
  BY <1>1, <1>2, <1>3, <1>4, <1>5 DEF AuthNext

\* The expiries of the living change only when an operation sets them, or
\* when the cleanup finds them over.
LEMMA ExpiriesStep == AuthInv /\ [AuthNext]_avars => ExpiriesKept'
<1> SUFFICES ASSUME AuthInv, [AuthNext]_avars PROVE ExpiriesKept'
  OBVIOUS
<1> USE DEF AuthInv, AuthTypeOK, ExpiriesKept, Busy, Begin, End
<1>0. now \in 0..MaxTime /\ now # NoTime /\ NoTime \in Nat /\ MaxTime \in Nat /\ Ttl \in Nat
  BY Times, AuthTimes
<1>1. ASSUME NEW t \in Thread, NEW u \in User, UserOp(t, u) PROVE ExpiriesKept'
  <2>1. UNCHANGED <<now, session, expiry, created, revoked>>
    BY <1>1 DEF UserOp, StoreUser, CacheUser, DeleteUser, DropUser, redis, caches, ghosts
  <2>2. \A r \in Thread : at[r] = "invalidateSession" => at'[r] = at[r] /\ arg'[r] = arg[r]
    BY <1>1 DEF UserOp, StoreUser, CacheUser, DeleteUser, DropUser
  <2>3. \A v \in User : added'[v] # NoTime =>
          accExp'[v] = added'[v] + Ttl \/ (accExp'[v] = NoTime /\ now > added'[v] + Ttl)
    BY <1>0, <1>1 DEF UserOp, StoreUser, CacheUser, DeleteUser, DropUser, redis, caches, ghosts
  <2> QED
    BY <2>1, <2>2, <2>3
<1>2. ASSUME NEW t \in Thread, NEW s \in Sess, SessionOp(t, s) PROVE ExpiriesKept'
  <2>1. UNCHANGED <<now, accExp, added>>
    BY <1>2 DEF SessionOp, StoreSession, CacheSession, ReadSession, RefreshSession,
                DeleteSession, DropSession, redis, caches, ghosts
  <2>2. CASE StoreSession(t, s)
    BY <1>0, <2>1, <2>2 DEF StoreSession, redis, caches, threads, ghosts
  <2>3. CASE CacheSession(t, s)
    <3>1. expiry[s] \in 1..(MaxTime + Hours)
      BY <2>3 DEF CacheSession, InProgress
    <3>2. expiry[s] # NoTime
      BY <3>1, AuthTimes DEF NoTime
    <3> QED
      BY <2>1, <2>3, <3>2 DEF CacheSession, redis, caches, threads, ghosts
  <2>4. CASE ReadSession(t, s)
    BY <2>1, <2>4 DEF ReadSession, redis, caches, threads, ghosts
  <2>5. CASE RefreshSession(t, s)
    BY <2>1, <2>5 DEF RefreshSession, redis, caches, threads, ghosts
  <2>6. CASE DeleteSession(t, s)
    BY <2>1, <2>6 DEF DeleteSession, redis, caches, threads, ghosts
  <2>7. CASE DropSession(t, s)
    BY <2>1, <2>7 DEF DropSession, redis, caches, threads, ghosts
  <2> QED
    BY <1>2, <2>2, <2>3, <2>4, <2>5, <2>6, <2>7 DEF SessionOp
<1>3. CASE Cleanup
  BY <1>0, <1>3 DEF Cleanup, Expiry, redis, caches, threads, ghosts
<1>4. CASE Tick
  BY <1>0, <1>4 DEF Tick, Expiry, redis, caches, threads, ghosts
<1>5. CASE UNCHANGED avars
  BY <1>5 DEF avars, redis, caches, threads, ghosts
<1> QED
  BY <1>1, <1>2, <1>3, <1>4, <1>5 DEF AuthNext

\* A revoked session stays gone: only a validation could bring it back, and
\* one that starts later finds it in neither map.
LEMMA RevokedStep == AuthInv /\ [AuthNext]_avars => RevokedIsGone'
<1> SUFFICES ASSUME AuthInv, [AuthNext]_avars PROVE RevokedIsGone'
  OBVIOUS
<1> USE DEF AuthInv, AuthTypeOK, InProgress, RevokedIsGone, Busy, Begin, End
<1>0. now \in 0..MaxTime /\ NoTime \in Nat /\ now # NoTime
  BY Times, AuthTimes
<1>1. ASSUME NEW t \in Thread, NEW u \in User, UserOp(t, u) PROVE RevokedIsGone'
  <2>1. UNCHANGED <<session, cached, created, revoked, raced>>
    BY <1>1 DEF UserOp, StoreUser, CacheUser, DeleteUser, DropUser, redis, caches, ghosts
  <2>2. \A r \in Thread : at'[r] = "validateSession"
                            => at[r] = at'[r] /\ arg'[r] = arg[r]
    BY <1>1 DEF UserOp, StoreUser, CacheUser, DeleteUser, DropUser
  <2> QED
    BY <2>1, <2>2
<1>2. ASSUME NEW t \in Thread, NEW s \in Sess, SessionOp(t, s) PROVE RevokedIsGone'
  <2>1. CASE StoreSession(t, s)
    BY <2>1 DEF StoreSession, redis, caches, threads, ghosts
  <2>2. CASE CacheSession(t, s)
    BY <1>0, <2>2 DEF CacheSession, redis, caches, threads, ghosts
  <2>3. CASE ReadSession(t, s)
    BY <2>3 DEF ReadSession, InRedis, redis, caches, threads, ghosts
  <2>4. CASE RefreshSession(t, s)
    BY <2>4 DEF RefreshSession, redis, caches, threads, ghosts
  <2>5. CASE DeleteSession(t, s)
    BY <2>5 DEF DeleteSession, redis, caches, threads, ghosts
  <2>6. CASE DropSession(t, s)
    BY <2>6 DEF DropSession, redis, caches, threads, ghosts
  <2> QED
    BY <1>2, <2>1, <2>2, <2>3, <2>4, <2>5, <2>6 DEF SessionOp
<1>3. CASE Cleanup
  BY <1>0, <1>3 DEF Cleanup, redis, caches, threads, ghosts
<1>4. CASE Tick
  BY <1>4 DEF Tick, redis, caches, threads, ghosts
<1>5. CASE UNCHANGED avars
  BY <1>5 DEF avars, redis, caches, threads, ghosts
<1> QED
  BY <1>1, <1>2, <1>3, <1>4, <1>5 DEF AuthNext

-----------------------------------------------------------------------------
\* AuthInv is an invariant of the manager.
THEOREM AuthInvariant == AuthSpec => []AuthInv
<1>1. AuthInv /\ [AuthNext]_avars => AuthInv'
  BY TypesStep, ProgressStep, AccountsStep, ExpiriesStep, RevokedStep DEF AuthInv
<1> QED
  BY AuthInvInit, <1>1, PTL DEF AuthSpec

\* A revoked session is refused by validateSession, unless a validation of it
\* was in progress when invalidateSession returned.
THEOREM AuthRevoked == AuthSpec => []RevokedUnlessRaced
<1>1. AuthInv => RevokedUnlessRaced
  BY DEF AuthInv, RevokedIsGone, RevokedUnlessRaced, Validates, InCache, InRedis
<1> QED
  BY <1>1, AuthInvariant, PTL

\* addUser and removeUser are followed by the entries, until they expire.
THEOREM AuthAccountsFollow == AuthSpec => []AccountsFollow
BY AuthInvariant, PTL DEF AuthInv

\* A session that createSession has returned validates until its expiry.
THEOREM AuthSessionLasts == AuthSpec => []SessionLasts
<1>1. AuthInv => SessionLasts
  <2> SUFFICES ASSUME AuthInv, NEW s \in Sess, created[s] # NoTime, now <= expiry[s],
                      s \notin revoked, ~Busy("invalidateSession", s)
               PROVE  Validates(s)
    BY DEF SessionLasts
  <2>1. expiry[s] # NoTime
    BY DEF AuthInv, ExpiriesKept
  <2>2. session[s] = expiry[s] \/ (session[s] = NoTime /\ now > expiry[s])
    BY <2>1 DEF AuthInv, ExpiriesKept
  <2>3. now \in Nat /\ expiry[s] \in Nat
    BY Times DEF AuthInv, AuthTypeOK, Expiry
  <2> QED
    BY <2>1, <2>2, <2>3 DEF Validates, InRedis
<1> QED
  BY <1>1, AuthInvariant, PTL
==============================================================================
