--------------------------- MODULE LocalAccounts ---------------------------
(***************************************************************************)
(* The accounts of src/core/auth_manager.cpp.  A process that starts reads *)
(* the users file; passwords that it finds in plain text it hashes, writes *)
(* the whole file again under the name <path>.tmp, and renames that over   *)
(* the users file before it uses the new hashes.  Processes that share the *)
(* file use the same temporary name, and an administrator edits the file.  *)
(***************************************************************************)
EXTENDS Naturals

CONSTANTS
  Node,        \* the processes
  Account,     \* the accounts
  Password,    \* the passwords
  NoPassword,  \* the empty one
  NoFile       \* no file of that name

ASSUME AccountNames == NoPassword \notin Password

(* What stands for a password in the file: the text itself; the format     *)
(* that PasswordHash::hash makes, whose salt is left out; or the prefix    *)
(* "$pbkdf2$", which isHashed knows and verify does not.                   *)
Cred == [kind : {"plain", "hashed", "old"}, of : Password \cup {NoPassword}]

\* The contents of a file: it may have been cut short.
Contents == UNION {[S -> Cred] : S \in SUBSET Account}

VARIABLES
  file,    \* users.yml
  temp,    \* users.yml.tmp
  phase,   \* phase[n]: where loadFromFile is
  handle,  \* handle[n]: what the stream fout writes to; a rename takes it along
  root,    \* root[n]: the YAML tree
  users,   \* users[n]: users_
  loaded,  \* loaded[n]: what loadFromFile returned; the caller ignores it
  known,   \* known[u]: the password that the administrator gave u
  stale,   \* stale[n]: the accounts that were edited since n read the file
  overlap  \* the file was edited, or read for a migration, during a migration

accvars == <<file, temp, phase, handle, root, users, loaded, known, stale, overlap>>
memory == <<root, users, loaded>>
givens == <<known, stale, overlap>>

Phases == {"down", "open", "write", "cleanup", "rename", "publish", "up"}
Migrating(n) == phase[n] \in {"open", "write", "cleanup", "rename"}

\* PasswordHash::isHashed
IsHashed(c) == c.kind # "plain"

\* PasswordHash::hash: of an empty password it returns the empty string.
Hash(c) == IF c.of = NoPassword THEN c ELSE [c EXCEPT !.kind = "hashed"]

\* PasswordHash::verify, for what isHashed has let through.
Verify(p, c) == p # NoPassword /\ c.kind = "hashed" /\ c.of = p

Hashed(f)   == {u \in DOMAIN f : IsHashed(f[u])}
Only(f, S)  == [u \in S |-> f[u]]
Migrated(f) == [u \in DOMAIN f |-> IF IsHashed(f[u]) THEN f[u] ELSE Hash(f[u])]

\* AuthManager::validate
Validate(n, u, p) == u \in DOMAIN users[n] /\ IsHashed(users[n][u]) /\ Verify(p, users[n][u])

AccountTypeOK ==
  /\ file \in Contents
  /\ temp \in Contents \cup {NoFile}
  /\ phase \in [Node -> Phases]
  /\ handle \in [Node -> {"none", "temp", "file", "gone"}]
  /\ root \in [Node -> Contents]
  /\ users \in [Node -> Contents]
  /\ loaded \in [Node -> BOOLEAN]
  /\ known \in [Account -> Password \cup {NoPassword}]
  /\ stale \in [Node -> SUBSET Account]
  /\ overlap \in BOOLEAN

NoAccounts == [u \in {} |-> NoFile]

AccountInit ==
  /\ file \in [Account -> Cred]
  /\ known = [u \in Account |-> file[u].of]
  /\ temp = NoFile
  /\ phase = [n \in Node |-> "down"]
  /\ handle = [n \in Node |-> "none"]
  /\ root = [n \in Node |-> NoAccounts] /\ users = root
  /\ loaded = [n \in Node |-> FALSE]
  /\ stale = [n \in Node |-> {}]
  /\ overlap = FALSE

Go(n, from, to) == phase[n] = from /\ phase' = [phase EXCEPT ![n] = to]

-----------------------------------------------------------------------------
(* AuthManager::loadFromFile                                               *)

\* No file, no users section, or an entry that cannot be converted or hashed:
\* what was hashed before that entry is kept.
LoadFails(n) ==
  /\ Go(n, "down", "up")
  /\ \E S \in SUBSET Hashed(file) : users' = [users EXCEPT ![n] = Only(file, S)]
  /\ loaded' = [loaded EXCEPT ![n] = FALSE]
  /\ stale' = [stale EXCEPT ![n] = {}]
  /\ UNCHANGED <<file, temp, handle, root, known, overlap>>

LoadHashed(n) ==
  /\ Hashed(file) = DOMAIN file
  /\ Go(n, "down", "up")
  /\ users' = [users EXCEPT ![n] = file]
  /\ loaded' = [loaded EXCEPT ![n] = TRUE]
  /\ stale' = [stale EXCEPT ![n] = {}]
  /\ UNCHANGED <<file, temp, handle, root, known, overlap>>

\* Fault: plain text is taken into users_ before it is hashed.
LoadPlain_Keeps(n) ==
  /\ Hashed(file) # DOMAIN file
  /\ Go(n, "down", "open")
  /\ root' = [root EXCEPT ![n] = Migrated(file)]
  /\ users' = [users EXCEPT ![n] = file]
  /\ stale' = [stale EXCEPT ![n] = {}]
  /\ overlap' = (overlap \/ \E k \in Node \ {n} : Migrating(k))
  /\ UNCHANGED <<file, temp, handle, loaded, known>>

\* Fault: the hashes are used before they are on the disk.
LoadPlain_Early(n) ==
  /\ Hashed(file) # DOMAIN file
  /\ Go(n, "down", "open")
  /\ root' = [root EXCEPT ![n] = Migrated(file)]
  /\ users' = [users EXCEPT ![n] = Only(Migrated(file), Hashed(Migrated(file)))]
  /\ stale' = [stale EXCEPT ![n] = {}]
  /\ overlap' = (overlap \/ \E k \in Node \ {n} : Migrating(k))
  /\ UNCHANGED <<file, temp, handle, loaded, known>>

LoadPlain(n) ==
  /\ Hashed(file) # DOMAIN file
  /\ Go(n, "down", "open")
  /\ root' = [root EXCEPT ![n] = Migrated(file)]
  /\ users' = [users EXCEPT ![n] = Only(file, Hashed(file))]
  /\ stale' = [stale EXCEPT ![n] = {}]
  /\ overlap' = (overlap \/ \E k \in Node \ {n} : Migrating(k))
  /\ UNCHANGED <<file, temp, handle, loaded, known>>

\* loadFromFile returns, and the tree is gone.
Return(n, ok) ==
  /\ loaded' = [loaded EXCEPT ![n] = ok]
  /\ root' = [root EXCEPT ![n] = NoAccounts]

\* The stream truncates what is there under the temporary name.
OpenTemp(n) ==
  /\ Go(n, "open", "write")
  /\ temp' = NoAccounts
  /\ handle' = [handle EXCEPT ![n] = "temp"]
  /\ UNCHANGED <<file, memory, givens>>

OpenFails(n) ==
  /\ Go(n, "open", "up")
  /\ Return(n, FALSE)
  /\ UNCHANGED <<file, temp, handle, users, givens>>

\* The stream is written and closed: its file is now what f says.
Written(n, f) ==
  /\ temp' = IF handle[n] = "temp" THEN f ELSE temp
  /\ file' = IF handle[n] = "file" THEN f ELSE file
  /\ handle' = [handle EXCEPT ![n] = "none"]

WriteTemp(n) ==
  /\ Go(n, "write", "rename")
  /\ Written(n, root[n])
  /\ UNCHANGED <<memory, givens>>

\* Fault: the stream is not looked at after it was closed.
WriteFails_Ignored(n) ==
  /\ Go(n, "write", "rename")
  /\ \E S \in SUBSET DOMAIN root[n] : Written(n, Only(root[n], S))
  /\ UNCHANGED <<memory, givens>>

WriteFails(n) ==
  /\ Go(n, "write", "cleanup")
  /\ \E S \in SUBSET DOMAIN root[n] : Written(n, Only(root[n], S))
  /\ UNCHANGED <<memory, givens>>

\* remove(tempPath), which may throw into the outer handler.
Discard(n) ==
  /\ Go(n, "cleanup", "up")
  /\ Return(n, FALSE)
  /\ \/ /\ temp' = NoFile
        /\ handle' = [k \in Node |-> IF handle[k] = "temp" THEN "gone" ELSE handle[k]]
     \/ UNCHANGED <<temp, handle>>
  /\ UNCHANGED <<file, users, givens>>

RenameTemp(n) ==
  /\ temp # NoFile
  /\ Go(n, "rename", "publish")
  /\ file' = temp /\ temp' = NoFile
  /\ handle' = [k \in Node |-> IF handle[k] = "temp" THEN "file" ELSE
                              IF handle[k] = "file" THEN "gone" ELSE handle[k]]
  /\ UNCHANGED <<memory, givens>>

RenameFails(n) ==
  /\ Go(n, "rename", "cleanup")
  /\ UNCHANGED <<file, temp, handle, memory, givens>>

\* The hashes are taken over, up to an entry that is not hashed: an empty one.
Publish(n) ==
  /\ Go(n, "publish", "up")
  /\ IF Hashed(root[n]) = DOMAIN root[n]
     THEN /\ users' = [users EXCEPT ![n] = root[n]]
          /\ Return(n, TRUE)
     ELSE /\ \E S \in SUBSET Hashed(root[n]) :
               users' = [users EXCEPT ![n] = Only(root[n], DOMAIN users[n] \cup S)]
          /\ Return(n, FALSE)
  /\ UNCHANGED <<file, temp, handle, givens>>

-----------------------------------------------------------------------------
(* What happens around it.                                                 *)

\* The process ends, at any point.
EndProcess(n) ==
  /\ phase[n] # "down"
  /\ phase' = [phase EXCEPT ![n] = "down"]
  /\ handle' = [handle EXCEPT ![n] = "none"]
  /\ root' = [root EXCEPT ![n] = NoAccounts]
  /\ users' = [users EXCEPT ![n] = NoAccounts]
  /\ loaded' = [loaded EXCEPT ![n] = FALSE]
  /\ stale' = [stale EXCEPT ![n] = {}]
  /\ UNCHANGED <<file, temp, known, overlap>>

\* The administrator replaces the file by one with a new password for u.
Edit(u, p) ==
  /\ u \in DOMAIN file
  /\ file' = [file EXCEPT ![u] = [kind |-> "plain", of |-> p]]
  /\ handle' = [k \in Node |-> IF handle[k] = "file" THEN "gone" ELSE handle[k]]
  /\ known' = [known EXCEPT ![u] = p]
  /\ stale' = [n \in Node |-> IF phase[n] = "down" THEN {} ELSE stale[n] \cup {u}]
  /\ overlap' = (overlap \/ \E k \in Node : Migrating(k))
  /\ UNCHANGED <<temp, phase, memory>>

Load(n) == LoadFails(n) \/ LoadHashed(n) \/ LoadPlain(n)
Migrate(n) ==
  \/ OpenTemp(n) \/ OpenFails(n)
  \/ WriteTemp(n) \/ WriteFails(n) \/ Discard(n)
  \/ RenameTemp(n) \/ RenameFails(n) \/ Publish(n)

AccountNext ==
  \/ \E n \in Node : Load(n) \/ Migrate(n) \/ EndProcess(n)
  \/ \E u \in Account, p \in Password : Edit(u, p)

AccountSpec == AccountInit /\ [][AccountNext]_accvars

-----------------------------------------------------------------------------
(* The promises.                                                           *)

\* Through every failing call and every death, the users file has each account
\* with the password that the administrator gave it; only an edit or a second
\* migration during a migration can take one away.
AccountsSurvive ==
  ~overlap => /\ DOMAIN file = Account
              /\ \A u \in Account : file[u].of = known[u]

\* What a process has in memory is what it would read after a restart: no new
\* hash is used before it is on the disk ("Persist migration atomically before
\* using migrated passwords"), unless the account was edited meanwhile.
InMemoryIsOnDisk ==
  ~overlap => \A n \in Node : \A u \in DOMAIN users[n] \ stale[n] : users[n][u] = file[u]

\* users_ never holds plain text ("always hashed, never plaintext"), whichever
\* way loadFromFile ended, and whatever the processes did to the file.
KeptHashed == \A n \in Node : \A u \in DOMAIN users[n] : IsHashed(users[n][u])

\* A load that returned true has every account of the file.
TrueMeansAll == ~overlap => \A n \in Node : loaded[n] => DOMAIN users[n] = Account

-----------------------------------------------------------------------------
(* The invariant.                                                          *)

\* What a process has in hand at each point, whatever the others do.
InHand ==
  \A n \in Node :
    /\ phase[n] = "down" => DOMAIN users[n] = {}
    /\ loaded[n] => phase[n] = "up"
    /\ handle[n] # "none" => phase[n] = "write"
    /\ Migrating(n) \/ phase[n] = "publish" => DOMAIN users[n] \subseteq Hashed(root[n])

\* Without an overlap there is one migration at a time, of the file that is
\* there, and what was renamed is what is published.
Undisturbed(n) ==
  /\ \A k \in Node : Migrating(n) /\ Migrating(k) => n = k
  /\ Migrating(n) => root[n] = Migrated(file)
  /\ phase[n] = "write" => handle[n] = "temp"
  /\ phase[n] = "rename" => temp = root[n]
  /\ phase[n] = "publish" =>
       /\ DOMAIN root[n] = Account
       /\ \A u \in Hashed(root[n]) \ stale[n] : root[n][u] = file[u]

AccountInv ==
  /\ AccountTypeOK /\ KeptHashed /\ InHand
  /\ AccountsSurvive /\ InMemoryIsOnDisk /\ TrueMeansAll
  /\ ~overlap => \A n \in Node : Undisturbed(n)
=============================================================================
