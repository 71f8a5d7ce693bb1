-------------------------- MODULE DistributedAuth --------------------------
(***************************************************************************)
(* src/core/distributed_auth_manager.cpp: the accounts and login sessions  *)
(* of a cluster.  Redis is simulated: the accounts "in Redis" are entries  *)
(* of userCache_, the map that is also the local cache of accounts and     *)
(* sessions; the sessions "in Redis" are sessionCache_.                    *)
(*                                                                         *)
(* Every helper takes cacheMutex_ by itself, so that an operation that     *)
(* calls two of them can be interrupted in between by another thread or    *)
(* by the replication thread's cleanupExpiredCache.  Passwords and client  *)
(* information play no part in this and are left out.                      *)
(***************************************************************************)
EXTENDS Naturals

CONSTANTS
  User,     \* account names
  Sess,     \* session ids
  Thread,   \* threads that call the manager
  None,     \* no argument
  Ttl,      \* default ttl of updateLocalCache, in seconds
  Hours,    \* SESSION_TIMEOUT.count(): the number of hours
  MaxTime   \* bound on time

ASSUME AuthNames  == None \notin User \cup Sess
ASSUME AuthTimes  == Ttl \in Nat \ {0} /\ Hours \in Nat \ {0} /\ MaxTime \in Nat

VARIABLES
  now,       \* the clock, in seconds
  account,   \* userCache_: the accounts that it has an entry for
  accExp,    \* cacheExpiry_ of their keys; NoTime without one
  session,   \* sessionCache_: expiry of each session, NoTime when absent
  cached,    \* userCache_: the sessions that it has an entry for
  cacheExp,  \* cacheExpiry_ of their keys
  at, arg,   \* what each thread is in the middle of, and for whom
  expiry,    \* createSession's local of that name, by the session id it drew
  added,     \* added[u]: when the last addUser of u returned; NoTime if it was removed
  created,   \* created[s]: when createSession returned s, NoTime before
  revoked,   \* sessions that invalidateSession has returned for
  raced      \* those of them that a validation was in progress for

redis   == <<account, session>>
caches  == <<accExp, cached, cacheExp>>
threads == <<at, arg, expiry>>
ghosts  == <<added, created, revoked, raced>>
avars   == <<now, redis, caches, threads, ghosts>>

NoTime  == MaxTime + Ttl + Hours + 1
Expiry  == 0..NoTime
Ops     == {"idle", "addUser", "removeUser", "createSession", "validateSession",
            "invalidateSession"}

AuthTypeOK ==
  /\ now \in 0..MaxTime
  /\ account \subseteq User
  /\ accExp \in [User -> Expiry]
  /\ session \in [Sess -> Expiry]
  /\ cached \subseteq Sess
  /\ cacheExp \in [Sess -> Expiry]
  /\ at \in [Thread -> Ops]
  /\ arg \in [Thread -> User \cup Sess \cup {None}]
  /\ expiry \in [Sess -> Expiry]
  /\ added \in [User -> Expiry]
  /\ created \in [Sess -> Expiry]
  /\ revoked \subseteq Sess /\ raced \subseteq Sess

AuthInit ==
  /\ now = 0
  /\ account = {}
  /\ added = [u \in User |-> NoTime]
  /\ accExp = [u \in User |-> NoTime]
  /\ session = [s \in Sess |-> NoTime]
  /\ cached = {}
  /\ cacheExp = [s \in Sess |-> NoTime]
  /\ at = [t \in Thread |-> "idle"]
  /\ arg = [t \in Thread |-> None]
  /\ expiry = [s \in Sess |-> NoTime]
  /\ created = [s \in Sess |-> NoTime]
  /\ revoked = {} /\ raced = {}

\* A thread is between the first and the second step of an operation.
Begin(t, op, x) ==
  /\ at[t] = "idle"
  /\ at' = [at EXCEPT ![t] = op]
  /\ arg' = [arg EXCEPT ![t] = x]

End(t, op, x) ==
  /\ at[t] = op /\ arg[t] = x
  /\ at' = [at EXCEPT ![t] = "idle"]
  /\ arg' = [arg EXCEPT ![t] = None]

Busy(op, x) == \E t \in Thread : at[t] = op /\ arg[t] = x

-----------------------------------------------------------------------------
\* addUser, updateUserPassword, and loadFromFile for each account of the
\* file: storeUserInRedis...
StoreUser(t, u) ==
  /\ Begin(t, "addUser", u)
  /\ account' = account \cup {u}
  /\ UNCHANGED <<now, expiry, session, caches, ghosts>>

\* ...then updateLocalCache, which gives the same entry an expiry.
CacheUser(t, u) ==
  /\ End(t, "addUser", u)
  /\ account' = account \cup {u}
  /\ accExp' = [accExp EXCEPT ![u] = now + Ttl]
  /\ added' = [added EXCEPT ![u] = now]
  /\ UNCHANGED <<now, expiry, session, cached, cacheExp, created, revoked, raced>>

\* removeUser: deleteUserFromRedis, which fails for an unknown account...
DeleteUser(t, u) ==
  /\ u \in account
  /\ Begin(t, "removeUser", u)
  /\ account' = account \ {u}
  /\ UNCHANGED <<now, expiry, session, caches, ghosts>>

\* ...then invalidateLocalCache.
DropUser(t, u) ==
  /\ End(t, "removeUser", u)
  /\ account' = account \ {u}
  /\ accExp' = [accExp EXCEPT ![u] = NoTime]
  /\ added' = [added EXCEPT ![u] = NoTime]
  /\ UNCHANGED <<now, expiry, session, cached, cacheExp, created, revoked, raced>>

-----------------------------------------------------------------------------
\* createSession: the expiry is std::time plus SESSION_TIMEOUT.count().
StoreSession(t, s) ==
  /\ created[s] = NoTime /\ ~Busy("createSession", s)
  /\ Begin(t, "createSession", s)
  /\ expiry' = [expiry EXCEPT ![s] = now + Hours]
  /\ session' = [session EXCEPT ![s] = now + Hours]
  /\ UNCHANGED <<now, account, caches, ghosts>>

\* The two clocks are read at different times and one in whole seconds, so
\* the two expiries of a session can lie a second apart.
CacheSession(t, s) ==
  /\ End(t, "createSession", s)
  /\ cached' = cached \cup {s}
  /\ \E skew \in 0..2 : cacheExp' = [cacheExp EXCEPT ![s] = (expiry[s] + skew) - 1]
  /\ created' = [created EXCEPT ![s] = now]
  /\ UNCHANGED <<now, expiry, redis, accExp, added, revoked, raced>>

\* What getFromLocalCache and getSessionFromRedis find.
InCache(s) == s \in cached /\ now <= cacheExp[s]
InRedis(s) == session[s] # NoTime /\ now <= session[s]
Validates(s) == InCache(s) \/ InRedis(s)

\* validateSession: a hit in the cache changes nothing; a hit in Redis...
ReadSession(t, s) ==
  /\ ~InCache(s) /\ InRedis(s) /\ created[s] # NoTime
  /\ Begin(t, "validateSession", s)
  /\ UNCHANGED <<now, expiry, redis, caches, ghosts>>

\* ...is then written to the cache.
RefreshSession(t, s) ==
  /\ End(t, "validateSession", s)
  /\ cached' = cached \cup {s}
  /\ cacheExp' = [cacheExp EXCEPT ![s] = now + Ttl]
  /\ UNCHANGED <<now, expiry, redis, accExp, ghosts>>

\* invalidateSession: deleteSessionFromRedis, then invalidateLocalCache.
DeleteSession(t, s) ==
  /\ created[s] # NoTime
  /\ Begin(t, "invalidateSession", s)
  /\ session' = [session EXCEPT ![s] = NoTime]
  /\ UNCHANGED <<now, expiry, account, caches, ghosts>>

\* Fault: only Redis is told.
DropSession_Keeps(t, s) ==
  /\ End(t, "invalidateSession", s)
  /\ revoked' = revoked \cup {s}
  /\ raced' = IF Busy("validateSession", s) THEN raced \cup {s} ELSE raced
  /\ UNCHANGED <<now, expiry, redis, caches, added, created>>

DropSession(t, s) ==
  /\ End(t, "invalidateSession", s)
  /\ cached' = cached \ {s}
  /\ cacheExp' = [cacheExp EXCEPT ![s] = NoTime]
  /\ revoked' = revoked \cup {s}
  /\ raced' = IF Busy("validateSession", s) THEN raced \cup {s} ELSE raced
  /\ UNCHANGED <<now, expiry, redis, accExp, added, created>>

-----------------------------------------------------------------------------
\* Fault: the expiry is compared one second too early.
Cleanup_Early ==
  LET old == {u \in User : accExp[u] # NoTime /\ now >= accExp[u]}
  IN  /\ account' = account \ old
      /\ accExp' = [u \in User |-> IF u \in old THEN NoTime ELSE accExp[u]]
      /\ session' = [s \in Sess |-> IF now >= session[s] THEN NoTime ELSE session[s]]
      /\ UNCHANGED <<now, cached, cacheExp, threads, ghosts>>

\* cleanupExpiredCache, every ten seconds: what has expired is erased from
\* userCache_, which for an account is all there is of it.
Cleanup ==
  LET old == {u \in User : accExp[u] # NoTime /\ now > accExp[u]}
      out == {s \in Sess : cacheExp[s] # NoTime /\ now > cacheExp[s]}
  IN  /\ account' = account \ old
      /\ accExp' = [u \in User |-> IF u \in old THEN NoTime ELSE accExp[u]]
      /\ cached' = cached \ out
      /\ cacheExp' = [s \in Sess |-> IF s \in out THEN NoTime ELSE cacheExp[s]]
      /\ session' = [s \in Sess |-> IF now > session[s] THEN NoTime ELSE session[s]]
      /\ UNCHANGED <<now, threads, ghosts>>

Tick ==
  /\ now < MaxTime
  /\ now' = now + 1
  /\ UNCHANGED <<redis, caches, threads, ghosts>>

UserOp(t, u) ==
  StoreUser(t, u) \/ CacheUser(t, u) \/ DeleteUser(t, u) \/ DropUser(t, u)

SessionOp(t, s) ==
  \/ StoreSession(t, s) \/ CacheSession(t, s) \/ ReadSession(t, s)
  \/ RefreshSession(t, s) \/ DeleteSession(t, s) \/ DropSession(t, s)

AuthNext ==
  \/ \E t \in Thread : (\E u \in User : UserOp(t, u)) \/ (\E s \in Sess : SessionOp(t, s))
  \/ Cleanup \/ Tick

AuthSpec == AuthInit /\ [][AuthNext]_avars

-----------------------------------------------------------------------------
(* What the manager promises.                                              *)

\* A session that has been revoked does not validate again, from whichever
\* of the two maps - unless a validation was in progress when it was revoked.
RevokedUnlessRaced == \A s \in revoked \ raced : ~Validates(s)

\* An account that was removed is gone, and one that was added is there for
\* the Ttl of its cache entry; in between only when an operation on it runs.
AccountsFollow ==
  \A u \in User :
    /\ u \in account => added[u] # NoTime \/ Busy("addUser", u)
    /\ added[u] # NoTime /\ now <= added[u] + Ttl
         => u \in account \/ Busy("removeUser", u)

\* A session validates until the expiry that createSession has computed for
\* it, whatever the cleanup does, unless it is revoked.
SessionLasts ==
  \A s \in Sess : /\ created[s] # NoTime /\ now <= expiry[s]
                  /\ s \notin revoked /\ ~Busy("invalidateSession", s)
                  => Validates(s)

\* What the maps of expiries have for a living account, or session: the one
\* that was computed, until the cleanup has found it over.
ExpiriesKept ==
  /\ \A u \in User : added[u] # NoTime =>
       accExp[u] = added[u] + Ttl \/ (accExp[u] = NoTime /\ now > added[u] + Ttl)
  /\ \A s \in Sess : created[s] # NoTime => expiry[s] # NoTime
  /\ \A s \in Sess :
       expiry[s] # NoTime /\ s \notin revoked /\ ~Busy("invalidateSession", s) =>
         session[s] = expiry[s] \/ (session[s] = NoTime /\ now > expiry[s])

\* What a thread in the middle of an operation on x can rely on.
InProgress ==
  \A t \in Thread :
    /\ at[t] \in {"addUser", "removeUser"} => arg[t] \in User
    /\ at[t] \in {"createSession", "validateSession", "invalidateSession"} => arg[t] \in Sess
    /\ at[t] = "createSession" =>
         /\ created[arg[t]] = NoTime /\ expiry[arg[t]] \in 1..(MaxTime + Hours)
         /\ \A r \in Thread : at[r] = "createSession" /\ arg[r] = arg[t] => r = t
    /\ at[t] \in {"validateSession", "invalidateSession"} => created[arg[t]] # NoTime
    /\ at[t] = "invalidateSession" => session[arg[t]] = NoTime

\* A revoked session is in neither map, nor about to be written to one.
RevokedIsGone ==
  /\ \A s \in revoked : session[s] = NoTime /\ created[s] # NoTime
  /\ \A s \in revoked \ raced : s \notin cached /\ ~Busy("validateSession", s)

\* The strengthening that every step preserves.
AuthInv ==
  AuthTypeOK /\ AccountsFollow /\ ExpiriesKept /\ InProgress /\ RevokedIsGone
=============================================================================
