-------------------------------- MODULE Sessions --------------------------------
(***************************************************************************)
(* Logging in, refreshing a token, authenticating a request, logging out,  *)
(* and the support's and the managers' calls that bear on them.  The       *)
(* sessions live in three places: Redis, which may be away, the memory of  *)
(* the API process, which a restart empties, and the database.             *)
(*                                                                         *)
(* at[c] is the await at which call c stands, arg[c] what it has read.     *)
(* Tokens are signed in pairs, an access and a refresh token; a pair is    *)
(* its number.  Times are the steps in which something expires.            *)
(***************************************************************************)
EXTENDS Naturals

CONSTANTS
  SCalls,      \* concurrent HTTP requests
  SUsers,
  MaxFails,    \* LOGIN_MAX_ATTEMPTS
  MaxPairs,    \* bound: pairs of tokens that are signed
  MaxSCalls,   \* bound: calls that are made, by whether they may overlap
  NoOne        \* null

ASSUME SessionsAssumption ==
  SCalls # {} /\ MaxFails \in Nat \ {0} /\ MaxPairs \in Nat
  /\ MaxSCalls \in [BOOLEAN -> Nat]
  /\ NoOne \notin Nat \cup BOOLEAN \cup SUsers

VARIABLES
  soverlap,   \* may calls overlap?
  up,         \* does Redis answer?
  redis,      \* its keys
  memory,     \* memoryBlacklist and the cache of authUserCache, of the process
  account,    \* account[u]: the User row and the roles and types behind its rights
  owner,      \* owner[p]: whose pair p is; a pair not signed yet is nobody's
  masters,    \* pairs signed for a developer who logged in as somebody
  held,       \* pairs that a client has been given
  sat, sarg, smade,
  exchanged,  \* pairs that were exchanged for another
  latest,     \* latest[u]: the pair u was last given since he last logged out
  strikes,    \* strikes[n]: failures with name n since the last success or pardon
  aged,       \* users whose master mark has expired
  doubtful,   \* users whose cached account may have been overtaken for good: see Doubted
  missed,     \* has a call run while Redis was away, or a key been lost?
  restarted   \* has the process restarted?

history == <<exchanged, latest, strikes, aged, doubtful, missed, restarted>>
svars == <<soverlap, up, redis, memory, account, owner, masters, held, sat, sarg, smade, history>>

Pairs == 1..MaxPairs

\* An account is found by its NIK or its e-mail; each has its own lock.
Names == SUsers \X {"nik", "email"}

SNoArg == [user |-> NoOne, name |-> NoOne, pair |-> NoOne, new |-> NoOne, then |-> "",
           good |-> FALSE, master |-> FALSE, rights |-> FALSE, late |-> FALSE]

SessionsInit ==
  /\ soverlap \in BOOLEAN /\ up = TRUE
  /\ redis = [session |-> [u \in SUsers |-> NoOne],  \* refresh:active:u
              banned  |-> {},                        \* jwt:blacklist:jti
              fails   |-> [n \in Names |-> 0],       \* login:fail:n
              locked  |-> {},                        \* login:lock:n
              master  |-> {},                        \* session:master:u
              online  |-> {}]                        \* presence:online:u
  /\ memory = [banned |-> {}, user |-> [u \in SUsers |-> NoOne], online |-> {}]
  /\ account = [u \in SUsers |-> [active |-> TRUE, rights |-> FALSE]]
  /\ owner = [p \in Pairs |-> NoOne] /\ masters = {} /\ held = {}
  /\ sat = [c \in SCalls |-> "idle"] /\ sarg = [c \in SCalls |-> SNoArg] /\ smade = 0
  /\ exchanged = {} /\ latest = [u \in SUsers |-> NoOne]
  /\ strikes = [n \in Names |-> 0] /\ aged = {} /\ doubtful = {} /\ missed = FALSE
  /\ restarted = FALSE
------------------------------------------------------------------------------
AllIdle == \A c \in SCalls : sat[c] = "idle"

SStart(c, next, args) ==
  /\ sat[c] = "idle" /\ smade < MaxSCalls[soverlap]
  /\ soverlap \/ AllIdle
  /\ sat' = [sat EXCEPT ![c] = next] /\ sarg' = [sarg EXCEPT ![c] = args]
  /\ smade' = smade + 1
  /\ UNCHANGED <<soverlap, up, redis, memory, account, owner, masters, held, history>>

\* A step of call c; a step that Redis misses is remembered.
SGo(c, from, next) ==
  /\ sat[c] = from
  /\ sat' = [sat EXCEPT ![c] = next]
  /\ sarg' = IF next = "idle" THEN [sarg EXCEPT ![c] = SNoArg] ELSE sarg
  /\ missed' = (missed \/ ~up)
  /\ UNCHANGED <<soverlap, up, account, smade, aged, doubtful, restarted>>

Tokens == <<memory, owner, masters, held, exchanged, latest>>

Hit(n) == up /\ n \in redis.locked

\* What Redis holds after a write; a write is lost while it is away.
Stored(key, value) == redis' = IF up THEN [redis EXCEPT ![key] = value] ELSE redis
------------------------------------------------------------------------------
(* login *)
Login(c, u, n, good, master) ==
  /\ n[1] = u
  /\ SStart(c, IF master THEN "find" ELSE "lock?",
            [SNoArg EXCEPT !.user = u, !.name = n, !.good = good, !.master = master])

\* isLoginLocked
LoginLocked(c) ==
  /\ SGo(c, "lock?", IF Hit(sarg[c].name) THEN "idle" ELSE "find")
  /\ UNCHANGED <<redis, Tokens, strikes>>

LoginFind(c) ==
  /\ LET a == sarg[c]
     IN SGo(c, "find", IF account[a.user].active /\ (a.good \/ a.master)
                       THEN "clear" ELSE "count")
  /\ UNCHANGED <<redis, Tokens, strikes>>

\* recordLoginFailure
LoginCount(c) ==
  LET n == sarg[c].name
      fails == redis.fails[n] + 1
  IN /\ SGo(c, "count", IF up /\ fails >= MaxFails THEN "bar" ELSE "idle")
     /\ Stored("fails", [redis.fails EXCEPT ![n] = fails])
     /\ strikes' = [strikes EXCEPT ![n] = @ + 1]
     /\ UNCHANGED Tokens

LoginBar(c) ==
  /\ SGo(c, "bar", "idle")
  /\ Stored("locked", redis.locked \cup {sarg[c].name})
  /\ UNCHANGED <<Tokens, strikes>>

\* Mutant: the counter is deleted, and the lock is left to expire.
PardonedCount(n) ==
  /\ redis' = IF up THEN [redis EXCEPT !.fails[n] = 0] ELSE redis
  /\ strikes' = [strikes EXCEPT ![n] = 0]

\* clearLoginFailures: both keys in one DEL
Pardoned(n) ==
  /\ redis' = IF up THEN [redis EXCEPT !.fails[n] = 0, !.locked = @ \ {n}] ELSE redis
  /\ strikes' = [strikes EXCEPT ![n] = 0]

LoginClear(c) ==
  /\ SGo(c, "clear", "issue") /\ Pardoned(sarg[c].name)
  /\ UNCHANGED Tokens
------------------------------------------------------------------------------
(* issueTokenPair signs the next pair and registers it as the session.     *)
Unsigned == {p \in Pairs : owner[p] = NoOne}

Issue(c, next) ==
  \E p \in Unsigned :
    /\ \A q \in Unsigned : p <= q
    /\ sat[c] = "issue"
    /\ sat' = [sat EXCEPT ![c] = next] /\ sarg' = [sarg EXCEPT ![c].new = p]
    /\ owner' = [owner EXCEPT ![p] = sarg[c].user]
    /\ masters' = IF sarg[c].master THEN masters \cup {p} ELSE masters
    /\ Stored("session", [redis.session EXCEPT ![sarg[c].user] = p])
    /\ missed' = (missed \/ ~up)
    /\ UNCHANGED <<soverlap, up, memory, account, held, smade, exchanged, latest,
                   strikes, aged, doubtful, restarted>>

\* The response: the client has the pair of the call from now on.
Given(c) ==
  /\ held' = held \cup {sarg[c].new}
  /\ latest' = [latest EXCEPT ![sarg[c].user] = sarg[c].new]

LoginIssue(c) == sarg[c].then = "" /\ Issue(c, "mark")

\* markMasterSession, or clearMasterSessionMark and recordUserPresence
LoginMark(c) ==
  LET a == sarg[c]
      user == IF a.master THEN {} ELSE {a.user}
  IN /\ sat[c] = "mark" /\ sat' = [sat EXCEPT ![c] = "idle"]
     /\ Given(c) /\ sarg' = [sarg EXCEPT ![c] = SNoArg]
     /\ redis' = IF up THEN [redis EXCEPT !.master = (@ \cup {a.user}) \ user,
                                          !.online = @ \cup user]
                 ELSE redis
     /\ memory' = [memory EXCEPT !.online = @ \cup user]
     /\ aged' = aged \ {a.user} /\ missed' = (missed \/ ~up)
     /\ UNCHANGED <<soverlap, up, account, owner, masters, smade, exchanged, strikes,
                    doubtful, restarted>>
------------------------------------------------------------------------------
(* refreshAccessToken(p), and what authenticate does before any request:    *)
(* then is what follows the user's resolution.                             *)
Refresh(c, p) ==
  /\ p \in held
  /\ SStart(c, "banned?", [SNoArg EXCEPT !.user = owner[p], !.pair = p, !.then = "give",
                                          !.late = (p \in exchanged),
                                          !.master = (p \in masters)])

Request(c, p) ==
  /\ p \in held
  /\ SStart(c, "banned?", [SNoArg EXCEPT !.user = owner[p], !.pair = p, !.then = "answer"])

\* POST /me/presence; a master's token is not counted.
Heartbeat(c, p) ==
  /\ p \in held
  /\ SStart(c, "banned?", [SNoArg EXCEPT !.user = owner[p], !.pair = p, !.then = "beat",
                                          !.master = (p \in masters)])

Logout(c, p) ==
  /\ p \in held
  /\ SStart(c, "banned?", [SNoArg EXCEPT !.user = owner[p], !.pair = p, !.then = "logout"])

Kind(c) == IF sarg[c].then = "give" THEN "refresh" ELSE "access"

\* isTokenBlacklisted
Banned(token) == token \in memory.banned \/ (up /\ token \in redis.banned)

CheckBanned(c) ==
  /\ SGo(c, "banned?", IF Banned(<<Kind(c), sarg[c].pair>>) THEN "idle"
                       ELSE IF Kind(c) = "refresh" THEN "session?" ELSE "cached?")
  /\ UNCHANGED <<redis, Tokens, strikes>>

\* Mutant: any session of the user is good.
SessionThere(u, p) == up => redis.session[u] # NoOne

\* isRefreshSessionValid
SessionValid(u, p) == up => redis.session[u] = p

CheckSession(c) ==
  /\ SGo(c, "session?", IF SessionValid(sarg[c].user, sarg[c].pair) THEN "active?" ELSE "idle")
  /\ UNCHANGED <<redis, Tokens, strikes>>

CheckActive(c) ==
  /\ SGo(c, "active?", IF account[sarg[c].user].active THEN "ban" ELSE "idle")
  /\ UNCHANGED <<redis, Tokens, strikes>>

\* Mutant: the token is banned in Redis only.
BanInRedis(c) ==
  /\ Stored("banned", redis.banned \cup {<<Kind(c), sarg[c].pair>>})
  /\ UNCHANGED memory

\* blacklistToken of the token at hand, in the memory and in Redis
Ban(c) ==
  LET token == <<Kind(c), sarg[c].pair>>
  IN /\ memory' = [memory EXCEPT !.banned = @ \cup {token}]
     /\ Stored("banned", redis.banned \cup {token})

BanRefresh(c) ==
  /\ sarg[c].then = "give"
  /\ SGo(c, "ban", "issue") /\ Ban(c)
  /\ exchanged' = exchanged \cup {sarg[c].pair}
  /\ UNCHANGED <<owner, masters, held, latest, strikes>>

RefreshIssue(c) == sarg[c].then = "give" /\ Issue(c, "cached?")

\* What follows resolveAuthUser; a request's own work is not modelled.
AfterUser(c) == CASE sarg[c].then = "logout" -> "end"
                  [] sarg[c].then = "beat" /\ ~sarg[c].master -> "beat"
                  [] OTHER -> "idle"

Answered(c) == IF sarg[c].then = "give" THEN Given(c) ELSE UNCHANGED <<held, latest>>

\* resolveAuthUser: a cached user is good without another look at the account.
ResolveCached(c) ==
  /\ sat[c] = "cached?" /\ memory.user[sarg[c].user] # NoOne
  /\ SGo(c, "cached?", AfterUser(c)) /\ Answered(c)
  /\ UNCHANGED <<redis, memory, owner, masters, exchanged, strikes>>

\* The account is read, and the cache filled after further awaits.
ResolveRead(c) ==
  LET a == account[sarg[c].user]
  IN /\ sat[c] = "cached?" /\ memory.user[sarg[c].user] = NoOne
     /\ sat' = [sat EXCEPT ![c] = IF a.active THEN "fill" ELSE "idle"]
     /\ sarg' = [sarg EXCEPT ![c] = IF a.active THEN [@ EXCEPT !.rights = a.rights]
                                                ELSE SNoArg]
     /\ missed' = (missed \/ ~up)
     /\ UNCHANGED <<soverlap, up, account, smade, aged, doubtful, restarted, redis, Tokens, strikes>>

ResolveFill(c) ==
  /\ SGo(c, "fill", AfterUser(c)) /\ Answered(c)
  /\ memory' = [memory EXCEPT !.user[sarg[c].user] = [rights |-> sarg[c].rights]]
  /\ UNCHANGED <<redis, owner, masters, exchanged, strikes>>

\* recordUserPresence; a login that is not a master's does the same.
Beat(c) ==
  /\ SGo(c, "beat", "idle")
  /\ memory' = [memory EXCEPT !.online = @ \cup {sarg[c].user}]
  /\ Stored("online", redis.online \cup {sarg[c].user})
  /\ UNCHANGED <<owner, masters, held, exchanged, latest, strikes>>

\* logout: whatever session the user has is cleared.
LogoutClear(c) ==
  /\ SGo(c, "end", "ban")
  /\ Stored("session", [redis.session EXCEPT ![sarg[c].user] = NoOne])
  /\ latest' = [latest EXCEPT ![sarg[c].user] = NoOne]
  /\ UNCHANGED <<memory, owner, masters, held, exchanged, strikes>>

LogoutBan(c) ==
  /\ sarg[c].then = "logout"
  /\ SGo(c, "ban", "idle") /\ Ban(c)
  /\ UNCHANGED <<owner, masters, held, exchanged, latest, strikes>>
------------------------------------------------------------------------------
(* The calls of others.                                                     *)

\* A resolution of u has read the account, and will fill the cache.
Resolving(u) == \E c \in SCalls : sat[c] = "fill" /\ sarg[c].user = u

\* The doubtful users after the cached account of u is dropped: a fill under
\* way puts back what it read.
Doubted(u) == IF Resolving(u) THEN doubtful \cup {u} ELSE doubtful \ {u}

\* Calls that change the account in one write and leave the cache alone.
LeaveCache(c, u) ==
  /\ sat[c] = "idle" /\ smade < MaxSCalls[soverlap] /\ (soverlap \/ AllIdle)
  /\ doubtful' = IF memory.user[u] # NoOne \/ Resolving(u) THEN doubtful \cup {u} ELSE doubtful
  /\ smade' = smade + 1
  /\ UNCHANGED <<soverlap, up, redis, memory, owner, masters, held, sat, sarg,
                 exchanged, latest, strikes, aged, missed, restarted>>

\* deactivateUser and reactivateUser; of deleteUserPermanently and the purges,
\* what they are to a token.
SetUserActive(c, u) ==
  LeaveCache(c, u) /\ account' = [account EXCEPT ![u].active = ~@]

\* updateEmployeeType: the type decides permissions and branches.
UpdateEmployeeType(c, u) ==
  LeaveCache(c, u) /\ account' = [account EXCEPT ![u].rights = ~@]

\* A change of role or branches, of a role's permissions or of what a type may
\* do is committed, then the users it concerns are dropped from the cache.
ChangeRights(c, u) ==
  /\ sat[c] = "idle" /\ smade < MaxSCalls[soverlap] /\ (soverlap \/ AllIdle)
  /\ account' = [account EXCEPT ![u].rights = ~@]
  /\ sat' = [sat EXCEPT ![c] = "forget"] /\ sarg' = [sarg EXCEPT ![c].user = u]
  /\ smade' = smade + 1
  /\ UNCHANGED <<soverlap, up, redis, memory, owner, masters, held, history>>

\* A change of rights ends.
Dropping(c) ==
  /\ sat[c] = "forget" /\ sat' = [sat EXCEPT ![c] = "idle"]
  /\ sarg' = [sarg EXCEPT ![c] = SNoArg]
  /\ doubtful' = Doubted(sarg[c].user) /\ missed' = (missed \/ ~up)
  /\ UNCHANGED <<soverlap, up, redis, account, owner, masters, held, smade, exchanged,
                 latest, strikes, aged, restarted>>

\* Mutant: the cache is left to expire.
ForgetNobody(c) == Dropping(c) /\ UNCHANGED memory

\* invalidateAuthUserCache
Forget(c) ==
  /\ Dropping(c)
  /\ memory' = [memory EXCEPT !.user[sarg[c].user] = NoOne]

\* unlockDeveloperSupportLogin: first the NIK, then the e-mail
Unlock(c, u) == SStart(c, "nik", [SNoArg EXCEPT !.user = u])

UnlockNik(c) ==
  /\ SGo(c, "nik", "email") /\ Pardoned(<<sarg[c].user, "nik">>) /\ UNCHANGED Tokens

UnlockEmail(c) ==
  /\ SGo(c, "email", "idle") /\ Pardoned(<<sarg[c].user, "email">>) /\ UNCHANGED Tokens
------------------------------------------------------------------------------
(* The environment.                                                         *)

\* Redis goes away, with or without its keys, and comes back.
Outage(kept) ==
  /\ up /\ up' = FALSE
  /\ redis' = IF kept THEN redis
              ELSE [session |-> [u \in SUsers |-> NoOne], banned |-> {},
                    fails |-> [n \in Names |-> 0], locked |-> {}, master |-> {}, online |-> {}]
  /\ missed' = (missed \/ ~kept \/ ~AllIdle)
  /\ UNCHANGED <<soverlap, memory, account, owner, masters, held, sat, sarg, smade, exchanged,
                 latest, strikes, aged, doubtful, restarted>>

Back ==
  /\ ~up /\ up' = TRUE
  /\ missed' = (missed \/ ~AllIdle)
  /\ UNCHANGED <<soverlap, redis, memory, account, owner, masters, held, sat, sarg, smade,
                 exchanged, latest, strikes, aged, doubtful, restarted>>

\* The process dies with its calls and its memory.
Restart ==
  /\ ~restarted /\ restarted' = TRUE
  /\ memory' = [banned |-> {}, user |-> [u \in SUsers |-> NoOne], online |-> {}]
  /\ sat' = [c \in SCalls |-> "idle"] /\ sarg' = [c \in SCalls |-> SNoArg]
  /\ doubtful' = {}
  /\ UNCHANGED <<soverlap, up, redis, account, owner, masters, held, smade, exchanged, latest,
                 strikes, aged, missed>>

\* LOGIN_LOCK_SEC pass without a failure: the counter goes, then the lock,
\* which was set after it.
LockExpires(n) ==
  /\ redis.fails[n] > 0 \/ n \in redis.locked
  /\ redis' = [redis EXCEPT !.fails[n] = 0, !.locked = @ \ {n}]
  /\ strikes' = [strikes EXCEPT ![n] = 0]
  /\ AllIdle
  /\ UNCHANGED <<soverlap, up, account, sat, sarg, smade, Tokens, aged, doubtful, missed, restarted>>

\* AUTH_CACHE_MS pass
CacheExpires(u) ==
  /\ memory.user[u] # NoOne
  /\ memory' = [memory EXCEPT !.user[u] = NoOne] /\ doubtful' = Doubted(u)
  /\ UNCHANGED <<soverlap, up, redis, account, owner, masters, held, sat, sarg, smade,
                 exchanged, latest, strikes, aged, missed, restarted>>

\* PRESENCE_TTL_SEC pass without a heartbeat
PresenceExpires(u) ==
  /\ u \in memory.online \cup redis.online
  /\ memory' = [memory EXCEPT !.online = @ \ {u}]
  /\ redis' = [redis EXCEPT !.online = @ \ {u}]
  /\ UNCHANGED <<soverlap, up, account, owner, masters, held, sat, sarg, smade, history>>

\* REFRESH_TTL_SEC pass after a master's login; a refresh renews the session
\* and not the mark.
MarkExpires(u) ==
  /\ u \in redis.master
  /\ redis' = [redis EXCEPT !.master = @ \ {u}]
  /\ aged' = aged \cup {u}
  /\ UNCHANGED <<soverlap, up, memory, account, owner, masters, held, sat, sarg, smade,
                 exchanged, latest, strikes, doubtful, missed, restarted>>

\* getDeveloperSupportLoginLock: what support reads of the locks of u's two
\* names; without Redis there are none.
LockShown(u) ==
  up /\ \E kind \in {"nik", "email"} : <<u, kind>> \in redis.locked

\* Mutant: sessions are listed whoever's they are.
OverviewOfAll(u) ==
  LET hidden == up /\ u \in redis.master
      online == IF up THEN redis.online ELSE memory.online
      shown == u \in online /\ ~hidden
  IN CASE shown -> "online"
       [] ~shown /\ up /\ redis.session[u] # NoOne -> "idle"
       [] OTHER -> "offline"

\* What the developer's overview says of u.
Overview(u) ==
  LET hidden == up /\ u \in redis.master
      online == IF up THEN redis.online ELSE memory.online
  IN CASE ~hidden /\ u \in online -> "online"
       [] ~hidden /\ u \notin online /\ up /\ redis.session[u] # NoOne -> "idle"
       [] OTHER -> "offline"

SessionsNext ==
  \/ \E c \in SCalls :
       \/ \E u \in SUsers :
            \/ \E n \in Names, good \in BOOLEAN, master \in BOOLEAN : Login(c, u, n, good, master)
            \/ SetUserActive(c, u)
            \/ UpdateEmployeeType(c, u)
            \/ ChangeRights(c, u)
            \/ Unlock(c, u)
       \/ \E p \in Pairs : Refresh(c, p) \/ Request(c, p) \/ Heartbeat(c, p) \/ Logout(c, p)
       \/ LoginLocked(c)
       \/ LoginFind(c)
       \/ LoginCount(c)
       \/ LoginBar(c)
       \/ LoginClear(c)
       \/ LoginIssue(c)
       \/ LoginMark(c)
       \/ CheckBanned(c)
       \/ CheckSession(c)
       \/ CheckActive(c)
       \/ BanRefresh(c)
       \/ RefreshIssue(c)
       \/ ResolveCached(c)
       \/ ResolveRead(c)
       \/ ResolveFill(c)
       \/ Beat(c)
       \/ LogoutClear(c)
       \/ LogoutBan(c)
       \/ Forget(c)
       \/ UnlockNik(c)
       \/ UnlockEmail(c)
  \/ \E kept \in BOOLEAN : Outage(kept)
  \/ Back
  \/ Restart
  \/ \E n \in Names : LockExpires(n)
  \/ \E u \in SUsers : CacheExpires(u) \/ PresenceExpires(u) \/ MarkExpires(u)

SessionsSpec == SessionsInit /\ [][SessionsNext]_svars
------------------------------------------------------------------------------
(* Properties                                                               *)

\* However calls overlap, a refresh that begins after its token was exchanged
\* is refused: Redis knows the token and the session, and while Redis is away
\* the memory of the process knows the token.  Both are lost only when the
\* process restarts and Redis was away (tokenSecurityService.ts:39-52).
RefreshOnce ==
  ~(restarted /\ missed) =>
    \A c \in SCalls :
      sarg[c].late => sat[c] \notin {"ban", "issue", "cached?", "fill"}

\* One call at a time and no call without Redis: the refresh tokens that
\* would be accepted are those of each user's latest pair, unless a call died
\* before it answered, and none after a logout (authService.ts:405-443).
OnlyLatestRefreshes ==
  ~soverlap /\ ~missed /\ up /\ AllIdle =>
    \A p \in held :
      SessionValid(owner[p], p) /\ ~Banned(<<"refresh", p>>) => p = latest[owner[p]]

\* One call at a time and no call without Redis: a name is locked exactly
\* after MaxFails failures in a row, and no success, no support unlock and no
\* pause has come since, and support is shown the lock of either name
\* (tokenSecurityService.ts:62-73, 100-105, branchUserService.ts:448-482).
LockedAfterStrikes ==
  ~soverlap /\ ~missed /\ ~restarted /\ AllIdle =>
    /\ \A n \in Names : n \in redis.locked <=> strikes[n] >= MaxFails
    /\ up => \A u \in SUsers :
         LockShown(u) <=> \E kind \in {"nik", "email"} : strikes[<<u, kind>>] >= MaxFails

\* However calls overlap, and through restarts: once a change of rights that
\* drops the user from the cache has returned, no request works with what it
\* replaced, unless a resolution that had read the account before filled the
\* cache after it, or a type was set or an account put away since, which leave
\* the cache to expire (authUserCache.ts:16, authService.ts:478-535,
\* roleService.ts:146-152, organizationConfigService.ts:975).
RightsAreCurrent ==
  \A u \in SUsers \ doubtful :
    memory.user[u] # NoOne /\ (\A c \in SCalls : sat[c] = "forget" => sarg[c].user # u) =>
      account[u].active /\ memory.user[u].rights = account[u].rights

\* One call at a time and no call without Redis: while the session of an
\* account is a developer's, the overview does not show its user as logged
\* in ("tidak ikut presence/online tracking", authService.ts:62), until the
\* mark expires, which a refresh does not renew (authService.ts:436).
MasterIsHidden ==
  ~soverlap /\ ~missed /\ up /\ AllIdle =>
    \A u \in SUsers \ aged :
      redis.session[u] \in masters \cap held => Overview(u) = "offline"
==============================================================================
