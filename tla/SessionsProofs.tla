----------------------------- MODULE SessionsProofs -----------------------------
(* However calls overlap, whatever becomes of Redis, and also after a      *)
(* restart: a token that was exchanged is not exchanged again.  And while   *)
(* calls do not overlap: sessions, locks and what support is shown of them  *)
(* agree with what has happened.  The cached rights are those of the        *)
(* account however calls overlap, but for the users who are in doubt.       *)
EXTENDS Sessions, TLAPS

\* What a call holds.
IsArg(a) ==
  a = [user |-> a.user, name |-> a.name, pair |-> a.pair, new |-> a.new, then |-> a.then,
       good |-> a.good, master |-> a.master, rights |-> a.rights, late |-> a.late]

Forms ==
  /\ redis = [session |-> redis.session, banned |-> redis.banned, fails |-> redis.fails,
              locked |-> redis.locked, master |-> redis.master, online |-> redis.online]
  /\ memory = [banned |-> memory.banned, user |-> memory.user, online |-> memory.online]
  /\ sat = [c \in SCalls |-> sat[c]] /\ sarg = [c \in SCalls |-> sarg[c]]
  /\ \A c \in SCalls : IsArg(sarg[c])
  /\ restarted \in BOOLEAN /\ missed \in BOOLEAN

\* Nothing is left that knows the tokens of before.
Forgotten == restarted /\ missed

\* The tokens that were exchanged are known to the memory of a process that has
\* not restarted, and to a Redis that has missed nothing.
ExchangedIsBanned ==
  \A p \in exchanged : /\ ~restarted => <<"refresh", p>> \in memory.banned
                       /\ ~missed => <<"refresh", p>> \in redis.banned

\* A late refresh has not come past the first check.
LateIsStopped(c) ==
  sarg[c].late =>
    /\ sarg[c].pair \in exchanged /\ sarg[c].then = "give" /\ sat[c] # "idle"
    /\ ~Forgotten => sat[c] = "banned?"

RInv == Forms /\ ExchangedIsBanned /\ \A c \in SCalls : LateIsStopped(c)

\* A step of one call keeps what the others hold.
LEMMA CallKeeps ==
  ASSUME RInv, NEW c \in SCalls,
         sat' = [sat EXCEPT ![c] = sat'[c]], sarg' = [sarg EXCEPT ![c] = sarg'[c]],
         Forms', ExchangedIsBanned', LateIsStopped(c)',
         exchanged \subseteq exchanged', restarted' = restarted, missed => missed'
  PROVE  RInv'
<1>1. ASSUME NEW d \in SCalls PROVE LateIsStopped(d)'
  <2>1. CASE d = c BY <2>1
  <2>2. CASE d # c
    <3>1. sat'[d] = sat[d] /\ sarg'[d] = sarg[d] BY <2>2 DEF RInv, Forms
    <3> QED BY <3>1 DEF RInv, LateIsStopped, Forgotten
  <2> QED BY <2>1, <2>2
<1> QED BY <1>1 DEF RInv

\* What the stores know is kept by a step that forgets nothing of it.
LEMMA BansKeep ==
  ASSUME RInv, memory.banned \subseteq memory'.banned, exchanged' = exchanged,
         ~missed' => ~missed /\ redis.banned \subseteq redis'.banned,
         restarted' = restarted
  PROVE  ExchangedIsBanned'
BY DEF RInv, ExchangedIsBanned

\* What remains of a call when it goes on: it is not late, unless it was.
LEMMA GoKeeps ==
  ASSUME RInv, NEW c \in SCalls, NEW from, NEW next, from # "banned?", SGo(c, from, next),
         exchanged \subseteq exchanged',
         redis' = [session |-> redis'.session, banned |-> redis'.banned, fails |-> redis'.fails,
                   locked |-> redis'.locked, master |-> redis'.master, online |-> redis'.online],
         memory' = [banned |-> memory'.banned, user |-> memory'.user, online |-> memory'.online],
         ExchangedIsBanned'
  PROVE  RInv'
<1>1. /\ sat' = [sat EXCEPT ![c] = next] /\ sat[c] = from
      /\ sarg' = IF next = "idle" THEN [sarg EXCEPT ![c] = SNoArg] ELSE sarg
      /\ restarted' = restarted /\ (missed => missed') /\ missed' \in BOOLEAN
  BY DEF SGo, RInv, Forms
<1>2. sat'[c] = next /\ sarg'[c] = IF next = "idle" THEN SNoArg ELSE sarg[c]
  BY <1>1 DEF RInv, Forms
<1>3. sat' = [sat EXCEPT ![c] = sat'[c]] /\ sarg' = [sarg EXCEPT ![c] = sarg'[c]]
  BY <1>1, <1>2 DEF RInv, Forms
<1>4. IsArg(SNoArg) /\ ~SNoArg.late BY DEF SNoArg, IsArg
<1>5. Forms'
  <2>1. \A d \in SCalls : IsArg(sarg'[d]) BY <1>2, <1>3, <1>4 DEF RInv, Forms
  <2>2. sat' = [d \in SCalls |-> sat'[d]] /\ sarg' = [d \in SCalls |-> sarg'[d]]
    BY <1>3 DEF RInv, Forms
  <2> QED BY <1>1, <2>1, <2>2 DEF RInv, Forms, IsArg
<1>6. LateIsStopped(c)'
  <2>1. CASE next = "idle" BY <1>2, <1>4, <2>1 DEF LateIsStopped
  <2>2. CASE next # "idle" BY <1>1, <1>2, <2>2 DEF LateIsStopped, RInv, Forgotten
  <2> QED BY <2>1, <2>2
<1> QED BY <1>1, <1>3, <1>5, <1>6, CallKeeps

\* A step that leaves the bans alone, whatever else it writes, keeps them.
RedisBans ==
  redis' = [session |-> redis'.session, banned |-> redis.banned, fails |-> redis'.fails,
            locked |-> redis'.locked, master |-> redis'.master, online |-> redis'.online]
MemoryBans ==
  memory' = [banned |-> memory.banned, user |-> memory'.user, online |-> memory'.online]

LEMMA QuietGoKeeps ==
  ASSUME RInv, NEW c \in SCalls, NEW from, NEW next, from # "banned?", SGo(c, from, next),
         RedisBans, MemoryBans, exchanged' = exchanged
  PROVE  RInv'
<1>1. redis'.banned = redis.banned /\ memory'.banned = memory.banned BY DEF RedisBans, MemoryBans
<1>2. ExchangedIsBanned' BY <1>1, BansKeep DEF SGo
<1> QED BY <1>1, <1>2, GoKeeps DEF RedisBans, MemoryBans

LEMMA LoginKeeps ==
  ASSUME RInv, NEW c \in SCalls,
         LoginLocked(c) \/ LoginFind(c) \/ LoginCount(c) \/ LoginBar(c) \/ LoginClear(c)
  PROVE  RInv'
<1>1. MemoryBans /\ exchanged' = exchanged
  BY DEF LoginLocked, LoginFind, LoginCount, LoginBar, LoginClear, Tokens, MemoryBans, RInv, Forms
<1>2. CASE LoginLocked(c) \/ LoginFind(c)
  <2>1. RedisBans BY <1>2 DEF LoginLocked, LoginFind, RedisBans, RInv, Forms
  <2> QED BY <1>1, <1>2, <2>1, QuietGoKeeps DEF LoginLocked, LoginFind
<1>3. CASE LoginCount(c)
  <2>1. RedisBans BY <1>3 DEF LoginCount, Stored, RedisBans, RInv, Forms
  <2> QED BY <1>1, <1>3, <2>1, QuietGoKeeps DEF LoginCount
<1>4. CASE LoginBar(c)
  <2>1. RedisBans BY <1>4 DEF LoginBar, Stored, RedisBans, RInv, Forms
  <2> QED BY <1>1, <1>4, <2>1, QuietGoKeeps DEF LoginBar
<1>5. CASE LoginClear(c)
  <2>1. RedisBans BY <1>5 DEF LoginClear, Pardoned, RedisBans, RInv, Forms
  <2> QED BY <1>1, <1>5, <2>1, QuietGoKeeps DEF LoginClear
<1> QED BY <1>2, <1>3, <1>4, <1>5

LEMMA PassKeeps ==
  ASSUME RInv, NEW c \in SCalls,
         CheckSession(c) \/ CheckActive(c) \/ ResolveCached(c) \/ ResolveFill(c)
           \/ LogoutClear(c) \/ UnlockNik(c) \/ UnlockEmail(c) \/ Beat(c)
  PROVE  RInv'
<1>1. exchanged' = exchanged
  BY DEF CheckSession, CheckActive, ResolveCached, ResolveFill, LogoutClear,
         UnlockNik, UnlockEmail, Beat, Tokens
<1>2. CASE CheckSession(c) \/ CheckActive(c) \/ ResolveCached(c)
  <2>1. MemoryBans /\ RedisBans
    BY <1>2 DEF CheckSession, CheckActive, ResolveCached, Tokens, MemoryBans, RedisBans, RInv, Forms
  <2> QED BY <1>1, <1>2, <2>1, QuietGoKeeps DEF CheckSession, CheckActive, ResolveCached
<1>3. CASE ResolveFill(c)
  <2>1. MemoryBans /\ RedisBans
    BY <1>3 DEF ResolveFill, MemoryBans, RedisBans, RInv, Forms
  <2> QED BY <1>1, <1>3, <2>1, QuietGoKeeps DEF ResolveFill
<1>4. CASE LogoutClear(c) \/ Beat(c)
  <2>1. MemoryBans /\ RedisBans
    BY <1>4 DEF LogoutClear, Beat, Stored, MemoryBans, RedisBans, RInv, Forms
  <2> QED BY <1>1, <1>4, <2>1, QuietGoKeeps DEF LogoutClear, Beat
<1>5. CASE UnlockNik(c) \/ UnlockEmail(c)
  <2>1. MemoryBans /\ RedisBans
    BY <1>5 DEF UnlockNik, UnlockEmail, Pardoned, Tokens, MemoryBans, RedisBans, RInv, Forms
  <2> QED BY <1>1, <1>5, <2>1, QuietGoKeeps DEF UnlockNik, UnlockEmail
<1> QED BY <1>2, <1>3, <1>4, <1>5

\* The ban reaches the memory, and Redis unless it misses it.
LEMMA BanKeeps ==
  ASSUME RInv, NEW c \in SCalls, BanRefresh(c) \/ LogoutBan(c)
  PROVE  RInv'
<1> DEFINE token == <<Kind(c), sarg[c].pair>>
<1>1. memory' = [memory EXCEPT !.banned = @ \cup {token}]
      /\ redis' = IF up THEN [redis EXCEPT !.banned = redis.banned \cup {token}] ELSE redis
  BY DEF BanRefresh, LogoutBan, Ban, Stored
<1>2. /\ memory' = [banned |-> memory'.banned, user |-> memory'.user, online |-> memory'.online]
      /\ redis' = [session |-> redis'.session, banned |-> redis'.banned, fails |-> redis'.fails,
                   locked |-> redis'.locked, master |-> redis'.master, online |-> redis'.online]
      /\ memory'.banned = memory.banned \cup {token}
      /\ redis'.banned = IF up THEN redis.banned \cup {token} ELSE redis.banned
  BY <1>1 DEF RInv, Forms
<1> HIDE DEF token
<1>3. missed' = (missed \/ ~up) /\ restarted' = restarted
  BY DEF BanRefresh, LogoutBan, SGo
<1>4. ExchangedIsBanned' /\ exchanged \subseteq exchanged'
  <2>1. CASE BanRefresh(c)
    <3>1. exchanged' = exchanged \cup {sarg[c].pair} /\ token = <<"refresh", sarg[c].pair>>
      BY <2>1 DEF BanRefresh, Kind, token
    <3> QED BY <1>2, <1>3, <3>1 DEF RInv, ExchangedIsBanned
  <2>2. CASE LogoutBan(c)
    <3>1. exchanged' = exchanged BY <2>2 DEF LogoutBan
    <3> QED BY <1>2, <1>3, <3>1 DEF RInv, ExchangedIsBanned
  <2> QED BY <2>1, <2>2
<1> QED BY <1>2, <1>4, GoKeeps DEF BanRefresh, LogoutBan

\* Here a late refresh is stopped.
LEMMA CheckBannedKeeps ==
  ASSUME RInv, NEW c \in SCalls, CheckBanned(c)
  PROVE  RInv'
<1> DEFINE next == IF Banned(<<Kind(c), sarg[c].pair>>) THEN "idle"
                   ELSE IF Kind(c) = "refresh" THEN "session?" ELSE "cached?"
<1>1. SGo(c, "banned?", next) /\ UNCHANGED <<redis, memory, exchanged>>
  BY DEF CheckBanned, Tokens
<1>2. ExchangedIsBanned' BY <1>1, BansKeep DEF SGo
<1>3. ASSUME sarg[c].late, ~Forgotten' PROVE next = "idle"
  <2>1. sarg[c].pair \in exchanged /\ Kind(c) = "refresh" BY <1>3 DEF RInv, LateIsStopped, Kind
  <2>2. ~restarted \/ (~missed /\ up) BY <1>1, <1>3 DEF SGo, Forgotten, RInv, Forms
  <2> QED BY <2>1, <2>2 DEF Banned, RInv, ExchangedIsBanned
<1> HIDE DEF next
<1>4. /\ sat' = [sat EXCEPT ![c] = next] /\ restarted' = restarted
      /\ sarg' = IF next = "idle" THEN [sarg EXCEPT ![c] = SNoArg] ELSE sarg
      /\ (missed => missed') /\ missed' \in BOOLEAN
  BY <1>1 DEF SGo, RInv, Forms
<1>5. sat'[c] = next /\ sarg'[c] = IF next = "idle" THEN SNoArg ELSE sarg[c]
  BY <1>4 DEF RInv, Forms
<1>6. sat' = [sat EXCEPT ![c] = sat'[c]] /\ sarg' = [sarg EXCEPT ![c] = sarg'[c]]
  BY <1>4, <1>5 DEF RInv, Forms
<1>7. IsArg(SNoArg) /\ ~SNoArg.late BY DEF SNoArg, IsArg
<1>8. Forms'
  <2>1. \A d \in SCalls : IsArg(sarg'[d]) BY <1>5, <1>6, <1>7 DEF RInv, Forms
  <2>2. sat' = [d \in SCalls |-> sat'[d]] /\ sarg' = [d \in SCalls |-> sarg'[d]]
    BY <1>6 DEF RInv, Forms
  <2> QED BY <1>1, <1>4, <2>1, <2>2 DEF RInv, Forms, IsArg
<1>9. LateIsStopped(c)'
  <2>1. CASE next = "idle" BY <1>5, <1>7, <2>1 DEF LateIsStopped
  <2>2. CASE next # "idle" BY <1>1, <1>3, <1>5, <2>2 DEF LateIsStopped, RInv
  <2> QED BY <2>1, <2>2
<1> QED BY <1>1, <1>2, <1>4, <1>6, <1>8, <1>9, CallKeeps

\* A step that writes what call c holds, and of the stores not the bans.
LEMMA HeldKeeps ==
  ASSUME RInv, NEW c \in SCalls, NEW next, NEW args,
         sat' = [sat EXCEPT ![c] = next], sarg' = [sarg EXCEPT ![c] = args],
         IsArg(args), RedisBans, MemoryBans, exchanged' = exchanged,
         restarted' = restarted, missed => missed', missed' \in BOOLEAN,
         args.late => /\ args.pair \in exchanged /\ args.then = "give" /\ next # "idle"
                      /\ ~Forgotten => next = "banned?"
  PROVE  RInv'
<1>1. sat'[c] = next /\ sarg'[c] = args BY DEF RInv, Forms
<1>2. Forms'
  <2>1. \A d \in SCalls : IsArg(sarg'[d]) BY <1>1 DEF RInv, Forms
  <2>2. sat' = [d \in SCalls |-> sat'[d]] /\ sarg' = [d \in SCalls |-> sarg'[d]]
    BY DEF RInv, Forms
  <2>3. /\ redis' = [session |-> redis'.session, banned |-> redis'.banned, fails |-> redis'.fails,
                     locked |-> redis'.locked, master |-> redis'.master, online |-> redis'.online]
        /\ memory' = [banned |-> memory'.banned, user |-> memory'.user, online |-> memory'.online]
    BY DEF RedisBans, MemoryBans
  <2> QED BY <2>1, <2>2, <2>3 DEF RInv, Forms, IsArg
<1>3. redis'.banned = redis.banned /\ memory'.banned = memory.banned BY DEF RedisBans, MemoryBans
<1>4. ExchangedIsBanned' BY <1>3, BansKeep
<1>5. LateIsStopped(c)' BY <1>1 DEF LateIsStopped, Forgotten
<1> QED BY <1>1, <1>2, <1>4, <1>5, CallKeeps

\* A call that holds a pair, an answer or what it has read holds no more of it late.
LEMMA WriteKeeps ==
  ASSUME RInv, NEW c \in SCalls, Issue(c, "mark") \/ Issue(c, "cached?") \/ LoginMark(c)
                                   \/ ResolveRead(c) \/ Forget(c)
  PROVE  RInv'
<1>1. IsArg(SNoArg) /\ ~SNoArg.late BY DEF SNoArg, IsArg
<1>2. LateIsStopped(c) /\ IsArg(sarg[c]) BY DEF RInv, Forms
<1>3. ASSUME NEW next, next # "idle", Issue(c, next) PROVE RInv'
  <2>1. PICK p \in Unsigned :
          /\ sat[c] = "issue" /\ sat' = [sat EXCEPT ![c] = next]
          /\ sarg' = [sarg EXCEPT ![c].new = p]
          /\ redis' = IF up THEN [redis EXCEPT !.session =
                                    [redis.session EXCEPT ![sarg[c].user] = p]] ELSE redis
          /\ missed' = (missed \/ ~up)
          /\ UNCHANGED <<memory, exchanged, restarted>>
    BY <1>3 DEF Issue, Stored
  <2> DEFINE args == [sarg[c] EXCEPT !.new = p]
  <2>2. sarg' = [sarg EXCEPT ![c] = args] BY <2>1
  <2>3. IsArg(args) /\ args.late = sarg[c].late /\ args.pair = sarg[c].pair
        /\ args.then = sarg[c].then
    BY <1>2 DEF IsArg
  <2>4. RedisBans /\ MemoryBans BY <2>1 DEF RedisBans, MemoryBans, RInv, Forms
  <2>5. missed' \in BOOLEAN BY <2>1 DEF RInv, Forms
  <2> HIDE DEF args
  <2>6. args.late => /\ args.pair \in exchanged /\ args.then = "give"
                     /\ ~Forgotten => next = "banned?"
    BY <1>2, <2>1, <2>3 DEF LateIsStopped
  <2> QED BY <1>3, <2>1, <2>2, <2>3, <2>4, <2>5, <2>6, HeldKeeps
<1>4. CASE LoginMark(c)
  <2>1. /\ sat' = [sat EXCEPT ![c] = "idle"] /\ sarg' = [sarg EXCEPT ![c] = SNoArg]
        /\ missed' = (missed \/ ~up) /\ UNCHANGED <<exchanged, restarted>>
    BY <1>4 DEF LoginMark
  <2>2. RedisBans /\ MemoryBans BY <1>4 DEF LoginMark, RedisBans, MemoryBans, RInv, Forms
  <2>3. missed' \in BOOLEAN BY <2>1 DEF RInv, Forms
  <2> QED BY <1>1, <2>1, <2>2, <2>3, HeldKeeps
<1>5. CASE ResolveRead(c)
  <2> DEFINE a == account[sarg[c].user]
             args == IF a.active THEN [sarg[c] EXCEPT !.rights = a.rights] ELSE SNoArg
             next == IF a.active THEN "fill" ELSE "idle"
  <2>1. /\ sat[c] = "cached?" /\ sat' = [sat EXCEPT ![c] = next]
        /\ sarg' = [sarg EXCEPT ![c] = args]
        /\ missed' = (missed \/ ~up) /\ UNCHANGED <<redis, memory, exchanged, restarted>>
    BY <1>5 DEF ResolveRead, Tokens
  <2>2. RedisBans /\ MemoryBans BY <2>1 DEF RedisBans, MemoryBans, RInv, Forms
  <2>3. missed' \in BOOLEAN BY <2>1 DEF RInv, Forms
  <2>4. IsArg(args)
    <3>1. IsArg([sarg[c] EXCEPT !.rights = a.rights]) BY <1>2 DEF IsArg
    <3> QED BY <1>1, <3>1
  <2>5. args.late => args.pair \in exchanged /\ args.then = "give" /\ next # "idle"
                     /\ (~Forgotten => next = "banned?")
    <3>1. CASE a.active
      <4>1. args.late = sarg[c].late /\ args.pair = sarg[c].pair /\ args.then = sarg[c].then
        BY <1>2, <3>1 DEF IsArg
      <4> QED BY <1>2, <2>1, <3>1, <4>1 DEF LateIsStopped
    <3> QED BY <1>1, <3>1
  <2> HIDE DEF args, next
  <2> QED BY <2>1, <2>2, <2>3, <2>4, <2>5, HeldKeeps
<1>6. CASE Forget(c)
  <2>1. /\ sat' = [sat EXCEPT ![c] = "idle"] /\ sarg' = [sarg EXCEPT ![c] = SNoArg]
        /\ missed' = (missed \/ ~up) /\ UNCHANGED <<redis, exchanged, restarted>>
    BY <1>6 DEF Forget, Dropping
  <2>2. RedisBans /\ MemoryBans BY <1>6 DEF Forget, Dropping, RedisBans, MemoryBans, RInv, Forms
  <2>3. missed' \in BOOLEAN BY <2>1 DEF RInv, Forms
  <2> QED BY <1>1, <2>1, <2>2, <2>3, HeldKeeps
<1> QED BY <1>3, <1>4, <1>5, <1>6

\* Of the calls that begin only a refresh is late, and before its first check.
LEMMA StartKeeps ==
  ASSUME RInv, NEW c \in SCalls, NEW next, NEW args, SStart(c, next, args), IsArg(args),
         args.late => args.pair \in exchanged /\ args.then = "give" /\ next = "banned?"
  PROVE  RInv'
<1>1. /\ sat' = [sat EXCEPT ![c] = next] /\ sarg' = [sarg EXCEPT ![c] = args]
      /\ UNCHANGED <<redis, memory, exchanged, restarted, missed>>
  BY DEF SStart, history
<1>2. RedisBans /\ MemoryBans /\ missed' \in BOOLEAN
  BY <1>1 DEF RedisBans, MemoryBans, RInv, Forms
<1> QED BY <1>1, <1>2, HeldKeeps

\* What a call holds when it begins is built field by field.
LEMMA CallsBegin ==
  ASSUME RInv, NEW c \in SCalls,
         \/ \E u \in SUsers : \/ \E n \in Names, good, master \in BOOLEAN :
                                   Login(c, u, n, good, master)
                              \/ Unlock(c, u)
                              \/ ChangeRights(c, u)
         \/ \E p \in Pairs : Refresh(c, p) \/ Request(c, p) \/ Heartbeat(c, p) \/ Logout(c, p)
  PROVE  RInv'
<1>0. IsArg(SNoArg) /\ ~SNoArg.late BY DEF SNoArg, IsArg
<1>1. ASSUME NEW u \in SUsers, NEW n \in Names, NEW good \in BOOLEAN, NEW master \in BOOLEAN,
             Login(c, u, n, good, master)
      PROVE  RInv'
  <2> DEFINE a1 == [SNoArg EXCEPT !.user = u]
             a2 == [a1 EXCEPT !.name = n]
             a3 == [a2 EXCEPT !.good = good]
             a4 == [a3 EXCEPT !.master = master]
  <2>1. IsArg(a1) /\ ~a1.late BY <1>0 DEF IsArg
  <2> HIDE DEF a1
  <2>2. IsArg(a2) /\ ~a2.late BY <2>1 DEF IsArg
  <2> HIDE DEF a2
  <2>3. IsArg(a3) /\ ~a3.late BY <2>2 DEF IsArg
  <2> HIDE DEF a3
  <2>4. IsArg(a4) /\ ~a4.late BY <2>3 DEF IsArg
  <2> HIDE DEF a4
  <2>5. SStart(c, IF master THEN "find" ELSE "lock?", a4)
    BY <1>1 DEF Login, a4, a3, a2, a1
  <2> QED BY <2>4, <2>5, StartKeeps
<1>2. ASSUME NEW u \in SUsers, Unlock(c, u) PROVE RInv'
  <2> DEFINE args == [SNoArg EXCEPT !.user = u]
  <2>1. IsArg(args) /\ ~args.late BY <1>0 DEF IsArg
  <2>2. SStart(c, "nik", args) BY <1>2 DEF Unlock
  <2> HIDE DEF args
  <2> QED BY <2>1, <2>2, StartKeeps
<1>3. ASSUME NEW u \in SUsers, ChangeRights(c, u) PROVE RInv'
  <2> DEFINE args == [sarg[c] EXCEPT !.user = u]
  <2>1. /\ sat[c] = "idle" /\ sat' = [sat EXCEPT ![c] = "forget"]
        /\ sarg' = [sarg EXCEPT ![c] = args]
        /\ UNCHANGED <<redis, memory, exchanged, restarted, missed>>
    BY <1>3 DEF ChangeRights, history
  <2>2. RedisBans /\ MemoryBans /\ missed' \in BOOLEAN
    BY <2>1 DEF RedisBans, MemoryBans, RInv, Forms
  <2>3. IsArg(sarg[c]) /\ ~sarg[c].late BY <2>1 DEF RInv, Forms, LateIsStopped
  <2>4. IsArg(args) /\ ~args.late BY <2>3 DEF IsArg
  <2> HIDE DEF args
  <2> QED BY <2>1, <2>2, <2>4, HeldKeeps
<1>4. ASSUME NEW p \in Pairs, Refresh(c, p) PROVE RInv'
  <2> DEFINE a1 == [SNoArg EXCEPT !.user = owner[p]]
             a2 == [a1 EXCEPT !.pair = p]
             a3 == [a2 EXCEPT !.then = "give"]
             a4 == [a3 EXCEPT !.late = (p \in exchanged)]
             a5 == [a4 EXCEPT !.master = (p \in masters)]
  <2>1. IsArg(a1) /\ ~a1.late BY <1>0 DEF IsArg
  <2> HIDE DEF a1
  <2>2. IsArg(a2) /\ ~a2.late /\ a2.pair = p BY <2>1 DEF IsArg
  <2> HIDE DEF a2
  <2>3. IsArg(a3) /\ ~a3.late /\ a3.pair = p /\ a3.then = "give" BY <2>2 DEF IsArg
  <2> HIDE DEF a3
  <2>4. IsArg(a4) /\ a4.late = (p \in exchanged) /\ a4.pair = p /\ a4.then = "give"
    BY <2>3 DEF IsArg
  <2> HIDE DEF a4
  <2>5. IsArg(a5) /\ a5.late = (p \in exchanged) /\ a5.pair = p /\ a5.then = "give"
    BY <2>4 DEF IsArg
  <2> HIDE DEF a5
  <2>6. SStart(c, "banned?", a5)
    BY <1>4 DEF Refresh, a5, a4, a3, a2, a1
  <2> QED BY <2>5, <2>6, StartKeeps
<1>5. ASSUME NEW p \in Pairs, Heartbeat(c, p) PROVE RInv'
  <2> DEFINE a1 == [SNoArg EXCEPT !.user = owner[p]]
             a2 == [a1 EXCEPT !.pair = p]
             a3 == [a2 EXCEPT !.then = "beat"]
             a4 == [a3 EXCEPT !.master = (p \in masters)]
  <2>1. IsArg(a1) /\ ~a1.late BY <1>0 DEF IsArg
  <2> HIDE DEF a1
  <2>2. IsArg(a2) /\ ~a2.late BY <2>1 DEF IsArg
  <2> HIDE DEF a2
  <2>3. IsArg(a3) /\ ~a3.late BY <2>2 DEF IsArg
  <2> HIDE DEF a3
  <2>4. IsArg(a4) /\ ~a4.late BY <2>3 DEF IsArg
  <2> HIDE DEF a4
  <2>5. SStart(c, "banned?", a4)
    BY <1>5 DEF Heartbeat, a4, a3, a2, a1
  <2> QED BY <2>4, <2>5, StartKeeps
<1>6. ASSUME NEW p \in Pairs, NEW then,
             SStart(c, "banned?", [SNoArg EXCEPT !.user = owner[p], !.pair = p, !.then = then])
      PROVE  RInv'
  <2> DEFINE a1 == [SNoArg EXCEPT !.user = owner[p]]
             a2 == [a1 EXCEPT !.pair = p]
             a3 == [a2 EXCEPT !.then = then]
  <2>1. IsArg(a1) /\ ~a1.late BY <1>0 DEF IsArg
  <2> HIDE DEF a1
  <2>2. IsArg(a2) /\ ~a2.late BY <2>1 DEF IsArg
  <2> HIDE DEF a2
  <2>3. IsArg(a3) /\ ~a3.late BY <2>2 DEF IsArg
  <2> HIDE DEF a3
  <2>4. SStart(c, "banned?", a3)
    BY <1>6 DEF a3, a2, a1
  <2> QED BY <2>3, <2>4, StartKeeps
<1> QED BY <1>1, <1>2, <1>3, <1>4, <1>5, <1>6 DEF Request, Logout

\* No step of the environment makes a call late or forgets a ban unnoticed.
LEMMA WorldKeeps ==
  ASSUME RInv,
         \/ \E c \in SCalls, u \in SUsers : SetUserActive(c, u) \/ UpdateEmployeeType(c, u)
         \/ \E kept \in BOOLEAN : Outage(kept)
         \/ Back
         \/ Restart
         \/ \E n \in Names : LockExpires(n)
         \/ \E u \in SUsers : CacheExpires(u) \/ PresenceExpires(u) \/ MarkExpires(u)
  PROVE  RInv'
<1>1. CASE Restart
  <2>1. /\ sat' = [c \in SCalls |-> "idle"] /\ sarg' = [c \in SCalls |-> SNoArg]
        /\ restarted' = TRUE /\ UNCHANGED <<redis, exchanged, missed>>
        /\ memory' = [banned |-> {}, user |-> [u \in SUsers |-> NoOne], online |-> {}]
    BY <1>1 DEF Restart
  <2>2. IsArg(SNoArg) /\ ~SNoArg.late BY DEF SNoArg, IsArg
  <2>3. \A c \in SCalls : sarg'[c] = SNoArg BY <2>1
  <2>4. Forms' BY <2>1, <2>2, <2>3 DEF RInv, Forms, IsArg
  <2>5. ExchangedIsBanned' BY <2>1 DEF RInv, ExchangedIsBanned
  <2>6. \A c \in SCalls : LateIsStopped(c)' BY <2>2, <2>3 DEF LateIsStopped
  <2> QED BY <2>4, <2>5, <2>6 DEF RInv
<1>2. ASSUME UNCHANGED <<sat, sarg, exchanged, restarted>>, MemoryBans,
             redis' = [session |-> redis'.session, banned |-> redis'.banned,
                       fails |-> redis'.fails, locked |-> redis'.locked,
                       master |-> redis'.master, online |-> redis'.online],
             missed => missed', missed' \in BOOLEAN,
             missed' \/ redis'.banned = redis.banned
      PROVE  RInv'
  <2>1. memory'.banned = memory.banned /\ memory' = [banned |-> memory'.banned,
                                             user |-> memory'.user, online |-> memory'.online]
    BY <1>2 DEF MemoryBans
  <2>2. Forms' BY <1>2, <2>1 DEF RInv, Forms, IsArg
  <2>3. ExchangedIsBanned' BY <1>2, <2>1, BansKeep
  <2>4. \A c \in SCalls : LateIsStopped(c)' BY <1>2 DEF RInv, LateIsStopped, Forgotten
  <2> QED BY <2>2, <2>3, <2>4 DEF RInv
<1>3. ASSUME UNCHANGED <<sat, sarg, exchanged, restarted, missed>>, MemoryBans, RedisBans
      PROVE  RInv'
  <2>1. redis'.banned = redis.banned
        /\ redis' = [session |-> redis'.session, banned |-> redis'.banned,
                     fails |-> redis'.fails, locked |-> redis'.locked,
                     master |-> redis'.master, online |-> redis'.online]
    BY <1>3 DEF RedisBans
  <2>2. missed' \in BOOLEAN /\ (missed => missed') BY <1>3 DEF RInv, Forms
  <2> QED BY <1>2, <1>3, <2>1, <2>2
<1>4. ASSUME NEW c \in SCalls, NEW u \in SUsers, LeaveCache(c, u) PROVE RInv'
  <2>1. MemoryBans /\ RedisBans
    BY <1>4 DEF LeaveCache, MemoryBans, RedisBans, RInv, Forms
  <2> QED BY <1>3, <1>4, <2>1 DEF LeaveCache
<1>5. ASSUME NEW kept \in BOOLEAN, Outage(kept) PROVE RInv'
  <2>1. /\ UNCHANGED <<memory, sat, sarg, exchanged, restarted>>
        /\ missed' = (missed \/ ~kept \/ ~AllIdle)
        /\ redis' = IF kept THEN redis
                    ELSE [session |-> [u \in SUsers |-> NoOne], banned |-> {},
                          fails |-> [n \in Names |-> 0], locked |-> {}, master |-> {},
                          online |-> {}]
    BY <1>5 DEF Outage
  <2>2. MemoryBans BY <2>1 DEF MemoryBans, RInv, Forms
  <2>3. redis' = [session |-> redis'.session, banned |-> redis'.banned,
                  fails |-> redis'.fails, locked |-> redis'.locked,
                  master |-> redis'.master, online |-> redis'.online]
    <3>1. CASE kept BY <2>1, <3>1 DEF RInv, Forms
    <3>2. CASE ~kept BY <2>1, <3>2
    <3> QED BY <3>1, <3>2
  <2>4. missed' \in BOOLEAN /\ (missed => missed') BY <2>1
  <2>5. missed' \/ redis'.banned = redis.banned BY <2>1
  <2> QED BY <1>2, <2>1, <2>2, <2>3, <2>4, <2>5
<1>6. CASE Back
  <2>1. /\ UNCHANGED <<redis, memory, sat, sarg, exchanged, restarted>>
        /\ missed' = (missed \/ ~AllIdle)
    BY <1>6 DEF Back
  <2>2. MemoryBans /\ missed' \in BOOLEAN BY <2>1 DEF MemoryBans, RInv, Forms
  <2>3. redis' = [session |-> redis'.session, banned |-> redis'.banned,
                  fails |-> redis'.fails, locked |-> redis'.locked,
                  master |-> redis'.master, online |-> redis'.online]
    BY <2>1 DEF RInv, Forms
  <2> QED BY <1>2, <2>1, <2>2, <2>3
<1>7. ASSUME NEW n \in Names, LockExpires(n) PROVE RInv'
  <2>1. MemoryBans /\ RedisBans
    BY <1>7 DEF LockExpires, Tokens, MemoryBans, RedisBans, RInv, Forms
  <2> QED BY <1>3, <1>7, <2>1 DEF LockExpires, Tokens
<1>8. ASSUME NEW u \in SUsers, CacheExpires(u) PROVE RInv'
  <2>1. MemoryBans /\ RedisBans
    BY <1>8 DEF CacheExpires, MemoryBans, RedisBans, RInv, Forms
  <2> QED BY <1>3, <1>8, <2>1 DEF CacheExpires, history
<1>9. ASSUME NEW u \in SUsers, PresenceExpires(u) PROVE RInv'
  <2>1. MemoryBans /\ RedisBans
    BY <1>9 DEF PresenceExpires, MemoryBans, RedisBans, RInv, Forms
  <2> QED BY <1>3, <1>9, <2>1 DEF PresenceExpires, history
<1>10. ASSUME NEW u \in SUsers, MarkExpires(u) PROVE RInv'
  <2>1. MemoryBans /\ RedisBans
    BY <1>10 DEF MarkExpires, MemoryBans, RedisBans, RInv, Forms
  <2> QED BY <1>3, <1>10, <2>1 DEF MarkExpires
<1> QED BY <1>1, <1>4, <1>5, <1>6, <1>7, <1>8, <1>9, <1>10
     DEF SetUserActive, UpdateEmployeeType

LEMMA InitBans == SessionsInit => RInv
<1> SUFFICES ASSUME SessionsInit PROVE RInv OBVIOUS
<1>1. IsArg(SNoArg) /\ ~SNoArg.late BY DEF SNoArg, IsArg
<1>2. /\ redis = [session |-> redis.session, banned |-> redis.banned, fails |-> redis.fails,
                  locked |-> redis.locked, master |-> redis.master, online |-> redis.online]
      /\ memory = [banned |-> memory.banned, user |-> memory.user, online |-> memory.online]
  BY DEF SessionsInit
<1>3. /\ sat = [c \in SCalls |-> "idle"] /\ sarg = [c \in SCalls |-> SNoArg]
      /\ exchanged = {} /\ restarted = FALSE /\ missed = FALSE
  BY DEF SessionsInit
<1>4. \A c \in SCalls : sarg[c] = SNoArg BY <1>3
<1> QED BY <1>1, <1>2, <1>3, <1>4 DEF RInv, Forms, ExchangedIsBanned, LateIsStopped, IsArg

LEMMA StepBans == RInv /\ [SessionsNext]_svars => RInv'
<1> SUFFICES ASSUME RInv, [SessionsNext]_svars PROVE RInv' OBVIOUS
<1>1. CASE UNCHANGED svars
  BY <1>1 DEF svars, history, RInv, Forms, IsArg, ExchangedIsBanned, LateIsStopped, Forgotten
<1>2. ASSUME NEW c \in SCalls,
             \/ LoginLocked(c)
             \/ LoginFind(c)
             \/ LoginCount(c)
             \/ LoginBar(c)
             \/ LoginClear(c)
      PROVE  RInv'
  BY <1>2, LoginKeeps
<1>3. ASSUME NEW c \in SCalls,
             \/ CheckSession(c)
             \/ CheckActive(c)
             \/ ResolveCached(c)
             \/ ResolveFill(c)
             \/ LogoutClear(c)
             \/ UnlockNik(c)
             \/ UnlockEmail(c)
             \/ Beat(c)
      PROVE  RInv'
  BY <1>3, PassKeeps
<1>4. ASSUME NEW c \in SCalls, BanRefresh(c) \/ LogoutBan(c) PROVE RInv' BY <1>4, BanKeeps
<1>5. ASSUME NEW c \in SCalls, CheckBanned(c) PROVE RInv' BY <1>5, CheckBannedKeeps
<1>6. ASSUME NEW c \in SCalls, LoginIssue(c) \/ RefreshIssue(c) \/ LoginMark(c)
                                     \/ ResolveRead(c) \/ Forget(c)
      PROVE  RInv'
  BY <1>6, WriteKeeps DEF LoginIssue, RefreshIssue
<1> QED BY <1>1, <1>2, <1>3, <1>4, <1>5, <1>6, CallsBegin, WorldKeeps DEF SessionsNext

LEMMA BansStop == RInv => RefreshOnce
BY DEF RInv, RefreshOnce, LateIsStopped, Forgotten

\* However calls overlap, and however Redis comes and goes, a refresh that
\* begins after its token was exchanged is refused, for any calls, users and
\* bounds, unless both the memory and Redis have lost the token
\* (tokenSecurityService.ts:39-52, authService.ts:405-443).
THEOREM RefreshedOnce == SessionsSpec => []RefreshOnce
<1> QED BY InitBans, StepBans, BansStop, PTL DEF SessionsSpec
------------------------------------------------------------------------------
(* What one call at a time ensures, and why: the call that runs alone leaves *)
(* the stores as it found them, but for what it is about to finish.         *)

Signed(p) == p \in Pairs /\ owner[p] \in SUsers

\* The stores are functions of what they are keyed by; pairs that were given,
\* marked or stored are signed.
Shapes ==
  /\ redis.session = [u \in SUsers |-> redis.session[u]]
  /\ redis.fails = [n \in Names |-> redis.fails[n]]
  /\ memory.user = [u \in SUsers |-> memory.user[u]]
  /\ account = [u \in SUsers |-> [active |-> account[u].active, rights |-> account[u].rights]]
  /\ owner = [p \in Pairs |-> owner[p]]
  /\ latest = [u \in SUsers |-> latest[u]]
  /\ strikes = [n \in Names |-> strikes[n]] /\ \A n \in Names : strikes[n] \in Nat
  /\ \A p \in held \cup masters : Signed(p)
  /\ \A u \in SUsers : redis.session[u] # NoOne =>
       Signed(redis.session[u]) /\ owner[redis.session[u]] = u
  /\ soverlap \in BOOLEAN

\* The call has a pair that it has not given yet.
Issued(c) == sat[c] = "mark" \/ (sat[c] \in {"cached?", "fill"} /\ sarg[c].then = "give")

\* What a call at one of its awaits is about.
CallFits(c) ==
  /\ sat[c] # "idle" => sarg[c].user \in SUsers
  /\ sat[c] \in {"lock?", "find", "count", "bar", "clear"} =>
       sarg[c].name \in Names /\ sarg[c].then = ""
  /\ sat[c] \in {"banned?", "session?"} =>
       sarg[c].pair \in held /\ sarg[c].user = owner[sarg[c].pair]
  /\ sat[c] \in {"session?", "active?"} => sarg[c].then = "give"
  /\ sat[c] = "end" => sarg[c].then = "logout"
  /\ sarg[c].then = "give" /\ sarg[c].master => sarg[c].pair \in masters
  /\ Issued(c) => /\ Signed(sarg[c].new) /\ owner[sarg[c].new] = sarg[c].user
                  /\ sarg[c].new \in masters => sarg[c].master

OneAtATime == \A c, d \in SCalls : sat[c] # "idle" /\ sat[d] # "idle" => c = d

CInv == Shapes /\ (~soverlap => OneAtATime) /\ \A c \in SCalls : CallFits(c)

\* What the call that runs alone relies on.  The session of a user is the pair he
\* has, or the one he is about to get; ...
LatestAt(c) ==
  /\ \A p \in held : redis.session[owner[p]] = p => p = latest[owner[p]]
  /\ Issued(c) => redis.session[sarg[c].user] = sarg[c].new

\* ... a developer's session is marked until the mark expires, and so it is while
\* he exchanges its token; ...
MasterAt(c) ==
  /\ \A u \in SUsers \ aged : redis.session[u] \in masters \cap held => u \in redis.master
  /\ sat[c] \in {"active?", "ban", "issue", "cached?", "fill"} /\ sarg[c].then = "give"
       /\ sarg[c].master => sarg[c].user \in aged \cup redis.master

\* ... and names are locked after the strikes that Redis has counted.
LocksAt(c) ==
  /\ \A n \in Names :
       /\ redis.fails[n] = strikes[n]
       /\ n \in redis.locked => strikes[n] >= MaxFails
       /\ strikes[n] >= MaxFails => n \in redis.locked \/ (sat[c] = "bar" /\ sarg[c].name = n)
  /\ sat[c] = "bar" => strikes[sarg[c].name] >= MaxFails

At(c) ==
  /\ ~missed => LatestAt(c) /\ MasterAt(c)
  /\ ~missed /\ ~restarted => LocksAt(c)

Alone(c) == \A d \in SCalls \ {c} : sat[d] = "idle"

SerialInv == ~soverlap => \A c \in SCalls : Alone(c) => At(c)

Moved(c) ==
  /\ sat' = [sat EXCEPT ![c] = sat'[c]] /\ sarg' = [sarg EXCEPT ![c] = sarg'[c]]
  /\ soverlap' = soverlap /\ (sat[c] = "idle" => soverlap \/ AllIdle)

LEMMA OthersStay ==
  ASSUME RInv, NEW c \in SCalls, Moved(c)
  PROVE  \A d \in SCalls \ {c} : sat'[d] = sat[d] /\ sarg'[d] = sarg[d]
BY DEF RInv, Forms, Moved

LEMMA FitKeeps ==
  ASSUME RInv, CInv, NEW c \in SCalls, Moved(c), Shapes', CallFits(c)',
         held \subseteq held', masters \subseteq masters',
         \A p \in Pairs : owner[p] \in SUsers =>
           owner'[p] = owner[p] /\ (p \in masters' => p \in masters)
  PROVE  CInv'
<1>1. ASSUME NEW d \in SCalls \ {c} PROVE CallFits(d)'
  <2>1. sat'[d] = sat[d] /\ sarg'[d] = sarg[d] BY OthersStay
  <2>2. CallFits(d) BY DEF CInv
  <2>3. \A p \in held : Signed(p) BY DEF CInv, Shapes
  <2> QED BY <2>1, <2>2, <2>3 DEF CallFits, Issued, Signed
<1>2. ~soverlap' => OneAtATime'
  <2> SUFFICES ASSUME ~soverlap', NEW d \in SCalls, NEW e \in SCalls,
                      sat'[d] # "idle", sat'[e] # "idle", d # e
               PROVE  FALSE
    BY DEF OneAtATime
  <2>1. OneAtATime BY DEF CInv, Moved
  <2>2. CASE d # c /\ e # c BY <2>1, <2>2, OthersStay DEF OneAtATime
  <2>3. CASE d = c
    <3>1. sat[e] # "idle" BY <2>3, OthersStay
    <3> QED BY <2>1, <2>3, <3>1 DEF OneAtATime, Moved, AllIdle
  <2>4. CASE e = c
    <3>1. sat[d] # "idle" BY <2>4, OthersStay
    <3> QED BY <2>1, <2>4, <3>1 DEF OneAtATime, Moved, AllIdle
  <2> QED BY <2>2, <2>3, <2>4
<1> QED BY <1>1, <1>2 DEF CInv

LEMMA AloneThen ==
  ASSUME RInv, CInv, NEW c \in SCalls, Moved(c), ~soverlap
  PROVE  Alone(c) /\ \A d \in SCalls \ {c} : sat'[d] = "idle"
<1>1. Alone(c) BY DEF CInv, OneAtATime, Moved, Alone, AllIdle
<1> QED BY <1>1, OthersStay DEF Alone

\* What holds of a call that rests holds of every call.
LEMMA RestIsAnyones ==
  ASSUME NEW c \in SCalls, NEW d \in SCalls, sat[c] = "idle", sat[d] = "idle", At(c)
  PROVE  At(d)
BY DEF At, LatestAt, MasterAt, LocksAt, Issued

LEMMA SerialKeeps ==
  ASSUME RInv, CInv, SerialInv, NEW c \in SCalls, Moved(c), ~soverlap /\ At(c) => At(c)'
  PROVE  SerialInv'
<1> SUFFICES ASSUME ~soverlap', NEW d \in SCalls, Alone(d)' PROVE At(d)'
  BY DEF SerialInv
<1>1. ~soverlap BY DEF Moved
<1>2. Alone(c) BY <1>1, AloneThen
<1>3. At(c)' BY <1>1, <1>2 DEF SerialInv
<1>4. CASE d = c BY <1>3, <1>4
<1>5. CASE d # c
  <2>1. sat'[c] = "idle" /\ sat'[d] = "idle" BY <1>1, <1>5, AloneThen DEF Alone
  <2> QED BY <1>3, <2>1 DEF At, LatestAt, MasterAt, LocksAt, Issued
<1> QED BY <1>4, <1>5

\* What a step of SGo does to its call.
LEMMA GoMoves ==
  ASSUME RInv, NEW c \in SCalls, NEW from, NEW next, SGo(c, from, next), from # "idle"
  PROVE  /\ Moved(c) /\ sat[c] = from /\ sat'[c] = next
         /\ sarg'[c] = IF next = "idle" THEN SNoArg ELSE sarg[c]
         /\ missed' = (missed \/ ~up) /\ missed' \in BOOLEAN
         /\ UNCHANGED <<soverlap, up, account, aged, restarted>>
BY DEF SGo, RInv, Forms, Moved

LEMMA NoArg == SNoArg.then = "" /\ SNoArg.master = FALSE
BY DEF SNoArg

\* A call that has ended fits.
LEMMA EndFits ==
  ASSUME NEW c \in SCalls, sat'[c] = "idle", sarg'[c] = SNoArg
  PROVE  CallFits(c)'
BY NoArg DEF CallFits, Issued

\* Steps that only look.
LEMMA LookKeeps ==
  ASSUME RInv, CInv, SerialInv, NEW c \in SCalls,
         LoginLocked(c) \/ LoginFind(c) \/ CheckBanned(c) \/ CheckSession(c) \/ CheckActive(c)
  PROVE  CInv' /\ SerialInv'
<1>1. PICK from \in {"lock?", "find", "banned?", "session?", "active?"},
           next \in {"idle", "find", "clear", "count", "session?", "cached?", "active?", "ban"} :
        /\ SGo(c, from, next)
        /\ next # "idle" =>
             \/ from = "lock?" /\ next = "find"
             \/ from = "find" /\ next \in {"clear", "count"}
             \/ from = "banned?" /\ next = "session?" /\ sarg[c].then = "give"
             \/ from = "banned?" /\ next = "cached?" /\ sarg[c].then # "give"
             \/ from = "session?" /\ next = "active?"
                  /\ SessionValid(sarg[c].user, sarg[c].pair)
             \/ from = "active?" /\ next = "ban"
  <2>1. CASE LoginLocked(c)
    BY <2>1 DEF LoginLocked
  <2>2. CASE LoginFind(c)
    BY <2>2 DEF LoginFind
  <2>3. CASE CheckBanned(c)
    BY <2>3 DEF CheckBanned, Kind
  <2>4. CASE CheckSession(c)
    BY <2>4 DEF CheckSession
  <2>5. CASE CheckActive(c)
    BY <2>5 DEF CheckActive
  <2> QED BY <2>1, <2>2, <2>3, <2>4, <2>5
<1>2. UNCHANGED <<redis, memory, owner, masters, held, latest, strikes>>
  BY DEF LoginLocked, LoginFind, CheckBanned, CheckSession, CheckActive, Tokens
<1>3. /\ Moved(c) /\ sat[c] = from /\ sat'[c] = next
      /\ sarg'[c] = IF next = "idle" THEN SNoArg ELSE sarg[c]
      /\ missed' = (missed \/ ~up) /\ missed' \in BOOLEAN
      /\ UNCHANGED <<soverlap, up, account, aged, restarted>>
  BY <1>1, GoMoves
<1>4. Shapes' BY <1>2, <1>3 DEF CInv, Shapes, Signed
<1>5. CallFits(c)'
  <2>1. CASE next = "idle" BY <1>3, <2>1, EndFits
  <2>2. CASE next # "idle"
    <3>1. CallFits(c) BY DEF CInv
    <3> QED BY <1>1, <1>2, <1>3, <2>2, <3>1 DEF CallFits, Issued
  <2> QED BY <2>1, <2>2
<1>6. CInv' BY <1>2, <1>3, <1>4, <1>5, FitKeeps
<1>7. ASSUME At(c) PROVE At(c)'
  <2>2. ~missed' => LatestAt(c)'
    BY <1>1, <1>2, <1>3, <1>7 DEF At, LatestAt, Issued
  <2>3. ~missed' => MasterAt(c)'
    <3> SUFFICES ASSUME ~missed' PROVE MasterAt(c)' OBVIOUS
    <3>1. MasterAt(c) /\ up BY <1>3, <1>7 DEF At
    <3>2. CASE next = "active?"
      <4>1. sarg[c].pair \in held /\ sarg[c].user = owner[sarg[c].pair] /\ sarg[c].user \in SUsers
            /\ (sarg[c].then = "give" /\ sarg[c].master => sarg[c].pair \in masters)
        BY <1>1, <1>3, <3>2 DEF CInv, CallFits
      <4>2. redis.session[sarg[c].user] = sarg[c].pair
        BY <1>1, <1>3, <3>1, <3>2 DEF SessionValid
      <4> QED BY <1>2, <1>3, <3>1, <3>2, <4>1, <4>2 DEF MasterAt
    <3>3. CASE next # "active?"
      BY <1>1, <1>2, <1>3, <3>1, <3>3 DEF MasterAt, SNoArg
    <3> QED BY <3>2, <3>3
  <2>4. ~missed' /\ ~restarted => LocksAt(c)'
    BY <1>1, <1>2, <1>3, <1>7 DEF At, LocksAt
  <2> QED BY <1>3, <2>2, <2>3, <2>4 DEF At
<1> QED BY <1>3, <1>6, <1>7, SerialKeeps

\* Steps of the locks: what is counted, locked and pardoned.
LEMMA LockStepKeeps ==
  ASSUME RInv, CInv, SerialInv, NEW c \in SCalls, NEW from, NEW next, SGo(c, from, next),
         from \notin {"idle", "forget"}, next \notin {"fill", "forget", "active?", "ban"},
         UNCHANGED Tokens,
         redis' = [session |-> redis.session, banned |-> redis'.banned, fails |-> redis'.fails,
                   locked |-> redis'.locked, master |-> redis.master, online |-> redis'.online],
         redis'.fails = [n \in Names |-> redis'.fails[n]],
         strikes' = [n \in Names |-> strikes'[n]], \A n \in Names : strikes'[n] \in Nat,
         next # "idle" => CallFits(c)', next = "issue" => sarg[c].then # "give", ~Issued(c)',
         ~soverlap /\ ~missed' /\ ~restarted /\ LocksAt(c) => LocksAt(c)'
  PROVE  CInv' /\ SerialInv'
<1>2. /\ UNCHANGED <<memory, owner, masters, held, latest>>
      /\ redis'.session = redis.session /\ redis'.master = redis.master
  BY DEF Tokens
<1>3. /\ Moved(c) /\ sat[c] = from /\ sat'[c] = next
      /\ sarg'[c] = IF next = "idle" THEN SNoArg ELSE sarg[c]
      /\ missed' = (missed \/ ~up) /\ missed' \in BOOLEAN
      /\ UNCHANGED <<soverlap, up, account, aged, restarted>>
  BY GoMoves
<1>4. Shapes' BY <1>2, <1>3 DEF CInv, Shapes, Signed
<1>5. CallFits(c)' BY <1>3, EndFits
<1>6. CInv' BY <1>2, <1>3, <1>4, <1>5, FitKeeps
<1>7. ASSUME At(c), ~soverlap PROVE At(c)'
  <2>2. ~missed' => LatestAt(c)'
    BY <1>2, <1>3, <1>7 DEF At, LatestAt
  <2>3. ~missed' => MasterAt(c)'
    <3>1. sat'[c] \in {"cached?", "fill"} => sarg'[c].then # "give" BY DEF Issued
    <3> QED BY <1>2, <1>3, <1>7, <3>1 DEF At, MasterAt
  <2>4. ~missed' /\ ~restarted => LocksAt(c)'
    BY <1>3, <1>7 DEF At
  <2> QED BY <1>3, <2>2, <2>3, <2>4 DEF At
<1> QED BY <1>3, <1>6, <1>7, SerialKeeps

LEMMA CountKeeps ==
  ASSUME RInv, CInv, SerialInv, NEW c \in SCalls, LoginCount(c) \/ LoginBar(c)
  PROVE  CInv' /\ SerialInv'
<1>1. CASE LoginCount(c)
  <2> DEFINE n == sarg[c].name
             fails == redis.fails[n] + 1
             next == IF up /\ fails >= MaxFails THEN "bar" ELSE "idle"
  <2>1. /\ SGo(c, "count", next)
        /\ redis' = IF up THEN [redis EXCEPT !.fails = [redis.fails EXCEPT ![n] = fails]] ELSE redis
        /\ strikes' = [strikes EXCEPT ![n] = @ + 1]
        /\ UNCHANGED Tokens
    BY <1>1 DEF LoginCount, Stored
  <2>2. /\ redis' = [session |-> redis.session, banned |-> redis'.banned, fails |-> redis'.fails,
                     locked |-> redis'.locked, master |-> redis.master, online |-> redis'.online]
        /\ redis'.locked = redis.locked
        /\ redis'.fails = IF up THEN [redis.fails EXCEPT ![n] = fails] ELSE redis.fails
    BY <2>1 DEF RInv, Forms
  <2>3. /\ Moved(c) /\ sat[c] = "count" /\ sat'[c] = next
        /\ sarg'[c] = IF next = "idle" THEN SNoArg ELSE sarg[c]
        /\ missed' = (missed \/ ~up)
    BY <2>1, GoMoves
  <2>4. n \in Names /\ sarg[c].user \in SUsers /\ sarg[c].then = ""
    BY <2>3 DEF CInv, CallFits
  <2>5. /\ redis'.fails = [m \in Names |-> redis'.fails[m]]
        /\ strikes' = [m \in Names |-> strikes'[m]] /\ \A m \in Names : strikes'[m] \in Nat
    <3>1. /\ redis.fails = [m \in Names |-> redis.fails[m]]
          /\ strikes = [m \in Names |-> strikes[m]] /\ \A m \in Names : strikes[m] \in Nat
      BY DEF CInv, Shapes
    <3>2. strikes'[n] = strikes[n] + 1 /\ \A m \in Names \ {n} : strikes'[m] = strikes[m]
      BY <2>1, <2>4, <3>1
    <3> HIDE DEF fails, n
    <3>3. strikes[n] + 1 \in Nat
      <4>1. strikes[n] \in Nat BY <2>4, <3>1
      <4> QED BY <4>1
    <3>4. \A m \in Names : strikes'[m] \in Nat BY <3>1, <3>2, <3>3
    <3> QED BY <2>1, <2>2, <3>1, <3>4
  <2>6. next # "idle" => CallFits(c)'
    BY <2>3, <2>4 DEF CallFits, Issued
  <2>7. ASSUME ~missed', ~missed, LocksAt(c) PROVE LocksAt(c)'
    <3>1. up BY <2>3, <2>7
    <3>2. /\ redis'.fails[n] = redis.fails[n] + 1 /\ strikes'[n] = strikes[n] + 1
          /\ \A m \in Names \ {n} : redis'.fails[m] = redis.fails[m] /\ strikes'[m] = strikes[m]
      <4>1. redis'.fails = [redis.fails EXCEPT ![n] = redis.fails[n] + 1] BY <2>2, <3>1
      <4>2. strikes' = [strikes EXCEPT ![n] = strikes[n] + 1] BY <2>1
      <4>3. /\ redis.fails = [m \in Names |-> redis.fails[m]]
            /\ strikes = [m \in Names |-> strikes[m]]
        BY DEF CInv, Shapes
      <4> HIDE DEF n
      <4> QED BY <2>4, <4>1, <4>2, <4>3
    <3>3. redis.fails[n] = strikes[n] /\ strikes[n] \in Nat /\ MaxFails \in Nat
      BY <2>4, <2>7, SessionsAssumption DEF LocksAt, CInv, Shapes
    <3>4. strikes'[n] >= MaxFails <=> next = "bar" BY <3>1, <3>2, <3>3
    <3> HIDE DEF next, n
    <3>5. strikes'[n] >= MaxFails <=> sat'[c] = "bar" BY <2>3, <3>4
    <3>6. n \in redis.locked => strikes'[n] >= MaxFails
      <4>1. n \in redis.locked => strikes[n] >= MaxFails BY <2>4, <2>7 DEF LocksAt
      <4> QED BY <3>2, <3>3, <4>1
    <3>7. sat'[c] = "bar" => sarg'[c].name = n BY <2>3 DEF n
    <3> QED BY <2>2, <2>3, <2>4, <2>7, <3>2, <3>3, <3>5, <3>6, <3>7 DEF LocksAt
  <2>8. ~Issued(c)' BY <2>3 DEF Issued
  <2>9. missed => missed' BY <2>3
  <2> HIDE DEF next
  <2> QED BY <2>1, <2>2, <2>3, <2>5, <2>6, <2>7, <2>8, <2>9, LockStepKeeps DEF next
<1>2. CASE LoginBar(c)
  <2> DEFINE n == sarg[c].name
  <2>1. /\ SGo(c, "bar", "idle")
        /\ redis' = IF up THEN [redis EXCEPT !.locked = redis.locked \cup {n}] ELSE redis
        /\ UNCHANGED <<Tokens, strikes>>
    BY <1>2 DEF LoginBar, Stored
  <2>2. /\ redis' = [session |-> redis.session, banned |-> redis'.banned, fails |-> redis'.fails,
                     locked |-> redis'.locked, master |-> redis.master, online |-> redis'.online]
        /\ redis'.locked = IF up THEN redis.locked \cup {n} ELSE redis.locked
        /\ redis'.fails = redis.fails
    BY <2>1 DEF RInv, Forms
  <2>3. /\ sat[c] = "bar" /\ sat'[c] = "idle" /\ sarg'[c] = SNoArg
        /\ missed' = (missed \/ ~up)
    BY <2>1, GoMoves
  <2>4. n \in Names BY <2>3 DEF CInv, CallFits
  <2>5. /\ redis'.fails = [m \in Names |-> redis'.fails[m]]
        /\ strikes' = [m \in Names |-> strikes'[m]] /\ \A m \in Names : strikes'[m] \in Nat
    BY <2>1, <2>2 DEF CInv, Shapes
  <2>6. ASSUME ~missed', LocksAt(c) PROVE LocksAt(c)'
    BY <2>1, <2>2, <2>3, <2>4, <2>6 DEF LocksAt
  <2>7. ~Issued(c)' BY <2>3 DEF Issued
  <2> QED BY <2>1, <2>2, <2>3, <2>5, <2>6, <2>7, LockStepKeeps
<1> QED BY <1>1, <1>2

\* A pardon takes the count and the lock together.
LEMMA PardonKeeps ==
  ASSUME RInv, CInv, SerialInv, NEW c \in SCalls,
         LoginClear(c) \/ UnlockNik(c) \/ UnlockEmail(c)
  PROVE  CInv' /\ SerialInv'
<1>1. PICK from \in {"clear", "nik", "email"}, next \in {"issue", "email", "idle"}, n \in Names :
        /\ SGo(c, from, next) /\ Pardoned(n) /\ UNCHANGED Tokens
        /\ from = "clear" <=> next = "issue"
  <2>1. CASE LoginClear(c)
    <3>1. sarg[c].name \in Names BY <2>1 DEF LoginClear, SGo, CInv, CallFits
    <3> QED BY <2>1, <3>1 DEF LoginClear
  <2>2. ASSUME NEW kind \in {"nik", "email"}, SGo(c, "nik", "email") \/ SGo(c, "email", "idle")
        PROVE  <<sarg[c].user, kind>> \in Names
    BY <2>2 DEF SGo, CInv, CallFits, Names
  <2> QED BY <2>1, <2>2 DEF UnlockNik, UnlockEmail
<1>2. /\ redis' = [session |-> redis.session, banned |-> redis'.banned, fails |-> redis'.fails,
                   locked |-> redis'.locked, master |-> redis.master, online |-> redis'.online]
      /\ redis'.locked = IF up THEN redis.locked \ {n} ELSE redis.locked
      /\ redis'.fails = IF up THEN [redis.fails EXCEPT ![n] = 0] ELSE redis.fails
      /\ strikes' = [strikes EXCEPT ![n] = 0]
  BY <1>1 DEF RInv, Forms, Pardoned
<1>3. /\ Moved(c) /\ sat[c] = from /\ sat'[c] = next
      /\ sarg'[c] = IF next = "idle" THEN SNoArg ELSE sarg[c]
      /\ missed' = (missed \/ ~up)
      /\ UNCHANGED <<owner, masters>>
  BY <1>1, GoMoves DEF Tokens
<1>4. /\ redis'.fails = [m \in Names |-> redis'.fails[m]]
      /\ strikes' = [m \in Names |-> strikes'[m]] /\ \A m \in Names : strikes'[m] \in Nat
  BY <1>2 DEF CInv, Shapes
<1>5. next # "idle" => CallFits(c)' /\ (next = "issue" => sarg[c].then # "give")
  <2>1. CallFits(c) BY DEF CInv
  <2> QED BY <1>1, <1>3, <2>1 DEF CallFits, Issued
<1>6. ASSUME ~missed', LocksAt(c) PROVE LocksAt(c)'
  <2>1. up BY <1>3, <1>6
  <2>2. /\ redis'.fails[n] = 0 /\ strikes'[n] = 0
        /\ \A m \in Names \ {n} : redis'.fails[m] = redis.fails[m] /\ strikes'[m] = strikes[m]
    BY <1>2, <2>1 DEF CInv, Shapes
  <2>3. ~(0 >= MaxFails) BY SessionsAssumption
  <2> QED BY <1>1, <1>2, <1>3, <1>6, <2>1, <2>2, <2>3 DEF LocksAt
<1>7. ~Issued(c)' BY <1>1, <1>3 DEF Issued
<1> QED BY <1>1, <1>2, <1>4, <1>5, <1>6, <1>7, LockStepKeeps

\* The pair that is signed is nobody's yet.
LEMMA IssueFits ==
  ASSUME RInv, CInv, SerialInv, NEW c \in SCalls, NEW next \in {"mark", "cached?"},
         Issue(c, next), next = "cached?" <=> sarg[c].then = "give"
  PROVE  CInv' /\ SerialInv'
<1> DEFINE user == sarg[c].user
<1>1. PICK p \in Unsigned :
        /\ sat[c] = "issue" /\ sat' = [sat EXCEPT ![c] = next]
        /\ sarg' = [sarg EXCEPT ![c].new = p]
        /\ owner' = [owner EXCEPT ![p] = user]
        /\ masters' = IF sarg[c].master THEN masters \cup {p} ELSE masters
        /\ redis' = IF up THEN [redis EXCEPT !.session = [redis.session EXCEPT ![user] = p]]
                    ELSE redis
        /\ missed' = (missed \/ ~up)
        /\ UNCHANGED <<soverlap, memory, account, held, latest, strikes, aged, restarted>>
  BY DEF Issue, Stored
<1>2. /\ sat'[c] = next /\ sarg'[c] = [sarg[c] EXCEPT !.new = p] /\ Moved(c)
      /\ sat[c] # "idle"
  BY <1>1 DEF RInv, Forms, Moved
<1>3. /\ sarg'[c].user = user /\ sarg'[c].pair = sarg[c].pair /\ sarg'[c].new = p
      /\ sarg'[c].then = sarg[c].then /\ sarg'[c].master = sarg[c].master
      /\ sarg'[c].name = sarg[c].name
  <2>1. IsArg(sarg[c]) BY DEF RInv, Forms
  <2> QED BY <1>2, <2>1 DEF IsArg
<1>4. user \in SUsers /\ p \in Pairs /\ owner[p] = NoOne /\ NoOne \notin SUsers
  BY <1>1, SessionsAssumption DEF CInv, CallFits, Unsigned
<1>5. ~Signed(p) BY <1>4 DEF Signed
<1>6. p \notin held /\ p \notin masters BY <1>5 DEF CInv, Shapes
<1>7. /\ redis'.session = IF up THEN [redis.session EXCEPT ![user] = p] ELSE redis.session
      /\ UNCHANGED <<redis.fails, redis.locked, redis.master>>
  BY <1>1 DEF RInv, Forms
<1> HIDE DEF user
<1>8. /\ owner'[p] = user /\ \A q \in Pairs \ {p} : owner'[q] = owner[q]
      /\ owner' = [q \in Pairs |-> owner'[q]]
  BY <1>1, <1>4 DEF CInv, Shapes
<1>9. Signed(p)' BY <1>4, <1>8 DEF Signed
<1>10. \A q : Signed(q) => q # p /\ owner'[q] = owner[q] /\ Signed(q)'
  BY <1>5, <1>8 DEF Signed
<1>11. /\ redis'.session = [u \in SUsers |-> redis'.session[u]]
       /\ \A u \in SUsers : redis'.session[u] = IF up /\ u = user THEN p ELSE redis.session[u]
  BY <1>4, <1>7 DEF CInv, Shapes
<1>12. Shapes'
  <2>1. ASSUME NEW u \in SUsers, redis'.session[u] # NoOne
        PROVE  redis'.session[u] \in Pairs /\ owner'[redis'.session[u]] = u
    <3>1. CASE up /\ u = user BY <1>4, <1>8, <1>11, <3>1
    <3>2. CASE ~(up /\ u = user)
      <4>1. redis'.session[u] = redis.session[u] BY <1>11, <3>2
      <4>2. Signed(redis.session[u]) /\ owner[redis.session[u]] = u
        BY <2>1, <4>1 DEF CInv, Shapes
      <4> QED BY <1>10, <4>1, <4>2 DEF Signed
    <3> QED BY <3>1, <3>2
  <2>2. \A q \in held' \cup masters' : Signed(q)'
    <3>1. \A q \in held \cup masters : Signed(q) BY DEF CInv, Shapes
    <3> QED BY <1>1, <1>9, <1>10, <3>1
  <2>3. (\A u \in SUsers : redis.session[u] # NoOne =>
           Signed(redis.session[u]) /\ owner[redis.session[u]] = u)'
    BY <2>1 DEF Signed
  <2> QED BY <1>1, <1>7, <1>8, <1>11, <2>2, <2>3 DEF CInv, Shapes
<1>13. CallFits(c)'
  <2>1. CallFits(c) BY DEF CInv
  <2>2. masters \subseteq masters' BY <1>1
  <2>3. p \in masters' => sarg[c].master BY <1>1, <1>6
  <2> QED BY <1>1, <1>2, <1>3, <1>4, <1>8, <1>9, <2>1, <2>2, <2>3 DEF CallFits, Issued, user
<1>14. CInv'
  <2>1. \A q \in Pairs : owner[q] \in SUsers =>
           owner'[q] = owner[q] /\ (q \in masters' => q \in masters)
    BY <1>1, <1>4, <1>8
  <2>2. held \subseteq held' /\ masters \subseteq masters' BY <1>1
  <2> QED BY <1>2, <1>12, <1>13, <2>1, <2>2, FitKeeps
<1>15. ASSUME At(c) PROVE At(c)'
  <2>2. ASSUME ~missed' PROVE LatestAt(c)'
    <3>1. up /\ LatestAt(c) BY <1>1, <1>15, <2>2 DEF At
    <3>2. \A q \in held : Signed(q) BY DEF CInv, Shapes
    <3>3. ASSUME NEW q \in held', redis'.session[owner'[q]] = q PROVE q = latest'[owner'[q]]
      <4>1. q \in held /\ q # p /\ owner'[q] = owner[q] /\ owner[q] \in SUsers
        BY <1>1, <1>10, <3>2, <3>3 DEF Signed
      <4> QED BY <1>1, <1>11, <3>1, <3>3, <4>1 DEF LatestAt
    <3> QED BY <1>3, <1>4, <1>11, <3>1, <3>3 DEF LatestAt
  <2>3. ASSUME ~missed' PROVE MasterAt(c)'
    <3>1. MasterAt(c) BY <1>1, <1>15, <2>3 DEF At
    <3>2. \A u \in SUsers : redis'.session[u] \in masters' \cap held' =>
                              redis.session[u] \in masters \cap held
      BY <1>1, <1>6, <1>11
    <3> QED BY <1>1, <1>2, <1>3, <1>7, <3>1, <3>2 DEF MasterAt, user
  <2>4. ~missed' /\ ~restarted' => LocksAt(c)'
    BY <1>1, <1>2, <1>7, <1>15 DEF At, LocksAt
  <2> QED BY <2>2, <2>3, <2>4 DEF At
<1> QED BY <1>2, <1>14, <1>15, SerialKeeps

\* The client is given the pair that is the session of its user.
LEMMA GivenKeeps ==
  ASSUME RInv, CInv, NEW c \in SCalls, Issued(c), Given(c), sat[c] # "idle",
         sat'[c] = "idle", UNCHANGED owner, redis'.session = redis.session
  PROVE  /\ \A p \in held' : Signed(p)
         /\ latest' = [u \in SUsers |-> latest'[u]]
         /\ LatestAt(c) => LatestAt(c)'
<1> DEFINE user == sarg[c].user
           new == sarg[c].new
<1>1. /\ held' = held \cup {new} /\ latest' = [latest EXCEPT ![user] = new]
      /\ user \in SUsers /\ Signed(new) /\ owner[new] = user
  BY DEF Given, CInv, CallFits
<1>2. /\ latest = [u \in SUsers |-> latest[u]] /\ \A p \in held : Signed(p)
  BY DEF CInv, Shapes
<1>3. LatestAt(c) => redis.session[user] = new BY DEF LatestAt
<1>4. ~Issued(c)' BY DEF Issued
<1> HIDE DEF user, new
<1>5. latest'[user] = new /\ \A u \in SUsers \ {user} : latest'[u] = latest[u]
  BY <1>1, <1>2
<1> QED BY <1>1, <1>2, <1>3, <1>4, <1>5 DEF LatestAt, Signed

LEMMA MarkKeeps ==
  ASSUME RInv, CInv, SerialInv, NEW c \in SCalls, LoginMark(c)
  PROVE  CInv' /\ SerialInv'
<1> DEFINE user == sarg[c].user
           new == sarg[c].new
           marked == (redis.master \cup {user}) \ (IF sarg[c].master THEN {} ELSE {user})
<1>1. /\ sat[c] = "mark" /\ sat' = [sat EXCEPT ![c] = "idle"]
      /\ sarg' = [sarg EXCEPT ![c] = SNoArg] /\ Given(c)
      /\ aged' = aged \ {user} /\ missed' = (missed \/ ~up)
      /\ UNCHANGED <<soverlap, account, owner, masters, strikes, restarted>>
  BY DEF LoginMark
<1>2. /\ UNCHANGED <<redis.session, redis.fails, redis.locked>>
      /\ redis'.master = IF up THEN marked ELSE redis.master
      /\ memory'.user = memory.user
  BY DEF LoginMark, RInv, Forms
<1>3. sat'[c] = "idle" /\ sarg'[c] = SNoArg /\ Moved(c)
  BY <1>1 DEF RInv, Forms, Moved
<1>4. Issued(c) /\ user \in SUsers /\ Signed(new) /\ owner[new] = user
      /\ (new \in masters => sarg[c].master)
  BY <1>1 DEF Issued, CInv, CallFits
<1>5. held' = held \cup {new} BY <1>1 DEF Given
<1> HIDE DEF user, new
<1>6. /\ \A p \in held' : Signed(p)
      /\ latest' = [u \in SUsers |-> latest'[u]]
      /\ LatestAt(c) => LatestAt(c)'
  BY <1>1, <1>2, <1>3, <1>4, GivenKeeps
<1>7. Shapes' BY <1>1, <1>2, <1>6 DEF CInv, Shapes, Signed
<1>8. CInv'
  <2>1. held \subseteq held' BY <1>5
  <2> QED BY <1>1, <1>3, <1>7, <2>1, EndFits, FitKeeps
<1>9. ASSUME At(c) PROVE At(c)'
  <2>2. ~missed' => LatestAt(c)' BY <1>1, <1>6, <1>9 DEF At
  <2>3. ASSUME ~missed' PROVE MasterAt(c)'
    <3>1. MasterAt(c) /\ LatestAt(c) /\ redis'.master = marked BY <1>1, <1>2, <1>9, <2>3 DEF At
    <3>2. ASSUME NEW u \in SUsers \ aged', redis'.session[u] \in masters' \cap held'
          PROVE  u \in redis'.master
      <4>1. CASE u = user
        <5>1. redis.session[user] = new BY <1>4, <3>1 DEF LatestAt, user, new
        <5> QED BY <1>1, <1>2, <1>4, <3>1, <3>2, <4>1, <5>1
      <4>2. CASE u # user
        <5>1. redis.session[u] # NoOne
          <6>1. Signed(redis.session[u]) BY <1>1, <1>2, <3>2 DEF CInv, Shapes
          <6> QED BY <6>1, SessionsAssumption DEF Signed, Pairs
        <5>2. owner[redis.session[u]] = u BY <5>1 DEF CInv, Shapes
        <5> QED BY <1>1, <1>2, <1>4, <1>5, <3>1, <3>2, <4>2, <5>2 DEF MasterAt
      <4> QED BY <4>1, <4>2
    <3> QED BY <1>3, <3>2 DEF MasterAt
  <2>4. ~missed' /\ ~restarted' => LocksAt(c)'
    BY <1>1, <1>2, <1>3, <1>9 DEF At, LocksAt
  <2> QED BY <2>2, <2>3, <2>4 DEF At
<1> QED BY <1>3, <1>8, <1>9, SerialKeeps

\* The user is resolved; a call that refreshes gives its pair.
LEMMA AnsweredKeeps ==
  ASSUME RInv, CInv, SerialInv, NEW c \in SCalls, NEW from \in {"cached?", "fill"},
         SGo(c, from, AfterUser(c)), Answered(c),
         UNCHANGED <<redis, owner, masters, strikes>>,
         memory'.user = [u \in SUsers |-> memory'.user[u]]
  PROVE  CInv' /\ SerialInv'
<1> DEFINE next == AfterUser(c)
<1>1. /\ Moved(c) /\ sat[c] = from /\ sat'[c] = next
      /\ sarg'[c] = IF next = "idle" THEN SNoArg ELSE sarg[c]
      /\ missed' = (missed \/ ~up)
      /\ UNCHANGED <<soverlap, up, account, aged, restarted>>
  BY GoMoves
<1>2. /\ next \in {"idle", "end", "beat"} /\ (next = "end" => sarg[c].then = "logout")
      /\ sarg[c].then = "give" => next = "idle"
  BY DEF AfterUser
<1> HIDE DEF next
<1>3. CallFits(c) BY DEF CInv
<1>4. /\ \A p \in held' : Signed(p)
      /\ latest' = [u \in SUsers |-> latest'[u]]
      /\ LatestAt(c) => LatestAt(c)'
      /\ held \subseteq held'
  <2>1. CASE sarg[c].then = "give"
    <3>1. Given(c) /\ Issued(c) BY <1>1, <2>1 DEF Answered, Issued
    <3> QED BY <1>1, <1>2, <2>1, <3>1, GivenKeeps DEF Given
  <2>2. CASE sarg[c].then # "give"
    <3>1. UNCHANGED <<held, latest>> /\ ~Issued(c)'
      BY <1>1, <1>2, <2>2 DEF Answered, Issued
    <3>2. latest' = [u \in SUsers |-> latest'[u]] /\ \A p \in held' : Signed(p)
      BY <3>1 DEF CInv, Shapes
    <3> QED BY <3>1, <3>2 DEF LatestAt
  <2> QED BY <2>1, <2>2
<1>5. Shapes' BY <1>1, <1>4 DEF CInv, Shapes, Signed
<1>6. CallFits(c)'
  <2>1. CASE next = "idle" BY <1>1, <2>1, EndFits
  <2>2. CASE next # "idle" BY <1>1, <1>2, <1>3, <2>2 DEF CallFits, Issued
  <2> QED BY <2>1, <2>2
<1>7. CInv' BY <1>1, <1>4, <1>5, <1>6, FitKeeps
<1>8. ASSUME At(c) PROVE At(c)'
  <2>2. ~missed' => LatestAt(c)' BY <1>1, <1>4, <1>8 DEF At
  <2>3. ASSUME ~missed' PROVE MasterAt(c)'
    <3>1. MasterAt(c) /\ LatestAt(c) BY <1>1, <1>8, <2>3 DEF At
    <3>2. CASE sarg[c].then = "give"
      <4> DEFINE user == sarg[c].user
                 new == sarg[c].new
      <4>1. /\ user \in SUsers /\ Signed(new) /\ owner[new] = user
            /\ new \in masters => sarg[c].master
            /\ held' = held \cup {new}
            /\ redis.session[user] = new
            /\ sarg[c].master => user \in aged \cup redis.master
        BY <1>1, <1>3, <3>1, <3>2 DEF CallFits, Issued, Answered, Given, LatestAt, MasterAt
      <4> HIDE DEF user, new
      <4>2. ASSUME NEW u \in SUsers \ aged', redis'.session[u] \in masters' \cap held'
            PROVE  u \in redis'.master
        <5>1. CASE u = user BY <1>1, <4>1, <4>2, <5>1
        <5>2. CASE u # user
          <6>1. redis.session[u] # NoOne
            <7>1. Signed(redis.session[u]) BY <1>1, <4>2 DEF CInv, Shapes
            <7> QED BY <7>1, SessionsAssumption DEF Signed, Pairs
          <6>2. owner[redis.session[u]] = u BY <6>1 DEF CInv, Shapes
          <6> QED BY <1>1, <3>1, <4>1, <4>2, <5>2, <6>2 DEF MasterAt
        <5> QED BY <5>1, <5>2
      <4> QED BY <1>1, <1>2, <3>2, <4>2 DEF MasterAt
    <3>3. CASE sarg[c].then # "give"
      BY <1>1, <1>2, <3>1, <3>3 DEF MasterAt, Answered
    <3> QED BY <3>2, <3>3
  <2>4. ~missed' /\ ~restarted' => LocksAt(c)'
    BY <1>1, <1>2, <1>8 DEF At, LocksAt
  <2> QED BY <2>2, <2>3, <2>4 DEF At
<1> QED BY <1>1, <1>7, <1>8, SerialKeeps

\* The user is resolved from the cache or from the database.
LEMMA ResolveKeeps ==
  ASSUME RInv, CInv, SerialInv, NEW c \in SCalls,
         ResolveCached(c) \/ ResolveFill(c) \/ ResolveRead(c)
  PROVE  CInv' /\ SerialInv'
<1>1. CASE ResolveCached(c)
  <2>1. memory'.user = [u \in SUsers |-> memory'.user[u]]
    BY <1>1 DEF ResolveCached, CInv, Shapes
  <2> QED BY <1>1, <2>1, AnsweredKeeps DEF ResolveCached
<1>2. CASE ResolveFill(c)
  <2> DEFINE user == sarg[c].user
             entry == [rights |-> sarg[c].rights]
  <2>1. sat[c] = "fill" /\ user \in SUsers BY <1>2 DEF ResolveFill, SGo, CInv, CallFits
  <2>2. memory'.user = [memory.user EXCEPT ![user] = entry]
    BY <1>2 DEF ResolveFill, RInv, Forms
  <2> HIDE DEF entry
  <2>4. memory'.user = [u \in SUsers |-> memory'.user[u]] /\ memory'.user[user] = entry
        /\ \A u \in SUsers \ {user} : memory'.user[u] = memory.user[u]
    BY <2>1, <2>2 DEF CInv, Shapes
  <2> QED BY <1>2, <2>4, AnsweredKeeps DEF ResolveFill
<1>3. CASE ResolveRead(c)
  <2> DEFINE a == account[sarg[c].user]
             args == IF a.active THEN [sarg[c] EXCEPT !.rights = a.rights] ELSE SNoArg
             next == IF a.active THEN "fill" ELSE "idle"
  <2>1. /\ sat[c] = "cached?" /\ sat' = [sat EXCEPT ![c] = next]
        /\ sarg' = [sarg EXCEPT ![c] = args]
        /\ missed' = (missed \/ ~up)
        /\ UNCHANGED <<soverlap, account, aged, restarted, redis, memory, owner, masters,
                       held, latest, strikes>>
    BY <1>3 DEF ResolveRead, Tokens
  <2>2. sat'[c] = next /\ sarg'[c] = args /\ Moved(c)
    BY <2>1 DEF RInv, Forms, Moved
  <2>3. next = "idle" => args = SNoArg OBVIOUS
  <2>4. ASSUME next # "idle"
        PROVE  /\ next = "fill" /\ args.user = sarg[c].user /\ args.pair = sarg[c].pair
               /\ args.new = sarg[c].new /\ args.then = sarg[c].then
               /\ args.master = sarg[c].master /\ args.name = sarg[c].name
    <3>1. IsArg(sarg[c]) BY DEF RInv, Forms
    <3>2. args = [sarg[c] EXCEPT !.rights = a.rights] /\ next = "fill" BY <2>4
    <3> HIDE DEF next
    <3> QED BY <3>1, <3>2 DEF IsArg
  <2> HIDE DEF args, next
  <2>5. Shapes' BY <2>1 DEF CInv, Shapes, Signed
  <2>6. CallFits(c)'
    <3>1. CASE next = "idle" BY <2>2, <2>3, <3>1, EndFits
    <3>2. CASE next # "idle"
      <4>1. CallFits(c) BY DEF CInv
      <4>2. /\ sat'[c] = "fill" /\ sat[c] = "cached?"
            /\ sarg'[c].user = sarg[c].user /\ sarg'[c].pair = sarg[c].pair
            /\ sarg'[c].new = sarg[c].new /\ sarg'[c].then = sarg[c].then
            /\ sarg'[c].master = sarg[c].master
        BY <2>1, <2>2, <2>4, <3>2
      <4>3. UNCHANGED <<owner, masters>> BY <2>1
      <4> QED BY <4>1, <4>2, <4>3 DEF CallFits, Issued, Signed
    <3> QED BY <3>1, <3>2
  <2>7. CInv' BY <2>1, <2>2, <2>5, <2>6, FitKeeps
  <2>8. ASSUME At(c) PROVE At(c)'
    <3>2. ~missed' => LatestAt(c)'
      BY <2>1, <2>2, <2>4, <2>8 DEF At, LatestAt, Issued
    <3>3. ~missed' => MasterAt(c)'
      BY <2>1, <2>2, <2>4, <2>8 DEF At, MasterAt
    <3>4. ~missed' /\ ~restarted' => LocksAt(c)'
      BY <2>1, <2>2, <2>4, <2>8 DEF At, LocksAt
    <3> QED BY <3>2, <3>3, <3>4 DEF At
  <2> QED BY <2>2, <2>7, <2>8, SerialKeeps
<1> QED BY <1>1, <1>2, <1>3

\* Bans and presence are of no account here.
LEMMA AsideKeeps ==
  ASSUME RInv, CInv, SerialInv, NEW c \in SCalls, BanRefresh(c) \/ LogoutBan(c) \/ Beat(c)
  PROVE  CInv' /\ SerialInv'
<1>1. PICK from \in {"ban", "beat"}, next \in {"issue", "idle"} :
        SGo(c, from, next) /\ (next = "issue" => from = "ban" /\ sarg[c].then = "give")
  BY DEF BanRefresh, LogoutBan, Beat
<1>2. /\ UNCHANGED <<owner, masters, held, latest, strikes, memory.user>>
      /\ UNCHANGED <<redis.session, redis.fails, redis.locked, redis.master>>
  BY DEF BanRefresh, LogoutBan, Beat, Ban, Stored, RInv, Forms
<1>3. /\ Moved(c) /\ sat[c] = from /\ sat'[c] = next
      /\ sarg'[c] = IF next = "idle" THEN SNoArg ELSE sarg[c]
      /\ missed' = (missed \/ ~up)
      /\ UNCHANGED <<soverlap, up, account, aged, restarted>>
  BY <1>1, GoMoves
<1>4. Shapes' BY <1>2, <1>3 DEF CInv, Shapes, Signed
<1>5. CallFits(c)'
  <2>1. CASE next = "idle" BY <1>3, <2>1, EndFits
  <2>2. CASE next # "idle"
    <3>1. CallFits(c) BY DEF CInv
    <3> QED BY <1>1, <1>2, <1>3, <2>2, <3>1 DEF CallFits, Issued
  <2> QED BY <2>1, <2>2
<1>6. CInv' BY <1>2, <1>3, <1>4, <1>5, FitKeeps
<1>7. ASSUME At(c) PROVE At(c)'
  <2>2. ~missed' => LatestAt(c)' BY <1>1, <1>2, <1>3, <1>7 DEF At, LatestAt, Issued
  <2>3. ~missed' => MasterAt(c)' BY <1>1, <1>2, <1>3, <1>7 DEF At, MasterAt
  <2>4. ~missed' /\ ~restarted' => LocksAt(c)' BY <1>1, <1>2, <1>3, <1>7 DEF At, LocksAt
  <2> QED BY <2>2, <2>3, <2>4 DEF At
<1> QED BY <1>3, <1>6, <1>7, SerialKeeps

\* A logout takes the session and what its user had.
LEMMA ClearKeeps ==
  ASSUME RInv, CInv, SerialInv, NEW c \in SCalls, LogoutClear(c)
  PROVE  CInv' /\ SerialInv'
<1> DEFINE user == sarg[c].user
<1>1. /\ SGo(c, "end", "ban") /\ latest' = [latest EXCEPT ![user] = NoOne]
      /\ redis' = IF up THEN [redis EXCEPT !.session = [redis.session EXCEPT ![user] = NoOne]]
                  ELSE redis
      /\ UNCHANGED <<memory, owner, masters, held, strikes>>
  BY DEF LogoutClear, Stored
<1>2. /\ redis'.session = IF up THEN [redis.session EXCEPT ![user] = NoOne] ELSE redis.session
      /\ UNCHANGED <<redis.fails, redis.locked, redis.master>>
  BY <1>1 DEF RInv, Forms
<1>3. /\ Moved(c) /\ sat[c] = "end" /\ sat'[c] = "ban" /\ sarg'[c] = sarg[c]
      /\ missed' = (missed \/ ~up)
      /\ UNCHANGED <<soverlap, up, account, aged, restarted>>
  BY <1>1, GoMoves
<1>4. user \in SUsers /\ sarg[c].then = "logout" /\ CallFits(c)
  BY <1>3 DEF CInv, CallFits
<1> HIDE DEF user
<1>5. /\ redis'.session = [u \in SUsers |-> redis'.session[u]]
      /\ \A u \in SUsers : redis'.session[u] = IF up /\ u = user THEN NoOne ELSE redis.session[u]
  <2>1. redis.session = [u \in SUsers |-> redis.session[u]] BY DEF CInv, Shapes
  <2>2. CASE up
    <3>1. redis'.session = [redis.session EXCEPT ![user] = NoOne] BY <1>2, <2>2
    <3> QED BY <1>4, <2>1, <2>2, <3>1
  <2>3. CASE ~up BY <1>2, <2>1, <2>3
  <2> QED BY <2>2, <2>3
<1>5a. /\ latest' = [u \in SUsers |-> latest'[u]]
      /\ \A u \in SUsers : latest'[u] = IF u = user THEN NoOne ELSE latest[u]
  <2>1. latest = [u \in SUsers |-> latest[u]] BY DEF CInv, Shapes
  <2> QED BY <1>1, <1>4, <2>1
<1>6. Shapes'
  <2>1. (\A u \in SUsers : redis.session[u] # NoOne =>
           Signed(redis.session[u]) /\ owner[redis.session[u]] = u)'
    <3> SUFFICES ASSUME NEW u \in SUsers, redis'.session[u] # NoOne
                 PROVE  /\ redis'.session[u] \in Pairs /\ owner'[redis'.session[u]] = u
      BY DEF Signed
    <3>1. redis'.session[u] = redis.session[u] BY <1>5
    <3> QED BY <1>1, <3>1 DEF CInv, Shapes, Signed
  <2>2. (\A p \in held \cup masters : Signed(p))' BY <1>1 DEF CInv, Shapes, Signed
  <2> QED BY <1>1, <1>2, <1>3, <1>5, <1>5a, <2>1, <2>2 DEF CInv, Shapes
<1>7. CallFits(c)' BY <1>1, <1>3, <1>4 DEF CallFits, Issued
<1>8. CInv' BY <1>1, <1>3, <1>6, <1>7, FitKeeps
<1>9. ASSUME At(c) PROVE At(c)'
  <2>2. ASSUME ~missed' PROVE LatestAt(c)'
    <3>1. LatestAt(c) /\ up BY <1>3, <1>9, <2>2 DEF At
    <3>2. ASSUME NEW p \in held', redis'.session[owner'[p]] = p PROVE p = latest'[owner'[p]]
      <4>1. p \in held /\ p \in Pairs /\ owner'[p] = owner[p] /\ owner[p] \in SUsers
        BY <1>1, <3>2 DEF CInv, Shapes, Signed
      <4>2. p # NoOne BY <4>1, SessionsAssumption DEF Pairs
      <4> QED BY <1>5, <1>5a, <3>1, <3>2, <4>1, <4>2 DEF LatestAt
    <3> QED BY <1>3, <3>2 DEF LatestAt, Issued
  <2>3. ASSUME ~missed' PROVE MasterAt(c)'
    <3>1. MasterAt(c) /\ up BY <1>3, <1>9, <2>3 DEF At
    <3>2. NoOne \notin masters
      <4>1. NoOne \notin Pairs BY SessionsAssumption DEF Pairs
      <4> QED BY <4>1 DEF CInv, Shapes, Signed
    <3> QED BY <1>1, <1>2, <1>3, <1>4, <1>5, <3>1, <3>2 DEF MasterAt
  <2>4. ~missed' /\ ~restarted' => LocksAt(c)' BY <1>1, <1>2, <1>3, <1>9 DEF At, LocksAt
  <2> QED BY <2>2, <2>3, <2>4 DEF At
<1> QED BY <1>3, <1>8, <1>9, SerialKeeps

\* A change of rights ends.
LEMMA ForgetKeeps ==
  ASSUME RInv, CInv, SerialInv, NEW c \in SCalls, Forget(c)
  PROVE  CInv' /\ SerialInv'
<1> DEFINE user == sarg[c].user
<1>1. /\ memory'.user = [memory.user EXCEPT ![user] = NoOne]
      /\ UNCHANGED <<redis, owner, masters, held, latest, strikes>>
  BY DEF Forget, Dropping, RInv, Forms
<1>2. /\ Moved(c) /\ sat[c] = "forget" /\ sat'[c] = "idle" /\ sarg'[c] = SNoArg
      /\ missed' = (missed \/ ~up)
      /\ UNCHANGED <<soverlap, up, account, aged, restarted>>
  BY DEF Forget, Dropping, Moved, RInv, Forms
<1>3. user \in SUsers BY <1>2 DEF CInv, CallFits
<1>4. /\ memory'.user = [u \in SUsers |-> memory'.user[u]] /\ memory'.user[user] = NoOne
      /\ \A u \in SUsers \ {user} : memory'.user[u] = memory.user[u]
  BY <1>1, <1>3 DEF CInv, Shapes
<1>5. Shapes' BY <1>1, <1>2, <1>4 DEF CInv, Shapes, Signed
<1>6. CInv' BY <1>1, <1>2, <1>5, EndFits, FitKeeps
<1>7. ASSUME At(c) PROVE At(c)'
  <2>2. ~missed' => LatestAt(c)' BY <1>1, <1>2, <1>7 DEF At, LatestAt, Issued
  <2>3. ~missed' => MasterAt(c)' BY <1>1, <1>2, <1>7 DEF At, MasterAt
  <2>4. ~missed' /\ ~restarted' => LocksAt(c)' BY <1>1, <1>2, <1>7 DEF At, LocksAt
  <2> QED BY <2>2, <2>3, <2>4 DEF At
<1> QED BY <1>2, <1>6, <1>7, SerialKeeps

\* A call that begins.
LEMMA BeginKeeps ==
  ASSUME RInv, CInv, SerialInv, NEW c \in SCalls,
         NEW next \in {"lock?", "find", "banned?", "nik"}, NEW args, SStart(c, next, args),
         args.user \in SUsers, args.then = "give" /\ args.master => args.pair \in masters,
         next \in {"lock?", "find"} => args.name \in Names /\ args.then = "",
         next = "banned?" => args.pair \in held /\ args.user = owner[args.pair]
  PROVE  CInv' /\ SerialInv'
<1>1. /\ sat[c] = "idle" /\ (soverlap \/ AllIdle) /\ sat' = [sat EXCEPT ![c] = next]
      /\ sarg' = [sarg EXCEPT ![c] = args]
      /\ UNCHANGED <<soverlap, redis, memory, account, owner, masters, held, latest, strikes,
                     aged, missed, restarted>>
  BY DEF SStart, history
<1>2. /\ sat'[c] = next /\ sarg'[c] = args /\ Moved(c)
  BY <1>1 DEF RInv, Forms, Moved
<1>3. Shapes' BY <1>1 DEF CInv, Shapes, Signed
<1>4. CallFits(c)'
  <2>1. UNCHANGED <<owner, masters, held>> BY <1>1
  <2> QED BY <1>2, <2>1 DEF CallFits, Issued
<1>5. CInv' BY <1>1, <1>2, <1>3, <1>4, FitKeeps
<1>6. ASSUME At(c) PROVE At(c)'
  BY <1>1, <1>2, <1>6 DEF At, LatestAt, MasterAt, LocksAt, Issued
<1> QED BY <1>2, <1>5, <1>6, SerialKeeps

\* A call begins with what it was asked.
LEMMA StartsKeep ==
  ASSUME RInv, CInv, SerialInv, NEW c \in SCalls,
         \/ \E u \in SUsers : \/ \E n \in Names, good, master \in BOOLEAN :
                                   Login(c, u, n, good, master)
                              \/ Unlock(c, u)
         \/ \E p \in Pairs : Refresh(c, p) \/ Request(c, p) \/ Heartbeat(c, p) \/ Logout(c, p)
  PROVE  CInv' /\ SerialInv'
<1>1. ASSUME NEW u \in SUsers, NEW n \in Names, NEW good \in BOOLEAN, NEW master \in BOOLEAN,
             Login(c, u, n, good, master)
      PROVE  CInv' /\ SerialInv'
  <2>1. PICK args : args = [SNoArg EXCEPT !.user = u, !.name = n, !.good = good,
                                          !.master = master]
    OBVIOUS
  <2>2. PICK next \in {"lock?", "find"} : SStart(c, next, args) BY <1>1, <2>1 DEF Login
  <2>3. args.user = u /\ args.name = n /\ args.then = "" BY <2>1 DEF SNoArg
  <2> QED BY <2>2, <2>3, BeginKeeps
<1>2. ASSUME NEW u \in SUsers, Unlock(c, u) PROVE CInv' /\ SerialInv'
  <2>1. PICK args : args = [SNoArg EXCEPT !.user = u] OBVIOUS
  <2>2. args.user = u /\ args.then = "" BY <2>1 DEF SNoArg
  <2>3. SStart(c, "nik", args) BY <1>2, <2>1 DEF Unlock
  <2> QED BY <2>2, <2>3, BeginKeeps
<1>3. ASSUME NEW p \in held, NEW args, SStart(c, "banned?", args),
             args.user = owner[p], args.pair = p,
             args.then = "give" /\ args.master => p \in masters
      PROVE  CInv' /\ SerialInv'
  <2>1. owner[p] \in SUsers BY DEF CInv, Shapes, Signed
  <2> QED BY <1>3, <2>1, BeginKeeps
<1>4. ASSUME NEW p \in Pairs, Refresh(c, p) PROVE CInv' /\ SerialInv'
  <2>1. PICK args : args = [SNoArg EXCEPT !.user = owner[p], !.pair = p, !.then = "give",
                                          !.late = (p \in exchanged), !.master = (p \in masters)]
    OBVIOUS
  <2>2. SStart(c, "banned?", args) /\ p \in held BY <1>4, <2>1 DEF Refresh
  <2>3. args.user = owner[p] /\ args.pair = p /\ args.master = (p \in masters)
    BY <2>1 DEF SNoArg
  <2> QED BY <1>3, <2>2, <2>3
<1>5. ASSUME NEW p \in Pairs, Heartbeat(c, p) PROVE CInv' /\ SerialInv'
  <2>1. PICK args : args = [SNoArg EXCEPT !.user = owner[p], !.pair = p, !.then = "beat",
                                          !.master = (p \in masters)]
    OBVIOUS
  <2>2. SStart(c, "banned?", args) /\ p \in held BY <1>5, <2>1 DEF Heartbeat
  <2>3. args.user = owner[p] /\ args.pair = p /\ args.then = "beat" BY <2>1 DEF SNoArg
  <2> QED BY <1>3, <2>2, <2>3
<1>6. ASSUME NEW p \in held, NEW then \in {"answer", "logout"},
             SStart(c, "banned?", [SNoArg EXCEPT !.user = owner[p], !.pair = p, !.then = then])
      PROVE  CInv' /\ SerialInv'
  <2>1. PICK args : args = [SNoArg EXCEPT !.user = owner[p], !.pair = p, !.then = then]
    OBVIOUS
  <2>2. SStart(c, "banned?", args) BY <1>6, <2>1
  <2>3. args.user = owner[p] /\ args.pair = p /\ args.then = then BY <2>1 DEF SNoArg
  <2> QED BY <1>3, <2>2, <2>3
<1> QED BY <1>1, <1>2, <1>4, <1>5, <1>6 DEF Request, Logout

\* A change of rights begins.
LEMMA ChangeKeeps ==
  ASSUME RInv, CInv, SerialInv, NEW c \in SCalls, NEW u \in SUsers, ChangeRights(c, u)
  PROVE  CInv' /\ SerialInv'
<1> DEFINE args == [sarg[c] EXCEPT !.user = u]
<1>1. /\ sat[c] = "idle" /\ (soverlap \/ AllIdle)
      /\ account' = [account EXCEPT ![u].rights = ~@]
      /\ sat' = [sat EXCEPT ![c] = "forget"] /\ sarg' = [sarg EXCEPT ![c] = args]
      /\ UNCHANGED <<soverlap, up, redis, memory, owner, masters, held, latest, strikes, aged,
                     missed, restarted>>
  BY DEF ChangeRights, history
<1>2. /\ args.user = u /\ args.pair = sarg[c].pair /\ args.then = sarg[c].then
      /\ args.master = sarg[c].master
  <2>1. IsArg(sarg[c]) BY DEF RInv, Forms
  <2> QED BY <2>1 DEF IsArg
<1> HIDE DEF args
<1>3. sat'[c] = "forget" /\ sarg'[c] = args /\ Moved(c)
  BY <1>1 DEF RInv, Forms, Moved
<1>4. /\ account' = [v \in SUsers |-> [active |-> account'[v].active, rights |-> account'[v].rights]]
      /\ \A v \in SUsers \ {u} : account'[v] = account[v]
  <2>1. account = [v \in SUsers |-> [active |-> account[v].active, rights |-> account[v].rights]]
    BY DEF CInv, Shapes
  <2>2. account' = [account EXCEPT ![u].rights = ~@] BY <1>1
  <2> QED BY <2>1, <2>2
<1>5. Shapes'
  <2>1. UNCHANGED <<soverlap, redis, memory, owner, masters, held, latest, strikes>> BY <1>1
  <2> QED BY <1>4, <2>1 DEF CInv, Shapes, Signed
<1>6. CallFits(c)'
  <2>1. CallFits(c) /\ UNCHANGED masters BY <1>1 DEF CInv
  <2> QED BY <1>2, <1>3, <2>1 DEF CallFits, Issued
<1>7. CInv' BY <1>1, <1>3, <1>5, <1>6, FitKeeps
<1>8. ASSUME At(c) PROVE At(c)'
  <2>2. ~missed' => LatestAt(c)' BY <1>1, <1>3, <1>8 DEF At, LatestAt, Issued
  <2>3. ~missed' => MasterAt(c)' BY <1>1, <1>3, <1>8 DEF At, MasterAt
  <2>4. ~missed' /\ ~restarted' => LocksAt(c)' BY <1>1, <1>3, <1>8 DEF At, LocksAt
  <2> QED BY <2>2, <2>3, <2>4 DEF At
<1> QED BY <1>3, <1>7, <1>8, SerialKeeps

\* The steps of the environment and the writes of no call.
LEMMA StillKeeps ==
  ASSUME CInv, SerialInv, UNCHANGED <<soverlap, sat, sarg, owner, masters, held>>, Shapes',
         \A c \in SCalls : ~soverlap /\ Alone(c) /\ At(c) => At(c)'
  PROVE  CInv' /\ SerialInv'
<1>1. \A c \in SCalls : CallFits(c)' BY DEF CInv, CallFits, Issued, Signed
<1>2. CInv' BY <1>1 DEF CInv, OneAtATime
<1>3. SerialInv' BY DEF SerialInv, Alone
<1> QED BY <1>2, <1>3

LEMMA WorldStays ==
  ASSUME RInv, CInv, SerialInv,
         \/ \E c \in SCalls, u \in SUsers : SetUserActive(c, u) \/ UpdateEmployeeType(c, u)
         \/ \E kept \in BOOLEAN : Outage(kept)
         \/ Back
         \/ \E n \in Names : LockExpires(n)
         \/ \E u \in SUsers : CacheExpires(u) \/ PresenceExpires(u) \/ MarkExpires(u)
  PROVE  CInv' /\ SerialInv'
<1>1. ASSUME NEW d \in SCalls, NEW u \in SUsers, SetUserActive(d, u) \/ UpdateEmployeeType(d, u)
      PROVE  CInv' /\ SerialInv'
  <2>1. /\ \/ account' = [account EXCEPT ![u].active = ~@]
           \/ account' = [account EXCEPT ![u].rights = ~@]
        /\ UNCHANGED <<soverlap, up, redis, memory, owner, masters, held, latest, strikes, aged,
                       missed, restarted, sat, sarg>>
    BY <1>1 DEF SetUserActive, UpdateEmployeeType, LeaveCache
  <2>2. account = [v \in SUsers |-> [active |-> account[v].active, rights |-> account[v].rights]]
    BY DEF CInv, Shapes
  <2>3. account' = [v \in SUsers |-> [active |-> account'[v].active, rights |-> account'[v].rights]]
    BY <2>1, <2>2
  <2>4. Shapes' BY <2>1, <2>3 DEF CInv, Shapes, Signed
  <2>5. ASSUME NEW c \in SCalls, At(c) PROVE At(c)'
    BY <2>1, <2>5 DEF At, LatestAt, MasterAt, LocksAt, Issued
  <2> QED BY <2>1, <2>4, <2>5, StillKeeps
<1>2. ASSUME NEW kept \in BOOLEAN, Outage(kept) PROVE CInv' /\ SerialInv'
  <2>1. /\ redis' = IF kept THEN redis
                    ELSE [session |-> [u \in SUsers |-> NoOne], banned |-> {},
                          fails |-> [n \in Names |-> 0], locked |-> {}, master |-> {}, online |-> {}]
        /\ missed' = (missed \/ ~kept \/ ~AllIdle)
        /\ UNCHANGED <<soverlap, memory, account, owner, masters, held, latest, strikes, aged,
                       restarted, sat, sarg>>
    BY <1>2 DEF Outage
  <2>2. Shapes'
    <3>1. CASE kept BY <2>1, <3>1 DEF CInv, Shapes, Signed
    <3>2. CASE ~kept
      <4>1. redis'.session = [u \in SUsers |-> NoOne] /\ redis'.fails = [n \in Names |-> 0]
        BY <2>1, <3>2
      <4> QED BY <2>1, <4>1 DEF CInv, Shapes, Signed
    <3> QED BY <3>1, <3>2
  <2>3. ASSUME NEW c \in SCalls, At(c) PROVE At(c)'
    <3>1. ~missed' => redis' = redis /\ ~missed BY <2>1
    <3> QED BY <2>1, <2>3, <3>1 DEF At, LatestAt, MasterAt, LocksAt, Issued
  <2> QED BY <2>1, <2>2, <2>3, StillKeeps
<1>3. CASE Back
  <2>1. /\ missed' = (missed \/ ~AllIdle)
        /\ UNCHANGED <<soverlap, redis, memory, account, owner, masters, held, latest, strikes,
                       aged, restarted, sat, sarg>>
    BY <1>3 DEF Back
  <2>2. Shapes' BY <2>1 DEF CInv, Shapes, Signed
  <2>3. ASSUME NEW c \in SCalls, At(c) PROVE At(c)'
    BY <2>1, <2>3 DEF At, LatestAt, MasterAt, LocksAt, Issued
  <2> QED BY <2>1, <2>2, <2>3, StillKeeps
<1>4. ASSUME NEW n \in Names, LockExpires(n) PROVE CInv' /\ SerialInv'
  <2>1. /\ UNCHANGED <<soverlap, up, memory, account, owner, masters, held, latest, aged,
                       missed, restarted, sat, sarg>>
        /\ redis' = [redis EXCEPT !.fails[n] = 0, !.locked = @ \ {n}]
        /\ strikes' = [strikes EXCEPT ![n] = 0] /\ AllIdle
    BY <1>4 DEF LockExpires, Tokens
  <2>2. /\ redis'.fails = [redis.fails EXCEPT ![n] = 0] /\ redis'.locked = redis.locked \ {n}
        /\ UNCHANGED <<redis.session, redis.master>>
    BY <2>1 DEF RInv, Forms
  <2>3. /\ redis'.fails = [m \in Names |-> redis'.fails[m]] /\ redis'.fails[n] = 0
        /\ \A m \in Names \ {n} : redis'.fails[m] = redis.fails[m]
    <3>1. redis.fails = [m \in Names |-> redis.fails[m]] BY DEF CInv, Shapes
    <3>2. redis'.fails = [redis.fails EXCEPT ![n] = 0] BY <2>2
    <3> QED BY <3>1, <3>2
  <2>4. /\ strikes' = [m \in Names |-> strikes'[m]] /\ strikes'[n] = 0
        /\ \A m \in Names \ {n} : strikes'[m] = strikes[m]
    <3>1. strikes = [m \in Names |-> strikes[m]] BY DEF CInv, Shapes
    <3>2. strikes' = [strikes EXCEPT ![n] = 0] BY <2>1
    <3> QED BY <3>1, <3>2
  <2>5. Shapes'
    <3>1. \A m \in Names : strikes'[m] \in Nat BY <2>4 DEF CInv, Shapes
    <3> QED BY <2>1, <2>2, <2>3, <2>4, <3>1 DEF CInv, Shapes, Signed
  <2>6. ASSUME NEW c \in SCalls, At(c) PROVE At(c)'
    <3>1. sat[c] = "idle" /\ ~(0 >= MaxFails) BY <2>1, SessionsAssumption DEF AllIdle
    <3>2. ~missed' /\ ~restarted' => LocksAt(c)'
      BY <2>1, <2>2, <2>3, <2>4, <2>6, <3>1 DEF At, LocksAt
    <3> QED BY <2>1, <2>2, <2>6, <3>2 DEF At, LatestAt, MasterAt, Issued
  <2> QED BY <2>1, <2>5, <2>6, StillKeeps
<1>5. ASSUME NEW u \in SUsers, CacheExpires(u) PROVE CInv' /\ SerialInv'
  <2>1. /\ memory'.user = [memory.user EXCEPT ![u] = NoOne]
        /\ UNCHANGED <<soverlap, up, redis, account, owner, masters, held, latest, strikes, aged,
                       missed, restarted, sat, sarg>>
    BY <1>5 DEF CacheExpires, history, RInv, Forms
  <2>2. /\ memory'.user = [v \in SUsers |-> memory'.user[v]] /\ memory'.user[u] = NoOne
        /\ \A v \in SUsers \ {u} : memory'.user[v] = memory.user[v]
    <3>1. memory.user = [v \in SUsers |-> memory.user[v]] BY DEF CInv, Shapes
    <3> QED BY <2>1, <3>1
  <2>3. Shapes' BY <2>1, <2>2 DEF CInv, Shapes, Signed
  <2>4. ASSUME NEW c \in SCalls, At(c) PROVE At(c)'
    <3> QED BY <2>1, <2>4 DEF At, LatestAt, MasterAt, LocksAt, Issued
  <2> QED BY <2>1, <2>3, <2>4, StillKeeps
<1>6. ASSUME NEW u \in SUsers, PresenceExpires(u) PROVE CInv' /\ SerialInv'
  <2>1. /\ UNCHANGED <<memory.user, redis.session, redis.fails, redis.locked, redis.master>>
        /\ UNCHANGED <<soverlap, up, account, owner, masters, held, latest, strikes, aged,
                       missed, restarted, sat, sarg>>
    BY <1>6 DEF PresenceExpires, history, RInv, Forms
  <2>2. Shapes' BY <2>1 DEF CInv, Shapes, Signed
  <2>3. ASSUME NEW c \in SCalls, At(c) PROVE At(c)'
    BY <2>1, <2>3 DEF At, LatestAt, MasterAt, LocksAt, Issued
  <2> QED BY <2>1, <2>2, <2>3, StillKeeps
<1>7. ASSUME NEW u \in SUsers, MarkExpires(u) PROVE CInv' /\ SerialInv'
  <2>1. /\ redis'.master = redis.master \ {u} /\ aged' = aged \cup {u}
        /\ UNCHANGED <<redis.session, redis.fails, redis.locked>>
        /\ UNCHANGED <<soverlap, up, memory, account, owner, masters, held, latest, strikes,
                       missed, restarted, sat, sarg>>
    BY <1>7 DEF MarkExpires, RInv, Forms
  <2>2. Shapes' BY <2>1 DEF CInv, Shapes, Signed
  <2>3. ASSUME NEW c \in SCalls, At(c) PROVE At(c)'
    <3>1. ~missed' => MasterAt(c)' BY <2>1, <2>3 DEF At, MasterAt
    <3> QED BY <2>1, <2>3, <3>1 DEF At, LatestAt, LocksAt, Issued
  <2> QED BY <2>1, <2>2, <2>3, StillKeeps
<1> QED BY <1>1, <1>2, <1>3, <1>4, <1>5, <1>6, <1>7

\* A restart ends every call, and the locks and the rights are asked no more.
LEMMA RestartKeeps ==
  ASSUME RInv, CInv, SerialInv, Restart
  PROVE  CInv' /\ SerialInv'
<1>1. /\ restarted' = TRUE /\ memory'.user = [u \in SUsers |-> NoOne]
      /\ \A c \in SCalls : sat'[c] = "idle" /\ sarg'[c] = SNoArg
      /\ UNCHANGED <<soverlap, up, redis, account, owner, masters, held, latest, strikes, aged,
                     missed>>
  BY DEF Restart
<1>2. Shapes' BY <1>1 DEF CInv, Shapes, Signed
<1>3. CInv' BY <1>1, <1>2, EndFits DEF CInv, OneAtATime
<1>4. ASSUME NEW c \in SCalls, ~soverlap', ~missed' PROVE LatestAt(c)' /\ MasterAt(c)'
  <2>1. PICK d \in SCalls : LatestAt(d) /\ MasterAt(d)
    <3>1. ~soverlap /\ ~missed BY <1>1, <1>4
    <3>2. CASE \E d \in SCalls : sat[d] # "idle"
      <4>1. PICK d \in SCalls : sat[d] # "idle" BY <3>2
      <4>2. Alone(d) BY <3>1, <4>1 DEF CInv, OneAtATime, Alone
      <4> QED BY <3>1, <4>2 DEF SerialInv, At
    <3>3. CASE \A d \in SCalls : sat[d] = "idle"
      <4>1. Alone(c) BY <3>3 DEF Alone
      <4> QED BY <3>1, <4>1 DEF SerialInv, At
    <3> QED BY <3>2, <3>3
  <2> QED BY <1>1, <2>1 DEF LatestAt, MasterAt, Issued
<1>5. SerialInv' BY <1>1, <1>4 DEF SerialInv, At
<1> QED BY <1>3, <1>5

LEMMA InitSerial == SessionsInit => CInv /\ SerialInv
<1> SUFFICES ASSUME SessionsInit PROVE CInv /\ SerialInv OBVIOUS
<1>1. /\ redis.session = [u \in SUsers |-> NoOne] /\ redis.fails = [n \in Names |-> 0]
      /\ redis.locked = {} /\ memory.user = [u \in SUsers |-> NoOne]
      /\ account = [u \in SUsers |-> [active |-> TRUE, rights |-> FALSE]]
      /\ owner = [p \in Pairs |-> NoOne] /\ masters = {} /\ held = {}
      /\ latest = [u \in SUsers |-> NoOne] /\ strikes = [n \in Names |-> 0]
      /\ soverlap \in BOOLEAN
      /\ \A c \in SCalls : sat[c] = "idle" /\ sarg[c] = SNoArg
  BY DEF SessionsInit
<1>2. Shapes BY <1>1 DEF Shapes
<1>3. CInv
  <2>1. \A c \in SCalls : CallFits(c) BY <1>1, NoArg DEF CallFits, Issued
  <2> QED BY <1>1, <1>2, <2>1 DEF CInv, OneAtATime
<1>4. ~(0 >= MaxFails) BY SessionsAssumption
<1>5. \A c \in SCalls : At(c)
  BY <1>1, <1>4 DEF At, LatestAt, MasterAt, LocksAt, Issued
<1> QED BY <1>3, <1>5 DEF SerialInv

LEMMA StepSerial == RInv /\ CInv /\ SerialInv /\ [SessionsNext]_svars => CInv' /\ SerialInv'
<1> SUFFICES ASSUME RInv, CInv, SerialInv, [SessionsNext]_svars PROVE CInv' /\ SerialInv'
  OBVIOUS
<1>1. CASE UNCHANGED svars
  <2>1. /\ UNCHANGED <<soverlap, up, redis, memory, account, owner, masters, held, latest,
                       strikes, aged, missed, restarted, sat, sarg>>
    BY <1>1 DEF svars, history
  <2>2. Shapes' BY <2>1 DEF CInv, Shapes, Signed
  <2>3. ASSUME NEW c \in SCalls, At(c) PROVE At(c)'
    BY <2>1, <2>3 DEF At, LatestAt, MasterAt, LocksAt, Issued
  <2> QED BY <2>1, <2>2, <2>3, StillKeeps
<1>2. ASSUME NEW c \in SCalls,
             \/ LoginLocked(c)
             \/ LoginFind(c)
             \/ CheckBanned(c)
             \/ CheckSession(c)
             \/ CheckActive(c)
      PROVE  CInv' /\ SerialInv'
  BY <1>2, LookKeeps
<1>3. ASSUME NEW c \in SCalls,
             LoginCount(c) \/ LoginBar(c) \/ LoginClear(c) \/ UnlockNik(c) \/ UnlockEmail(c)
      PROVE  CInv' /\ SerialInv'
  BY <1>3, CountKeeps, PardonKeeps
<1>4. ASSUME NEW c \in SCalls, LoginIssue(c) \/ RefreshIssue(c) PROVE CInv' /\ SerialInv'
  <2>1. CASE LoginIssue(c) BY <2>1, IssueFits DEF LoginIssue
  <2>2. CASE RefreshIssue(c) BY <2>2, IssueFits DEF RefreshIssue
  <2> QED BY <1>4, <2>1, <2>2
<1>5. ASSUME NEW c \in SCalls,
             LoginMark(c) \/ ResolveCached(c) \/ ResolveFill(c) \/ ResolveRead(c)
      PROVE  CInv' /\ SerialInv'
  BY <1>5, MarkKeeps, ResolveKeeps
<1>6. ASSUME NEW c \in SCalls,
             BanRefresh(c) \/ LogoutBan(c) \/ Beat(c) \/ LogoutClear(c) \/ Forget(c)
      PROVE  CInv' /\ SerialInv'
  BY <1>6, AsideKeeps, ClearKeeps, ForgetKeeps
<1>7. ASSUME NEW c \in SCalls, NEW u \in SUsers,
             \/ \E n \in Names, good \in BOOLEAN, master \in BOOLEAN : Login(c, u, n, good, master)
             \/ Unlock(c, u)
             \/ ChangeRights(c, u)
      PROVE  CInv' /\ SerialInv'
  BY <1>7, StartsKeep, ChangeKeeps
<1>8. ASSUME NEW c \in SCalls, NEW p \in Pairs,
             Refresh(c, p) \/ Request(c, p) \/ Heartbeat(c, p) \/ Logout(c, p)
      PROVE  CInv' /\ SerialInv'
  BY <1>8, StartsKeep
<1> QED BY <1>1, <1>2, <1>3, <1>4, <1>5, <1>6, <1>7, <1>8, WorldStays, RestartKeeps
     DEF SessionsNext

\* While no call runs, what holds of a call that runs alone holds.
LEMMA AtRest ==
  ASSUME CInv, SerialInv, ~soverlap, AllIdle
  PROVE  \E c \in SCalls : sat[c] = "idle" /\ At(c)
BY SessionsAssumption DEF SerialInv, Alone, AllIdle

LEMMA SerialCalls == SessionsSpec => [](CInv /\ SerialInv)
<1>1. SessionsInit => RInv /\ CInv /\ SerialInv BY InitBans, InitSerial
<1>2. RInv /\ CInv /\ SerialInv /\ [SessionsNext]_svars => (RInv /\ CInv /\ SerialInv)'
  BY StepBans, StepSerial
<1> QED BY <1>1, <1>2, PTL DEF SessionsSpec

LEMMA RestIsRight ==
  CInv /\ SerialInv =>
    OnlyLatestRefreshes /\ LockedAfterStrikes /\ MasterIsHidden
<1> SUFFICES ASSUME CInv, SerialInv
             PROVE  OnlyLatestRefreshes /\ LockedAfterStrikes /\ MasterIsHidden
  OBVIOUS
<1>1. OnlyLatestRefreshes
  BY AtRest DEF OnlyLatestRefreshes, SessionValid, At, LatestAt
<1>2. LockedAfterStrikes
  <2> SUFFICES ASSUME ~soverlap, ~missed, ~restarted, AllIdle
               PROVE  /\ \A n \in Names : n \in redis.locked <=> strikes[n] >= MaxFails
                      /\ up => \A u \in SUsers :
                           LockShown(u) <=>
                             \E kind \in {"nik", "email"} : strikes[<<u, kind>>] >= MaxFails
    BY DEF LockedAfterStrikes
  <2>1. \A n \in Names : n \in redis.locked <=> strikes[n] >= MaxFails
    BY AtRest DEF At, LocksAt
  <2> QED BY <2>1 DEF LockShown, Names
<1>3. MasterIsHidden
  <2> SUFFICES ASSUME ~soverlap, ~missed, up, AllIdle, NEW u \in SUsers \ aged,
                      redis.session[u] \in masters \cap held
               PROVE  Overview(u) = "offline"
    BY DEF MasterIsHidden
  <2>1. u \in redis.master BY AtRest DEF At, MasterAt
  <2> QED BY <2>1 DEF Overview
<1> QED BY <1>1, <1>2, <1>3

\* One call at a time and no call without Redis: the refresh token that would be
\* accepted is that of the pair its user was last given, for any users, pairs and
\* calls (authService.ts:405-443).
THEOREM LatestRefreshes == SessionsSpec => []OnlyLatestRefreshes
<1> QED BY SerialCalls, RestIsRight, PTL

\* One call at a time and no call without Redis: a name is locked exactly after
\* the failures in a row that LOGIN_MAX_ATTEMPTS asks for, and support is shown so
\* (tokenSecurityService.ts:62-73, 100-105, branchUserService.ts:448-482).
THEOREM StrikesLock == SessionsSpec => []LockedAfterStrikes
<1> QED BY SerialCalls, RestIsRight, PTL

\* One call at a time and no call without Redis: while a developer's session of
\* an account lasts, the overview does not show its user, until the mark expires
\* (authService.ts:62, 436).
THEOREM MasterHidden == SessionsSpec => []MasterIsHidden
<1> QED BY SerialCalls, RestIsRight, PTL
------------------------------------------------------------------------------
(* The cached rights, however calls overlap.                                *)

\* A change of u's rights has not yet dropped u from the cache.
Dropper(u) == \E c \in SCalls : sat[c] = "forget" /\ sarg[c].user = u

\* Account and cache agree on r.
Agrees(u, r) == account[u].active /\ r = account[u].rights

\* What is cached and what is about to be cached are what the account says,
\* unless the user is in doubt or about to be dropped.
Right(u) ==
  u \notin doubtful /\ ~Dropper(u) =>
    /\ memory.user[u] # NoOne => Agrees(u, memory.user[u].rights)
    /\ \A c \in SCalls : sat[c] = "fill" /\ sarg[c].user = u => Agrees(u, sarg[c].rights)

RightInv == \A u \in SUsers : Right(u)

\* The calls that stand before a fill or before a drop are the same as before.
SameCalls(u) ==
  \A c \in SCalls :
    /\ sat'[c] = "fill" => sat[c] = "fill" /\ sarg'[c] = sarg[c]
    /\ sat[c] = "forget" /\ sarg[c].user = u => sat'[c] = "forget" /\ sarg'[c] = sarg[c]

LEMMA SameRight ==
  ASSUME RightInv, NEW u \in SUsers, SameCalls(u), account'[u] = account[u],
         memory'.user[u] = memory.user[u] \/ memory'.user[u] = NoOne,
         u \in doubtful => u \in doubtful'
  PROVE  Right(u)'
<1> SUFFICES ASSUME u \notin doubtful', ~Dropper(u)'
             PROVE  (/\ memory.user[u] # NoOne => Agrees(u, memory.user[u].rights)
                     /\ \A c \in SCalls : sat[c] = "fill" /\ sarg[c].user = u =>
                                            Agrees(u, sarg[c].rights))'
  BY DEF Right
<1>1. ~Dropper(u) BY DEF Dropper, SameCalls
<1>2. /\ memory.user[u] # NoOne => Agrees(u, memory.user[u].rights)
      /\ \A c \in SCalls : sat[c] = "fill" /\ sarg[c].user = u => Agrees(u, sarg[c].rights)
  BY <1>1 DEF RightInv, Right
<1> QED BY <1>2 DEF SameCalls, Agrees

\* A call that goes on neither comes from a fill or a drop nor goes to one.
LEMMA AsideRight ==
  ASSUME RInv, RightInv, NEW c \in SCalls, NEW from, NEW next, NEW args,
         sat[c] = from, from # "forget", next # "fill",
         sat' = [sat EXCEPT ![c] = next], sarg' = [sarg EXCEPT ![c] = args],
         UNCHANGED <<account, memory.user, doubtful>>
  PROVE  RightInv'
<1>1. sat'[c] = next /\ \A d \in SCalls \ {c} : sat'[d] = sat[d] /\ sarg'[d] = sarg[d]
  BY DEF RInv, Forms
<1>2. \A u \in SUsers : SameCalls(u) BY <1>1 DEF SameCalls
<1> QED BY <1>2, SameRight DEF RightInv

LEMMA GoRight ==
  ASSUME RInv, RightInv, NEW c \in SCalls, NEW from, NEW next, SGo(c, from, next),
         from # "forget", next # "fill", UNCHANGED memory.user
  PROVE  RightInv'
<1>1. CASE next = "idle" BY <1>1, AsideRight DEF SGo
<1>2. CASE next # "idle"
  <2>1. sarg' = [sarg EXCEPT ![c] = sarg[c]] BY <1>2 DEF SGo, RInv, Forms
  <2> QED BY <2>1, AsideRight DEF SGo
<1> QED BY <1>1, <1>2

LEMMA StepsRight ==
  ASSUME RInv, RightInv, NEW c \in SCalls,
         \/ LoginLocked(c) \/ LoginFind(c) \/ LoginCount(c) \/ LoginBar(c) \/ LoginClear(c)
         \/ LoginIssue(c) \/ LoginMark(c) \/ CheckBanned(c) \/ CheckSession(c) \/ CheckActive(c)
         \/ BanRefresh(c) \/ RefreshIssue(c) \/ ResolveCached(c) \/ Beat(c) \/ LogoutClear(c)
         \/ LogoutBan(c) \/ UnlockNik(c) \/ UnlockEmail(c)
  PROVE  RightInv'
<1>1. CASE LoginLocked(c) \/ LoginFind(c)
  BY <1>1, GoRight DEF LoginLocked, LoginFind, Tokens
<1>2. CASE LoginCount(c) \/ LoginBar(c) \/ LoginClear(c)
  BY <1>2, GoRight DEF LoginCount, LoginBar, LoginClear, Tokens
<1>3. CASE CheckBanned(c) \/ CheckSession(c) \/ CheckActive(c)
  BY <1>3, GoRight DEF CheckBanned, CheckSession, CheckActive, Tokens
<1>4. CASE UnlockNik(c) \/ UnlockEmail(c)
  BY <1>4, GoRight DEF UnlockNik, UnlockEmail, Tokens
<1>5. CASE BanRefresh(c) \/ LogoutBan(c)
  <2>1. memory'.user = memory.user BY <1>5 DEF BanRefresh, LogoutBan, Ban, RInv, Forms
  <2> QED BY <1>5, <2>1, GoRight DEF BanRefresh, LogoutBan
<1>6. CASE Beat(c) \/ LogoutClear(c)
  <2>1. memory'.user = memory.user BY <1>6 DEF Beat, LogoutClear, RInv, Forms
  <2> QED BY <1>6, <2>1, GoRight DEF Beat, LogoutClear
<1>7. CASE ResolveCached(c)
  <2>1. AfterUser(c) # "fill" BY DEF AfterUser
  <2> QED BY <1>7, <2>1, GoRight DEF ResolveCached
<1>8. ASSUME NEW next \in {"mark", "cached?"}, Issue(c, next) PROVE RightInv'
  <2>1. PICK p : sarg' = [sarg EXCEPT ![c].new = p] BY <1>8 DEF Issue
  <2>2. PICK args : args = [sarg[c] EXCEPT !.new = p] OBVIOUS
  <2>3. sarg' = [sarg EXCEPT ![c] = args] BY <2>1, <2>2
  <2>4. /\ sat[c] = "issue" /\ sat' = [sat EXCEPT ![c] = next]
        /\ UNCHANGED <<account, memory, doubtful>>
    BY <1>8 DEF Issue
  <2> QED BY <2>3, <2>4, AsideRight
<1>9. CASE LoginMark(c)
  <2>1. memory'.user = memory.user BY <1>9 DEF LoginMark, RInv, Forms
  <2>2. /\ sat[c] = "mark" /\ sat' = [sat EXCEPT ![c] = "idle"]
        /\ sarg' = [sarg EXCEPT ![c] = SNoArg] /\ UNCHANGED <<account, doubtful>>
    BY <1>9 DEF LoginMark
  <2>3. PICK from, next, args : from = "mark" /\ next = "idle" /\ args = SNoArg OBVIOUS
  <2>4. /\ sat[c] = from /\ from # "forget" /\ next # "fill"
        /\ sat' = [sat EXCEPT ![c] = next] /\ sarg' = [sarg EXCEPT ![c] = args]
    BY <2>2, <2>3
  <2> QED BY <2>1, <2>2, <2>4, AsideRight
<1> QED BY <1>1, <1>2, <1>3, <1>4, <1>5, <1>6, <1>7, <1>8, <1>9 DEF LoginIssue, RefreshIssue

\* The account is read, and what was read is cached later.
LEMMA ResolveRight ==
  ASSUME RInv, CInv, RightInv, NEW c \in SCalls, ResolveRead(c) \/ ResolveFill(c)
  PROVE  RightInv'
<1> DEFINE user == sarg[c].user
<1>1. CASE ResolveRead(c)
  <2> DEFINE a == account[user]
             args == IF a.active THEN [sarg[c] EXCEPT !.rights = a.rights] ELSE SNoArg
             next == IF a.active THEN "fill" ELSE "idle"
  <2>1. /\ sat[c] = "cached?" /\ sat' = [sat EXCEPT ![c] = next]
        /\ sarg' = [sarg EXCEPT ![c] = args]
        /\ UNCHANGED <<account, memory, doubtful>>
    BY <1>1 DEF ResolveRead, Tokens
  <2>2. a.active => args.user = user /\ args.rights = a.rights
    <3>1. IsArg(sarg[c]) BY DEF RInv, Forms
    <3> QED BY <3>1 DEF IsArg
  <2>3. next = "fill" => a.active OBVIOUS
  <2>4. next # "forget" OBVIOUS
  <2> HIDE DEF args, next
  <2>5. /\ sat'[c] = next /\ sarg'[c] = args
        /\ \A d \in SCalls \ {c} : sat'[d] = sat[d] /\ sarg'[d] = sarg[d]
    BY <2>1 DEF RInv, Forms
  <2>6. ASSUME NEW u \in SUsers, u \notin doubtful', ~Dropper(u)'
        PROVE  /\ memory'.user[u] # NoOne => Agrees(u, memory'.user[u].rights)
               /\ \A d \in SCalls : sat'[d] = "fill" /\ sarg'[d].user = u =>
                                      Agrees(u, sarg'[d].rights)
    <3>1. ~Dropper(u) BY <2>1, <2>4, <2>5, <2>6 DEF Dropper
    <3>2. /\ memory.user[u] # NoOne => Agrees(u, memory.user[u].rights)
          /\ \A d \in SCalls : sat[d] = "fill" /\ sarg[d].user = u => Agrees(u, sarg[d].rights)
      BY <2>1, <2>6, <3>1 DEF RightInv, Right
    <3>3. ASSUME NEW d \in SCalls, sat'[d] = "fill", sarg'[d].user = u
          PROVE  Agrees(u, sarg'[d].rights)
      <4>1. CASE d = c BY <2>1, <2>2, <2>3, <2>5, <3>3, <4>1 DEF Agrees
      <4>2. CASE d # c BY <2>1, <2>5, <3>2, <3>3, <4>2 DEF Agrees
      <4> QED BY <4>1, <4>2
    <3> QED BY <2>1, <3>2, <3>3 DEF Agrees
  <2> QED BY <2>1, <2>6 DEF RightInv, Right, Agrees
<1>2. CASE ResolveFill(c)
  <2>1. /\ sat[c] = "fill" /\ user \in SUsers
        /\ memory'.user = [memory.user EXCEPT ![user] = [rights |-> sarg[c].rights]]
        /\ UNCHANGED <<account, doubtful>> /\ sat' = [sat EXCEPT ![c] = AfterUser(c)]
    BY <1>2 DEF ResolveFill, SGo, CInv, CallFits, RInv, Forms
  <2>2. AfterUser(c) \notin {"fill", "forget"} BY DEF AfterUser
  <2>3. /\ sat'[c] = AfterUser(c)
        /\ \A d \in SCalls \ {c} : sat'[d] = sat[d] /\ sarg'[d] = sarg[d]
    BY <1>2, <2>1 DEF ResolveFill, SGo, RInv, Forms
  <2>4. /\ memory'.user[user] # NoOne => memory'.user[user].rights = sarg[c].rights
        /\ \A u \in SUsers \ {user} : memory'.user[u] = memory.user[u]
    BY <2>1 DEF CInv, Shapes
  <2>5. ASSUME NEW u \in SUsers, u \notin doubtful', ~Dropper(u)'
        PROVE  /\ memory'.user[u] # NoOne => Agrees(u, memory'.user[u].rights)
               /\ \A d \in SCalls : sat'[d] = "fill" /\ sarg'[d].user = u =>
                                      Agrees(u, sarg'[d].rights)
    <3>1. ~Dropper(u) BY <2>1, <2>3, <2>5 DEF Dropper
    <3>2. /\ memory.user[u] # NoOne => Agrees(u, memory.user[u].rights)
          /\ \A d \in SCalls : sat[d] = "fill" /\ sarg[d].user = u => Agrees(u, sarg[d].rights)
      BY <2>1, <2>5, <3>1 DEF RightInv, Right
    <3>3. memory'.user[u] # NoOne => Agrees(u, memory'.user[u].rights)
      <4>1. CASE u = user BY <2>1, <2>4, <3>2, <4>1 DEF Agrees
      <4>2. CASE u # user BY <2>1, <2>4, <3>2, <4>2 DEF Agrees
      <4> QED BY <4>1, <4>2
    <3>4. ASSUME NEW d \in SCalls, sat'[d] = "fill", sarg'[d].user = u
          PROVE  Agrees(u, sarg'[d].rights)
      BY <2>1, <2>2, <2>3, <3>2, <3>4 DEF Agrees
    <3> QED BY <3>3, <3>4
  <2> QED BY <2>1, <2>5 DEF RightInv, Right, Agrees
<1> QED BY <1>1, <1>2

\* A user is dropped, or expires: what is on its way into the cache is in doubt.
LEMMA DropRight ==
  ASSUME RInv, CInv, RightInv, NEW user \in SUsers,
         memory'.user = [memory.user EXCEPT ![user] = NoOne], doubtful' = Doubted(user),
         account' = account,
         \A d \in SCalls : \/ sat'[d] = sat[d] /\ sarg'[d] = sarg[d]
                           \/ sat[d] = "forget" /\ sarg[d].user = user /\ sat'[d] = "idle"
  PROVE  RightInv'
<1>1. memory'.user[user] = NoOne /\ \A u \in SUsers \ {user} : memory'.user[u] = memory.user[u]
  BY DEF CInv, Shapes
<1>2. ASSUME NEW u \in SUsers \ {user} PROVE Right(u)'
  <2>1. SameCalls(u) BY DEF SameCalls
  <2>2. u \in doubtful => u \in doubtful' BY DEF Doubted
  <2> QED BY <1>1, <2>1, <2>2, SameRight
<1>3. Right(user)'
  <2>1. CASE Resolving(user)
    <3>1. user \in doubtful' BY <2>1 DEF Doubted
    <3> QED BY <3>1 DEF Right
  <2>2. CASE ~Resolving(user)
    <3>1. \A d \in SCalls : ~(sat'[d] = "fill" /\ sarg'[d].user = user) BY <2>2 DEF Resolving
    <3> QED BY <1>1, <3>1 DEF Right
  <2> QED BY <2>1, <2>2
<1> QED BY <1>2, <1>3 DEF RightInv

\* The calls of others and the environment.
LEMMA OthersRight ==
  ASSUME RInv, CInv, RightInv,
         \/ \E c \in SCalls, u \in SUsers :
              LeaveCache(c, u) /\ \/ account' = [account EXCEPT ![u].active = ~@]
                                  \/ account' = [account EXCEPT ![u].rights = ~@]
         \/ \E c \in SCalls, u \in SUsers : ChangeRights(c, u)
         \/ \E c \in SCalls : Forget(c)
         \/ \E kept \in BOOLEAN : Outage(kept)
         \/ Back
         \/ Restart
         \/ \E n \in Names : LockExpires(n)
         \/ \E u \in SUsers : CacheExpires(u) \/ PresenceExpires(u) \/ MarkExpires(u)
         \/ UNCHANGED svars
  PROVE  RightInv'
<1>0. account = [v \in SUsers |-> [active |-> account[v].active, rights |-> account[v].rights]]
  BY DEF CInv, Shapes
<1>1. ASSUME NEW c \in SCalls, NEW u \in SUsers, LeaveCache(c, u),
             \/ account' = [account EXCEPT ![u].active = ~@]
             \/ account' = [account EXCEPT ![u].rights = ~@]
      PROVE  RightInv'
  <2>1. /\ UNCHANGED <<sat, sarg, memory>>
        /\ doubtful' = IF memory.user[u] # NoOne \/ Resolving(u) THEN doubtful \cup {u} ELSE doubtful
    BY <1>1 DEF LeaveCache
  <2>2. \A v \in SUsers \ {u} : account'[v] = account[v] BY <1>0, <1>1
  <2>3. ASSUME NEW v \in SUsers \ {u} PROVE Right(v)'
    <3>1. SameCalls(v) BY <2>1 DEF SameCalls
    <3> QED BY <2>1, <2>2, <3>1, SameRight
  <2>4. Right(u)'
    <3>1. CASE memory.user[u] # NoOne \/ Resolving(u) BY <2>1, <3>1 DEF Right
    <3>2. CASE memory.user[u] = NoOne /\ ~Resolving(u) BY <2>1, <3>2 DEF Right, Resolving
    <3> QED BY <3>1, <3>2
  <2> QED BY <2>3, <2>4 DEF RightInv
<1>2. ASSUME NEW c \in SCalls, NEW u \in SUsers, ChangeRights(c, u) PROVE RightInv'
  <2>1. PICK args : args = [sarg[c] EXCEPT !.user = u] OBVIOUS
  <2>2. /\ sat[c] = "idle" /\ sat' = [sat EXCEPT ![c] = "forget"]
        /\ sarg' = [sarg EXCEPT ![c] = args]
        /\ account' = [account EXCEPT ![u].rights = ~@] /\ UNCHANGED <<memory, doubtful>>
    BY <1>2, <2>1 DEF ChangeRights, history
  <2>3. /\ sat'[c] = "forget" /\ sarg'[c] = args
        /\ \A d \in SCalls \ {c} : sat'[d] = sat[d] /\ sarg'[d] = sarg[d]
    BY <2>2 DEF RInv, Forms
  <2>4. args.user = u
    <3>1. IsArg(sarg[c]) BY DEF RInv, Forms
    <3> QED BY <2>1, <3>1 DEF IsArg
  <2>5. \A v \in SUsers \ {u} : account'[v] = account[v] BY <1>0, <2>2
  <2>6. ASSUME NEW v \in SUsers \ {u} PROVE Right(v)'
    <3>1. SameCalls(v) BY <2>2, <2>3 DEF SameCalls
    <3> QED BY <2>2, <2>5, <3>1, SameRight
  <2>7. Right(u)'
    <3>1. Dropper(u)' BY <2>3, <2>4 DEF Dropper
    <3> QED BY <3>1 DEF Right
  <2> QED BY <2>6, <2>7 DEF RightInv
<1>3. ASSUME NEW c \in SCalls, Forget(c) PROVE RightInv'
  <2> DEFINE user == sarg[c].user
  <2>1. /\ memory'.user = [memory.user EXCEPT ![user] = NoOne]
        /\ doubtful' = Doubted(user) /\ account' = account /\ sat[c] = "forget"
        /\ sat' = [sat EXCEPT ![c] = "idle"] /\ sarg' = [sarg EXCEPT ![c] = SNoArg]
    BY <1>3 DEF Forget, Dropping, RInv, Forms
  <2>2. user \in SUsers BY <2>1 DEF CInv, CallFits
  <2>3. \A d \in SCalls : \/ sat'[d] = sat[d] /\ sarg'[d] = sarg[d]
                          \/ sat[d] = "forget" /\ sarg[d].user = user /\ sat'[d] = "idle"
    BY <2>1 DEF RInv, Forms
  <2> HIDE DEF user
  <2> QED BY <2>1, <2>2, <2>3, DropRight
<1>4. ASSUME NEW u \in SUsers, CacheExpires(u) PROVE RightInv'
  <2>1. /\ memory'.user = [memory.user EXCEPT ![u] = NoOne]
        /\ doubtful' = Doubted(u) /\ UNCHANGED <<account, sat, sarg>>
    BY <1>4 DEF CacheExpires, RInv, Forms
  <2> QED BY <2>1, DropRight
<1>5. CASE Restart
  BY <1>5 DEF Restart, RightInv, Right
<1>6. ASSUME UNCHANGED <<sat, sarg, account, memory.user, doubtful>> PROVE RightInv'
  <2>1. \A u \in SUsers : SameCalls(u) BY <1>6 DEF SameCalls
  <2> QED BY <1>6, <2>1, SameRight DEF RightInv
<1>7. ASSUME NEW kept \in BOOLEAN, Outage(kept) PROVE RightInv' BY <1>6, <1>7 DEF Outage
<1>8. CASE Back BY <1>6, <1>8 DEF Back
<1>9. ASSUME NEW n \in Names, LockExpires(n) PROVE RightInv' BY <1>6, <1>9 DEF LockExpires, Tokens
<1>10. ASSUME NEW u \in SUsers, PresenceExpires(u) PROVE RightInv'
  <2>1. memory'.user = memory.user BY <1>10 DEF PresenceExpires, RInv, Forms
  <2> QED BY <1>6, <1>10, <2>1 DEF PresenceExpires, history
<1>11. ASSUME NEW u \in SUsers, MarkExpires(u) PROVE RightInv' BY <1>6, <1>11 DEF MarkExpires
<1>12. CASE UNCHANGED svars BY <1>6, <1>12 DEF svars, history
<1> QED BY <1>1, <1>2, <1>3, <1>4, <1>5, <1>7, <1>8, <1>9, <1>10, <1>11, <1>12

\* A call that begins stands neither before a fill nor before a drop.
LEMMA StartRight ==
  ASSUME RInv, RightInv, NEW c \in SCalls, NEW next, NEW args, SStart(c, next, args),
         next # "fill"
  PROVE  RightInv'
BY AsideRight DEF SStart, history

LEMMA StepRight == RInv /\ CInv /\ RightInv /\ [SessionsNext]_svars => RightInv'
<1> SUFFICES ASSUME RInv, CInv, RightInv, [SessionsNext]_svars PROVE RightInv' OBVIOUS
<1>1. ASSUME NEW c \in SCalls, NEW u \in SUsers,
             \/ \E n \in Names, good \in BOOLEAN, master \in BOOLEAN : Login(c, u, n, good, master)
             \/ Unlock(c, u)
      PROVE  RightInv'
  BY <1>1, StartRight DEF Login, Unlock
<1>2. ASSUME NEW c \in SCalls, NEW p \in Pairs,
             Refresh(c, p) \/ Request(c, p) \/ Heartbeat(c, p) \/ Logout(c, p)
      PROVE  RightInv'
  BY <1>2, StartRight DEF Refresh, Request, Heartbeat, Logout
<1>3. ASSUME NEW c \in SCalls, NEW u \in SUsers, SetUserActive(c, u) \/ UpdateEmployeeType(c, u)
      PROVE  RightInv'
  BY <1>3, OthersRight DEF SetUserActive, UpdateEmployeeType
<1> QED BY <1>1, <1>2, <1>3, StepsRight, ResolveRight, OthersRight DEF SessionsNext

LEMMA InitRight == SessionsInit => RightInv
<1> SUFFICES ASSUME SessionsInit PROVE RightInv OBVIOUS
<1>1. /\ \A u \in SUsers : memory.user[u] = NoOne
      /\ \A c \in SCalls : sat[c] = "idle"
  BY DEF SessionsInit
<1> QED BY <1>1 DEF RightInv, Right

\* However calls overlap, and through restarts, for any users and calls: once a
\* change of rights that drops the user from the cache has returned, no request
\* works with what it replaced, but for the users in doubt (authUserCache.ts:16,
\* authService.ts:478-535, roleService.ts:146-152).
THEOREM RightsCurrent == SessionsSpec => []RightsAreCurrent
<1>1. SessionsInit => RInv /\ CInv /\ SerialInv /\ RightInv
  BY InitBans, InitSerial, InitRight
<1>2. RInv /\ CInv /\ SerialInv /\ RightInv /\ [SessionsNext]_svars =>
        (RInv /\ CInv /\ SerialInv /\ RightInv)'
  BY StepBans, StepSerial, StepRight
<1>3. RightInv => RightsAreCurrent
  BY DEF RightInv, Right, Agrees, Dropper, RightsAreCurrent
<1> QED BY <1>1, <1>2, <1>3, PTL DEF SessionsSpec
==============================================================================
