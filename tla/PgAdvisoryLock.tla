---------------------------- MODULE PgAdvisoryLock ----------------------------
(***************************************************************************)
(* lib/pgAdvisoryLock.ts: a critical section guarded by a session-level    *)
(* PostgreSQL advisory lock, where the lock, the statements of the section *)
(* and the unlock are separate Prisma queries, each of which runs on       *)
(* whatever connection of the pool is free.                                *)
(*                                                                         *)
(* PostgreSQL gives the lock to a SESSION: a second pg_advisory_lock on    *)
(* the same connection succeeds at once (the lock counts its holds), and   *)
(* an unlock from another connection releases nothing.  A lock statement   *)
(* that waits keeps its connection from the statements of the sections.    *)
(***************************************************************************)
EXTENDS Integers, FiniteSets

CONSTANTS
  Clients,      \* concurrent withPgAdvisoryLock calls
  Keys,         \* hashtext(lockKey): an employee's day
  Conns,        \* the sessions: connections of some process's pool
  Pool,         \* Pool[c]: the connections of the process that runs c
  NoConn,       \* "this client occupies no connection"
  MaxHolds      \* bound: how often one session may hold a lock at once

ASSUME PgAssumption ==
  /\ IsFiniteSet(Clients)
  /\ NoConn \notin Conns
  /\ Pool \in [Clients -> SUBSET Conns]
  /\ MaxHolds \in Nat \ {0}

VARIABLES
  pc,           \* pc[c]: where client c stands in withPgAdvisoryLock
  key,          \* key[c]: the lock c asks for; of no account while c is idle
  conn,         \* conn[c]: the connection a statement of c occupies
  holds         \* holds[k][x]: how many times session x holds lock k

lockvars == <<pc, key, conn, holds>>

LockInit ==
  /\ pc    = [c \in Clients |-> "idle"]
  /\ key   \in [Clients -> Keys]
  /\ conn  = [c \in Clients |-> NoConn]
  /\ holds = [k \in Keys |-> [x \in Conns |-> 0]]

\* A connection of c's pool that no statement occupies.
Free(c) == {x \in Pool[c] : \A d \in Clients : conn[d] # x}

Step(c, from, to) == pc[c] = from /\ pc' = [pc EXCEPT ![c] = to]

(* SELECT pg_advisory_lock is sent on a free connection, which it occupies *)
(* for as long as the statement blocks.                                    *)
Ask(c, k) ==
  /\ Step(c, "idle", "asking")
  /\ key' = [key EXCEPT ![c] = k]
  /\ \E x \in Free(c) : conn' = [conn EXCEPT ![c] = x]
  /\ UNCHANGED holds

Granting(c) ==
  /\ Step(c, "asking", "inside")
  /\ holds[key[c]][conn[c]] < MaxHolds
  /\ holds' = [holds EXCEPT ![key[c]][conn[c]] = @ + 1]
  /\ conn'  = [conn EXCEPT ![c] = NoConn]
  /\ UNCHANGED key

\* Mutant: the lock is asked for without waiting, and the answer not looked at.
TryOnly(c) == Granting(c)

(* PostgreSQL grants the lock unless another session holds it.             *)
Grant(c) ==
  /\ \A y \in Conns \ {conn[c]} : holds[key[c]][y] = 0
  /\ Granting(c)

(* Session x waits for a lock that session y holds.                        *)
WaitsFor(x, y) ==
  x # y /\ \E c \in Clients : pc[c] = "asking" /\ conn[c] = x /\ holds[key[c]][y] > 0

(* Of sessions that wait for each other PostgreSQL cancels one: the lock   *)
(* statement throws and the section is never entered.                      *)
Deadlocked(c) ==
  /\ Step(c, "asking", "idle")
  /\ \E S \in SUBSET Conns :
       /\ conn[c] \in S
       /\ \A x \in S : (\E y \in S : WaitsFor(x, y)) /\ (\E y \in S : WaitsFor(y, x))
  /\ conn' = [conn EXCEPT ![c] = NoConn]
  /\ UNCHANGED <<key, holds>>

(* fn() sends a statement of its own, and gets its answer.                 *)
Query(c) ==
  /\ Step(c, "inside", "working")
  /\ \E x \in Free(c) : conn' = [conn EXCEPT ![c] = x]
  /\ UNCHANGED <<key, holds>>

QueryDone(c) ==
  /\ Step(c, "working", "inside")
  /\ conn' = [conn EXCEPT ![c] = NoConn]
  /\ UNCHANGED <<key, holds>>

(* fn() returns, or throws: an error of its own or, with no connection     *)
(* free for its next statement, the pool's timeout.                        *)
FnReturns(c) == Step(c, "inside", "leaving") /\ UNCHANGED <<key, conn, holds>>

(* The finally block: SELECT pg_advisory_unlock on any free connection; it *)
(* releases a hold of that session, if it has one.                         *)
Unlock(c) ==
  /\ Step(c, "leaving", "idle")
  /\ \E x \in Free(c) :
       holds' = [holds EXCEPT ![key[c]][x] = IF @ > 0 THEN @ - 1 ELSE 0]
  /\ UNCHANGED <<key, conn>>

(* No connection is free until the pool's timeout: the unlock is not sent. *)
UnlockTimesOut(c) ==
  /\ Step(c, "leaving", "idle")
  /\ Free(c) = {}
  /\ UNCHANGED <<key, conn, holds>>

LockNext == \E c \in Clients :
  \/ \E k \in Keys : Ask(c, k)
  \/ Grant(c)
  \/ Deadlocked(c)
  \/ Query(c)
  \/ QueryDone(c)
  \/ FnReturns(c)
  \/ Unlock(c)
  \/ UnlockTimesOut(c)

LockSpec == LockInit /\ [][LockNext]_lockvars
------------------------------------------------------------------------------
LockTypeOK ==
  /\ pc \in [Clients -> {"idle", "asking", "inside", "working", "leaving"}]
  /\ key \in [Clients -> Keys]
  /\ conn \in [Clients -> Conns \cup {NoConn}]
  /\ holds \in [Keys -> [Conns -> 0..MaxHolds]]

\* The clients that run the section of key k.
Inside(k) == {c \in Clients : pc[c] \in {"inside", "working"} /\ key[c] = k}

\* Those that were granted k and have not yet tried to unlock it.
Granted(k) == Inside(k) \cup {c \in Clients : pc[c] = "leaving" /\ key[c] = k}

(* The lock serialises the critical sections of its key                    *)
(* (pgAdvisoryLock.ts: "serialisasi ingest per karyawan + tanggal kerja"). *)
Exclusive == \A k \in Keys : \A c, d \in Inside(k) : c = d

(* However the pools route the statements, run dry or are cut off by a     *)
(* deadlock: the calls that overlap under one key were all granted the     *)
(* lock on ONE session, which still holds it at least once for each.  A    *)
(* lost unlock can only leak the lock, never free it under a section, and  *)
(* no two processes are ever inside together (pgAdvisoryLock.ts:8, 12).    *)
OverlapSharesSession ==
  \A k \in Keys : Granted(k) # {} =>
    \E x \in Conns :
      /\ \A c \in Granted(k) : x \in Pool[c]
      /\ holds[k][x] >= Cardinality(Granted(k))
      /\ \A y \in Conns \ {x} : holds[k][y] = 0
=============================================================================
