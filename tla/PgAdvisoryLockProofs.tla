-------------------------- MODULE PgAdvisoryLockProofs --------------------------
(***************************************************************************)
(* For every number of clients, keys, pools and connections: the calls     *)
(* that overlap under one key share one session, which still holds the     *)
(* lock for each of them.                                                  *)
(***************************************************************************)
EXTENDS PgAdvisoryLock, FiniteSetTheorems, TLAPS

\* A client's lock statement runs on a connection of its process.
AskingOnConnection == \A c \in Clients : pc[c] = "asking" => conn[c] \in Pool[c]

\* Session x was granted k for everybody who was granted it and is not done.
Carries(x, k) ==
  /\ \A c \in Granted(k) : x \in Pool[c]
  /\ holds[k][x] >= Cardinality(Granted(k))
  /\ \A y \in Conns \ {x} : holds[k][y] = 0

Shared(k) == Granted(k) # {} => \E x \in Conns : Carries(x, k)

ShareInv == LockTypeOK /\ AskingOnConnection /\ \A k \in Keys : Shared(k)

(* Types are kept however the pools route the statements.                  *)
LEMMA NextTypeOK ==
  LockTypeOK /\ AskingOnConnection /\ [LockNext]_lockvars => LockTypeOK' /\ AskingOnConnection'
<1> SUFFICES ASSUME LockTypeOK, AskingOnConnection, [LockNext]_lockvars
             PROVE  LockTypeOK' /\ AskingOnConnection'
  OBVIOUS
<1> USE PgAssumption
<1>1. ASSUME NEW c \in Clients, NEW k \in Keys, Ask(c, k) PROVE LockTypeOK' /\ AskingOnConnection'
  <2>1. PICK x \in Pool[c] : conn' = [conn EXCEPT ![c] = x] BY <1>1 DEF Ask, Free
  <2>2. x \in Conns OBVIOUS
  <2> QED BY <1>1, <2>1, <2>2 DEF Ask, Step, LockTypeOK, AskingOnConnection
<1>2. ASSUME NEW c \in Clients, Grant(c) PROVE LockTypeOK' /\ AskingOnConnection'
  <2>1. conn[c] \in Conns /\ key[c] \in Keys
    BY <1>2 DEF Grant, Granting, Step, AskingOnConnection, LockTypeOK
  <2>2. holds[key[c]][conn[c]] + 1 \in 0..MaxHolds
    BY <1>2, <2>1 DEF Grant, Granting, LockTypeOK
  <2>3. holds' \in [Keys -> [Conns -> 0..MaxHolds]]
    BY <1>2, <2>1, <2>2 DEF Grant, Granting, LockTypeOK
  <2> QED BY <1>2, <2>3 DEF Grant, Granting, Step, LockTypeOK, AskingOnConnection
<1>3. ASSUME NEW c \in Clients, Deadlocked(c) \/ QueryDone(c) \/ FnReturns(c) \/ UnlockTimesOut(c)
      PROVE  LockTypeOK' /\ AskingOnConnection'
  BY <1>3 DEF Deadlocked, QueryDone, FnReturns, UnlockTimesOut, Step, LockTypeOK, AskingOnConnection
<1>4. ASSUME NEW c \in Clients, Query(c) PROVE LockTypeOK' /\ AskingOnConnection'
  <2>1. PICK x \in Pool[c] : conn' = [conn EXCEPT ![c] = x] BY <1>4 DEF Query, Free
  <2>2. x \in Conns OBVIOUS
  <2> QED BY <1>4, <2>1, <2>2 DEF Query, Step, LockTypeOK, AskingOnConnection
<1>5. ASSUME NEW c \in Clients, Unlock(c) PROVE LockTypeOK' /\ AskingOnConnection'
  <2>1. key[c] \in Keys BY DEF LockTypeOK
  <2>2. holds' \in [Keys -> [Conns -> 0..MaxHolds]]
    BY <1>5, <2>1 DEF Unlock, Free, LockTypeOK
  <2> QED BY <1>5, <2>2 DEF Unlock, Step, LockTypeOK, AskingOnConnection
<1>6. CASE UNCHANGED lockvars
  BY <1>6 DEF lockvars, LockTypeOK, AskingOnConnection
<1> QED BY <1>1, <1>2, <1>3, <1>4, <1>5, <1>6 DEF LockNext

(* Who was granted a lock is counted.                                      *)
LEMMA GrantedFinite ==
  ASSUME NEW k \in Keys
  PROVE  IsFiniteSet(Granted(k)) /\ Cardinality(Granted(k)) \in Nat
BY PgAssumption, FS_Subset, FS_CardinalityType DEF Granted, Inside

LEMMA SameShared ==
  ASSUME NEW k \in Keys, Shared(k), Granted(k)' = Granted(k), holds'[k] = holds[k]
  PROVE  Shared(k)'
BY DEF Shared, Carries

(* One more holds the lock, on the session that holds it already.          *)
LEMMA GrantShares ==
  ASSUME ShareInv, NEW c \in Clients, Grant(c), NEW k \in Keys
  PROVE  Shared(k)'
<1>1. PICK z \in Conns : z = conn[c] /\ z \in Pool[c] /\ key[c] \in Keys
  BY PgAssumption DEF ShareInv, Grant, Granting, Step, AskingOnConnection, LockTypeOK
<1>2. CASE k # key[c]
  <2>1. Granted(k)' = Granted(k) /\ holds'[k] = holds[k]
    BY <1>1, <1>2 DEF ShareInv, Grant, Granting, Step, Granted, Inside, LockTypeOK
  <2> QED BY <2>1, SameShared DEF ShareInv
<1>3. CASE k = key[c]
  <2>1. Granted(k)' = Granted(k) \cup {c} /\ c \notin Granted(k)
    BY <1>3 DEF ShareInv, Grant, Granting, Step, Granted, Inside, LockTypeOK
  <2>2. Cardinality(Granted(k)') = Cardinality(Granted(k)) + 1
    BY <2>1, GrantedFinite, FS_AddElement
  <2>3. /\ holds'[k][z] = holds[k][z] + 1
        /\ \A y \in Conns \ {z} : holds'[k][y] = 0 /\ holds[k][y] = 0
    BY <1>1, <1>3 DEF ShareInv, Grant, Granting, LockTypeOK
  <2>4. holds[k][z] >= Cardinality(Granted(k)) /\ \A d \in Granted(k) : z \in Pool[d]
    <3>1. CASE Granted(k) = {}
      BY <1>1, <3>1, FS_EmptySet DEF ShareInv, LockTypeOK
    <3>2. CASE Granted(k) # {}
      <4>1. PICK x \in Conns : Carries(x, k) BY <3>2 DEF ShareInv, Shared
      <4>2. Cardinality(Granted(k)) # 0 BY <3>2, GrantedFinite, FS_EmptySet
      <4>3. x = z BY <2>3, <4>1, <4>2, GrantedFinite DEF Carries
      <4> QED BY <4>1, <4>3 DEF Carries
    <3> QED BY <3>1, <3>2
  <2>5. holds[k][z] \in Int BY <1>1 DEF ShareInv, LockTypeOK
  <2>6. holds'[k][z] >= Cardinality(Granted(k)')
    BY <2>2, <2>3, <2>4, <2>5, GrantedFinite
  <2>7. Carries(z, k)' BY <1>1, <2>1, <2>3, <2>4, <2>6 DEF Carries
  <2> QED BY <1>1, <2>7 DEF Shared
<1> QED BY <1>2, <1>3

(* An unlock, wherever it is sent, takes at most the hold of the one who   *)
(* leaves.                                                                 *)
LEMMA UnlockShares ==
  ASSUME ShareInv, NEW c \in Clients, Unlock(c) \/ UnlockTimesOut(c), NEW k \in Keys
  PROVE  Shared(k)'
<1>1. key[c] \in Keys BY DEF ShareInv, LockTypeOK
<1>2. CASE k # key[c]
  <2>1. Granted(k)' = Granted(k) /\ holds'[k] = holds[k]
    BY <1>1, <1>2 DEF ShareInv, Unlock, UnlockTimesOut, Step, Granted, Inside, LockTypeOK
  <2> QED BY <2>1, SameShared DEF ShareInv
<1>3. CASE k = key[c]
  <2>1. Granted(k)' = Granted(k) \ {c} /\ c \in Granted(k)
    BY <1>3 DEF ShareInv, Unlock, UnlockTimesOut, Step, Granted, Inside, LockTypeOK
  <2>2. Cardinality(Granted(k)') = Cardinality(Granted(k)) - 1
    BY <2>1, GrantedFinite, FS_RemoveElement
  <2>3. PICK x \in Conns : Carries(x, k) BY <2>1 DEF ShareInv, Shared
  <2>4. \A y \in Conns : /\ holds'[k][y] = holds[k][y] \/ holds'[k][y] = holds[k][y] - 1
                         /\ holds[k][y] = 0 => holds'[k][y] = 0
    BY <1>1, <1>3, PgAssumption DEF ShareInv, Unlock, UnlockTimesOut, Free, LockTypeOK
  <2>5. holds[k][x] \in Int BY DEF ShareInv, LockTypeOK
  <2>6. holds'[k][x] >= Cardinality(Granted(k)')
    BY <2>2, <2>3, <2>4, <2>5, GrantedFinite DEF Carries
  <2>7. Carries(x, k)' BY <2>1, <2>3, <2>4, <2>6 DEF Carries
  <2> QED BY <2>7 DEF Shared
<1> QED BY <1>2, <1>3

LEMMA NextShare == ShareInv /\ [LockNext]_lockvars => ShareInv'
<1> SUFFICES ASSUME ShareInv, [LockNext]_lockvars PROVE ShareInv'
  OBVIOUS
<1>1. LockTypeOK' /\ AskingOnConnection'
  BY NextTypeOK DEF ShareInv
<1>2. ASSUME NEW k \in Keys PROVE Shared(k)'
  <2>1. ASSUME NEW c \in Clients, NEW j \in Keys, Ask(c, j) PROVE Shared(k)'
    <3>1. Granted(k)' = Granted(k) /\ holds' = holds
      BY <2>1 DEF ShareInv, Ask, Step, Granted, Inside, LockTypeOK
    <3> QED BY <3>1, SameShared DEF ShareInv
  <2>2. ASSUME NEW c \in Clients, Deadlocked(c) \/ Query(c) \/ QueryDone(c) \/ FnReturns(c)
        PROVE  Shared(k)'
    <3>1. Granted(k)' = Granted(k) /\ holds' = holds
      BY <2>2 DEF ShareInv, Deadlocked, Query, QueryDone, FnReturns, Step, Granted, Inside, LockTypeOK
    <3> QED BY <3>1, SameShared DEF ShareInv
  <2>3. CASE UNCHANGED lockvars
    <3>1. Granted(k)' = Granted(k) /\ holds' = holds BY <2>3 DEF lockvars, Granted, Inside
    <3> QED BY <3>1, SameShared DEF ShareInv
  <2> QED BY <2>1, <2>2, <2>3, GrantShares, UnlockShares DEF LockNext
<1> QED BY <1>1, <1>2 DEF ShareInv

LEMMA InitShare == LockInit => ShareInv
BY PgAssumption
   DEF LockInit, ShareInv, LockTypeOK, AskingOnConnection, Shared, Granted, Inside

(* Whatever connections the statements are sent on, and whether they are   *)
(* sent at all: calls that overlap under one key are of one process and    *)
(* share one session, which still holds the lock for each of them, for any *)
(* clients, keys and pools (pgAdvisoryLock.ts:8, 12).                      *)
THEOREM SharedSession == LockSpec => []OverlapSharesSession
<1>1. ShareInv => OverlapSharesSession
  BY DEF ShareInv, Shared, Carries, OverlapSharesSession
<1> QED BY <1>1, InitShare, NextShare, PTL DEF LockSpec
=============================================================================
