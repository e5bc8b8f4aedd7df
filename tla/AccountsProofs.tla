---------------------------- MODULE AccountsProofs ----------------------------
(***************************************************************************)
(* Proofs about Accounts, for any number of accounts, rows, branches and   *)
(* calls: the tables keep their types and unique indexes, accounts are     *)
(* where their row is, rows bear the code of their account, and an account *)
(* is alive on one row only.                                               *)
(*                                                                         *)
(* A call works for one account u, on a set of rows that no other account  *)
(* is linked to.  Mid says of the tables that a call may leave behind at   *)
(* any of its writes, Fin of those it ends with, what the rest of the      *)
(* organisation relies on; RunKeeps draws the conclusion once for all      *)
(* handlers, whether they end or stop half way.                            *)
(***************************************************************************)
EXTENDS Accounts, SequenceTheorems, FiniteSetTheorems, TLAPS

\* Tables in which links lead somewhere and the unique indexes hold.
RowsAreThere(d) == \A u \in Living(d) : d.user[u].row \in ExistingRows(d) \cup {None}
OneEach(d) ==
  \A u, v \in Living(d) : u # v =>
    /\ d.user[u].nik # d.user[v].nik
    /\ d.user[u].row = d.user[v].row => d.user[u].row = None
OnePlace(d) ==
  \A e, f \in ExistingRows(d) : e # f => d.emp[e].nik # d.emp[f].nik \/ d.emp[e].branch # d.emp[f].branch
CodesLive(d) == \A e \in ExistingRows(d) : d.emp[e].code \in Living(d) \cup {None, Gone}

Core(d) == d \in Tables /\ RowsAreThere(d) /\ OneEach(d) /\ OnePlace(d) /\ CodesLive(d)

\* An account is where its row is, ...
Placed(d, u) ==
  LET a == d.user[u]
  IN  \/ /\ a.role = "employee" /\ a.row # None
         /\ d.emp[a.row].branch = a.branch /\ a.members \subseteq {a.branch}
      \/ a.role = "manager" /\ a.branch \in a.members

\* ... its row bears its code, ...
Recorded(d, u, looked) ==
  d.user[u].row \notin looked \cup {None} =>
    d.user[u].code /\ d.emp[d.user[u].row].code = u

\* ... and no other row with its code is alive.
Alone(d, looked) ==
  \A u \in Living(d), e \in ExistingRows(d) \ looked :
    d.emp[e].code = u /\ d.emp[e].active => e = d.user[u].row

AInv ==
  /\ Core(db) /\ halfway \subseteq Living(db) /\ relinked \subseteq ExistingRows(db)
  /\ calls \in 0 .. MaxCalls /\ faults \in 0 .. MaxFaults /\ stalled \in BOOLEAN
  /\ \A u \in Living(db) \ halfway : Placed(db, u) /\ Recorded(db, u, relinked)
  /\ ~stalled => halfway = {} /\ Alone(db, relinked)

------------------------------------------------------------------------------
(* A call of account u on rows es, that starts with tables d.               *)

Own(d, u, es) ==
  /\ u \in Users /\ es \subseteq Rows
  /\ \A v \in Living(d) : IF v = u THEN d.user[v].row \in es \cup {None} ELSE d.user[v].row \notin es

Free(d, u, n) == \A v \in Living(d) \ {u} : d.user[v].nik # n

Mid(d, x, u, es) ==
  /\ x \in Tables /\ OnePlace(x) /\ CodesLive(x)
  /\ \A v \in Users \ {u} : x.user[v] = d.user[v]
  /\ \A e \in Rows \ es : x.emp[e] = d.emp[e]
  /\ Living(d) \subseteq Living(x) /\ ExistingRows(d) \subseteq ExistingRows(x)
  /\ u \in Living(x) =>
       x.user[u].row \in (es \cap ExistingRows(x)) \cup {None} /\ Free(d, u, x.user[u].nik)

Quiet(x, u, es) == \A e \in es \cap ExistingRows(x) : x.emp[e].active => e = x.user[u].row

Fin(d, x, u, es, looked) ==
  /\ Mid(d, x, u, es) /\ u \in Living(x) /\ Quiet(x, u, es)
  /\ (u \in Living(d) => Placed(d, u)) => Placed(x, u)
  /\ (u \in Living(d) => Recorded(d, u, looked)) => Recorded(x, u, looked)

Path(d, s, u, es) == s \in Seq(Tables) /\ \A k \in 1 .. Len(s) : Mid(d, s[k], u, es)
Ends(s, y) == Len(s) > 0 /\ s[Len(s)] = y

Sound(d, outcome, u, es, looked) ==
  /\ Own(d, u, es) /\ Path(d, outcome.steps, u, es)
  /\ outcome.late \/ \E y : Ends(outcome.steps, y) /\ Fin(d, y, u, es, looked)

LEMMA NoneIsNoRow ==
  /\ None \notin Users /\ None \notin Rows /\ None \notin Branches
  /\ Gone \notin Users /\ Gone # None
  /\ None \notin Accounts /\ None \notin EmployeeRows
BY AccountsAssumption, RecordsAssumption

LEMMA MidStarts ==
  ASSUME NEW d, Core(d), NEW u, NEW es, Own(d, u, es)
  PROVE  Mid(d, d, u, es)
<1>1. u \in Living(d) => d.user[u].row \in (es \cap ExistingRows(d)) \cup {None} /\ Free(d, u, d.user[u].nik)
  BY DEF Core, Own, Free, RowsAreThere, OneEach
<1> QED
  BY <1>1 DEF Core, Mid

LEMMA MidIsCore ==
  ASSUME NEW d, Core(d), NEW u, NEW es, Own(d, u, es), NEW x, Mid(d, x, u, es)
  PROVE  Core(x)
<1>1. \A v \in Living(x) \ {u} : v \in Living(d) /\ x.user[v] = d.user[v] /\ d.user[v].row \notin es
  BY DEF Mid, Own, Living
<1>2. RowsAreThere(x)
  BY <1>1 DEF RowsAreThere, Mid, Core
<1>3. OneEach(x)
  <2>1. SUFFICES ASSUME NEW v \in Living(x), NEW w \in Living(x), v # w
                 PROVE  /\ x.user[v].nik # x.user[w].nik
                        /\ x.user[v].row = x.user[w].row => x.user[v].row = None
    BY DEF OneEach
  <2>2. CASE v # u /\ w # u
    BY <1>1, <2>1, <2>2 DEF Core, OneEach
  <2>3. CASE v = u
    BY <1>1, <2>1, <2>3 DEF Mid, Free
  <2>4. CASE w = u
    BY <1>1, <2>1, <2>4 DEF Mid, Free
  <2> QED
    BY <2>2, <2>3, <2>4
<1> QED
  BY <1>2, <1>3 DEF Core, Mid

\* Other accounts notice nothing.
LEMMA MidKeepsOthers ==
  ASSUME NEW d, Core(d), NEW u, NEW es, Own(d, u, es), NEW x, Mid(d, x, u, es), NEW looked,
         NEW v \in Living(x) \ {u}
  PROVE  /\ v \in Living(d)
         /\ Placed(d, v) => Placed(x, v)
         /\ Recorded(d, v, looked) => Recorded(x, v, looked)
<1>1. v \in Living(d) /\ x.user[v] = d.user[v] /\ d.user[v].row \notin es
  BY DEF Mid, Own, Living
<1>2. d.user[v].row # None => x.emp[d.user[v].row] = d.emp[d.user[v].row]
  BY <1>1 DEF Mid, Core, RowsAreThere, ExistingRows
<1>3. Placed(d, v) => Placed(x, v)
  BY <1>1, <1>2 DEF Placed
<1>4. Recorded(d, v, looked) => Recorded(x, v, looked)
  BY <1>1, <1>2 DEF Recorded
<1> QED
  BY <1>1, <1>3, <1>4

LEMMA FinIsAlone ==
  ASSUME NEW d, Core(d), NEW u, NEW es, Own(d, u, es), NEW x, NEW looked, Fin(d, x, u, es, looked),
         u \in Living(d) => Recorded(d, u, looked), Alone(d, looked)
  PROVE  Alone(x, looked)
<1>1. SUFFICES ASSUME NEW v \in Living(x), NEW e \in ExistingRows(x) \ looked,
                      x.emp[e].code = v, x.emp[e].active
               PROVE  e = x.user[v].row
  BY DEF Alone
<1>2. CASE e \in es
  <2>1. e = x.user[u].row /\ e # None
    BY <1>1, <1>2, NoneIsNoRow DEF Fin, Quiet, ExistingRows
  <2>2. x.emp[e].code = u
    BY <1>1, <2>1 DEF Fin, Recorded
  <2> QED
    BY <1>1, <2>1, <2>2
<1>3. CASE e \notin es
  <2>1. e \in Rows /\ e # None /\ x.emp[e] = d.emp[e] /\ e \in ExistingRows(d)
    BY <1>1, <1>3, NoneIsNoRow DEF Fin, Mid, ExistingRows
  <2>2. v \in Living(d)
    BY <1>1, <2>1, NoneIsNoRow DEF Core, CodesLive, Living
  <2>3. e = d.user[v].row
    BY <1>1, <2>1, <2>2 DEF Alone
  <2>4. v # u
    BY <1>3, <2>1, <2>2, <2>3 DEF Own
  <2>5. x.user[v] = d.user[v]
    BY <2>4 DEF Fin, Mid, Living
  <2> QED
    BY <2>3, <2>5
<1> QED
  BY <1>2, <1>3
------------------------------------------------------------------------------
(* The end of a call.                                                       *)

LEMMA FinKeeps ==
  ASSUME AInv, NEW u, NEW es, Own(db, u, es), NEW x, Fin(db, x, u, es, relinked), db' = x,
         halfway' = halfway \cap Living(x), relinked' = relinked \cap ExistingRows(x),
         UNCHANGED stalled, calls' \in 0 .. MaxCalls, faults' \in 0 .. MaxFaults
  PROVE  AInv'
<1>1. Core(x) /\ Living(db) \subseteq Living(x) /\ ExistingRows(db) \subseteq ExistingRows(x)
  BY MidIsCore DEF AInv, Fin, Mid
<1>2. halfway' = halfway /\ relinked' = relinked
  BY <1>1 DEF AInv
<1>3. ASSUME NEW v \in Living(x) \ halfway PROVE Placed(x, v) /\ Recorded(x, v, relinked)
  <2>1. CASE v = u
    BY <1>3, <2>1 DEF AInv, Fin
  <2>2. CASE v # u
    <3>1. /\ v \in Living(db)
          /\ Placed(db, v) => Placed(x, v)
          /\ Recorded(db, v, relinked) => Recorded(x, v, relinked)
      BY <2>2, MidKeepsOthers DEF AInv, Fin
    <3> QED
      BY <1>3, <3>1 DEF AInv
  <2> QED
    BY <2>1, <2>2
<1>4. ~stalled => halfway = {} /\ Alone(x, relinked)
  <2>1. SUFFICES ASSUME ~stalled PROVE Alone(x, relinked)
    BY DEF AInv
  <2>2. Alone(db, relinked) /\ (u \in Living(db) => Recorded(db, u, relinked))
    BY <2>1 DEF AInv
  <2> QED
    BY <2>2, FinIsAlone DEF AInv
<1> QED
  <2>1. PICK h, l, s : h = halfway /\ l = relinked /\ s = stalled
    OBVIOUS
  <2>2. Core(db') /\ h \subseteq Living(db') /\ l \subseteq ExistingRows(db')
    BY <1>1, <2>1 DEF AInv
  <2>3. \A v \in Living(db') \ h : Placed(db', v) /\ Recorded(db', v, l)
    BY <1>3, <2>1
  <2>4. ~s => h = {} /\ Alone(db', l)
    BY <1>4, <2>1
  <2>5. h = halfway' /\ l = relinked' /\ s = stalled' /\ s \in BOOLEAN
    BY <1>2, <2>1 DEF AInv
  <2> QED
    BY <2>2, <2>3, <2>4, <2>5 DEF AInv

LEMMA StopKeeps ==
  ASSUME AInv, NEW u, NEW es, Own(db, u, es), NEW x, Mid(db, x, u, es), db' = x,
         halfway' = (halfway \cup {u}) \cap Living(x), relinked' = relinked \cap ExistingRows(x),
         stalled' = TRUE, calls' \in 0 .. MaxCalls, faults' \in 0 .. MaxFaults
  PROVE  AInv'
<1>1. Core(x) /\ Living(db) \subseteq Living(x) /\ ExistingRows(db) \subseteq ExistingRows(x)
  BY MidIsCore DEF AInv, Mid
<1>2. relinked' = relinked
  BY <1>1 DEF AInv
<1>3. PICK h, l : h = halfway' /\ l = relinked
  OBVIOUS
<1>4. ASSUME NEW v \in Living(x) \ h PROVE Placed(x, v) /\ Recorded(x, v, l)
  <2>1. v # u /\ v \notin halfway
    BY <1>3, <1>4
  <2>2. /\ v \in Living(db)
        /\ Placed(db, v) => Placed(x, v)
        /\ Recorded(db, v, relinked) => Recorded(x, v, relinked)
    BY <2>1, MidKeepsOthers DEF AInv
  <2> QED
    BY <1>3, <2>1, <2>2 DEF AInv
<1>5. Core(db') /\ h \subseteq Living(db') /\ l \subseteq ExistingRows(db')
  BY <1>1, <1>3 DEF AInv
<1>6. \A v \in Living(db') \ h : Placed(db', v) /\ Recorded(db', v, l)
  BY <1>4
<1> QED
  BY <1>2, <1>3, <1>5, <1>6 DEF AInv

LEMMA CallCounted ==
  ASSUME AInv, calls < MaxCalls, calls' = calls + 1
  PROVE  calls' \in 0 .. MaxCalls
BY AccountsAssumption DEF AInv

LEMMA RunKeeps ==
  ASSUME AInv, NEW u, NEW es, NEW outcome, Sound(db, outcome, u, es, relinked), Run(u, outcome)
  PROVE  AInv'
<1>1. PICK s : s = outcome.steps
  OBVIOUS
<1>2. s \in Seq(Tables)
  BY <1>1 DEF Sound, Path
<1>3. PICK k \in 1 .. Len(s) :
        /\ k < Len(s) => faults < MaxFaults
        /\ faults' = IF k < Len(s) THEN faults + 1 ELSE faults
        /\ db' = s[k]
        /\ stalled' = (stalled \/ (k < Len(s) \/ outcome.late))
        /\ halfway' = (halfway \cup IF k < Len(s) \/ outcome.late THEN {u} ELSE {}) \cap Living(s[k])
  BY <1>1 DEF Run
<1>4. relinked' = relinked \cap ExistingRows(s[k])
  BY <1>3 DEF Run
<1>5. calls' \in 0 .. MaxCalls
  BY CallCounted DEF Run
<1>6. faults' \in 0 .. MaxFaults
  BY <1>2, <1>3, AccountsAssumption DEF AInv
<1>7. Own(db, u, es) /\ Mid(db, s[k], u, es)
  BY <1>1, <1>3 DEF Sound, Path
<1>8. CASE k < Len(s) \/ outcome.late
  BY <1>3, <1>4, <1>5, <1>6, <1>7, <1>8, StopKeeps
<1>9. CASE ~(k < Len(s) \/ outcome.late)
  <2>1. k = Len(s)
    BY <1>2, <1>3, <1>9
  <2>2. Fin(db, s[k], u, es, relinked)
    BY <1>1, <1>9, <2>1 DEF Sound, Ends
  <2>3. halfway' = halfway \cap Living(s[k]) /\ stalled' = stalled
    BY <1>3, <1>9 DEF AInv
  <2> QED
    BY <1>3, <1>4, <1>5, <1>6, <1>7, <2>2, <2>3, FinKeeps
<1> QED
  BY <1>8, <1>9

LEMMA CommitKeeps ==
  ASSUME AInv, NEW u, NEW es, Own(db, u, es), NEW x, Fin(db, x, u, es, relinked), Commit(x)
  PROVE  AInv'
<1>1. calls' \in 0 .. MaxCalls
  BY CallCounted DEF Commit
<1>2. faults' \in 0 .. MaxFaults
  BY DEF AInv, Commit
<1> QED
  BY <1>1, <1>2, FinKeeps DEF Commit
------------------------------------------------------------------------------
(* The writes of a call.                                                    *)

FreePlace(x, e, n, b) == \A f \in ExistingRows(x) \ {e} : x.emp[f].nik # n \/ x.emp[f].branch # b

UserSet(x, y, u, a) == y = [x EXCEPT !.user[u] = a]
Rewritten(x, y, e, r) ==
  /\ y.emp[e] = r /\ \A f \in Rows \ {e} : y.emp[f] = x.emp[f]
  /\ y.user = x.user /\ y.branch = x.branch /\ y.types = x.types

RowSet(x, y, e, r) == y = [x EXCEPT !.emp[e] = r]

LEMMA UserWrite ==
  ASSUME NEW d, NEW u \in Users, NEW es, NEW x, Mid(d, x, u, es),
         NEW a \in Accounts, a.row \in (es \cap ExistingRows(x)) \cup {None}, Free(d, u, a.nik),
         NEW y, UserSet(x, y, u, a)
  PROVE  /\ Mid(d, y, u, es) /\ u \in Living(y)
         /\ y.user[u] = a
         /\ y.emp = x.emp /\ y.branch = x.branch /\ y.types = x.types
<1>1. /\ y \in Tables /\ y.user = [x.user EXCEPT ![u] = a] /\ y.user[u] = a
      /\ y.emp = x.emp /\ y.branch = x.branch /\ y.types = x.types
  BY DEF Mid, Tables, UserSet
<1>2. ExistingRows(y) = ExistingRows(x)
  BY <1>1 DEF ExistingRows
<1>3. Living(y) = Living(x) \cup {u}
  BY <1>1, NoneIsNoRow DEF Living, Mid, Tables
<1>4. OnePlace(y) /\ CodesLive(y)
  BY <1>1, <1>2, <1>3 DEF Mid, OnePlace, CodesLive
<1>5. \A v \in Users \ {u} : y.user[v] = d.user[v]
  BY <1>1 DEF Mid, Tables
<1> QED
  BY <1>1, <1>2, <1>3, <1>4, <1>5 DEF Mid

\* A write that leaves number and row of the account as they are.
LEMMA UserChange ==
  ASSUME NEW d, NEW u \in Users, NEW es, NEW x, Mid(d, x, u, es), u \in Living(x),
         NEW a \in Accounts, a.row = x.user[u].row, a.nik = x.user[u].nik,
         NEW y, UserSet(x, y, u, a)
  PROVE  /\ Mid(d, y, u, es) /\ u \in Living(y)
         /\ y.user[u] = a
         /\ y.emp = x.emp /\ y.branch = x.branch /\ y.types = x.types
<1>1. a.row \in (es \cap ExistingRows(x)) \cup {None} /\ Free(d, u, a.nik)
  BY DEF Mid
<1> QED
  BY <1>1, UserWrite

LEMMA RowWrite ==
  ASSUME NEW d, NEW u \in Users, NEW es, NEW x, Mid(d, x, u, es),
         NEW e \in Rows, e \in es, NEW r \in EmployeeRows, r.code \in Living(x) \cup {None, Gone},
         FreePlace(x, e, r.nik, r.branch),
         NEW y, RowSet(x, y, e, r)
  PROVE  Mid(d, y, u, es) /\ e \in ExistingRows(y) /\ Rewritten(x, y, e, r)
<1>1. /\ y \in Tables /\ y.emp = [x.emp EXCEPT ![e] = r] /\ y.emp[e] = r
      /\ y.user = x.user /\ y.branch = x.branch /\ y.types = x.types
  BY DEF Mid, Tables, RowSet
<1>2. ExistingRows(y) = ExistingRows(x) \cup {e}
  BY <1>1, NoneIsNoRow DEF ExistingRows, Mid, Tables
<1>3. Living(y) = Living(x)
  BY <1>1 DEF Living
<1>4. OnePlace(y)
  <2>1. SUFFICES ASSUME NEW f \in ExistingRows(y), NEW g \in ExistingRows(y), f # g
                 PROVE  y.emp[f].nik # y.emp[g].nik \/ y.emp[f].branch # y.emp[g].branch
    BY DEF OnePlace
  <2>2. \A h \in ExistingRows(y) \ {e} : h \in ExistingRows(x) /\ y.emp[h] = x.emp[h]
    BY <1>1, <1>2 DEF Mid, Tables, ExistingRows
  <2>3. CASE f # e /\ g # e
    BY <2>1, <2>2, <2>3 DEF Mid, OnePlace
  <2>4. CASE f = e \/ g = e
    BY <1>1, <2>1, <2>2, <2>4 DEF FreePlace
  <2> QED
    BY <2>3, <2>4
<1>5. CodesLive(y)
  <2>1. SUFFICES ASSUME NEW f \in ExistingRows(y) PROVE y.emp[f].code \in Living(x) \cup {None, Gone}
    BY <1>3 DEF CodesLive
  <2>2. CASE f = e
    BY <1>1, <2>2
  <2>3. CASE f # e
    BY <1>1, <1>2, <2>3 DEF Mid, CodesLive, Tables, ExistingRows
  <2> QED
    BY <2>2, <2>3
<1>6. \A f \in Rows \ es : y.emp[f] = d.emp[f]
  BY <1>1 DEF Mid, Tables
<1>7. Rewritten(x, y, e, r)
  BY <1>1 DEF Rewritten, Mid, Tables
<1> QED
  BY <1>1, <1>2, <1>3, <1>4, <1>5, <1>6, <1>7 DEF Mid

\* A write that leaves number and branch of the row as they are.
LEMMA RowChange ==
  ASSUME NEW d, NEW u \in Users, NEW es, NEW x, Mid(d, x, u, es),
         NEW e \in Rows, e \in es, e \in ExistingRows(x), NEW r \in EmployeeRows, r.code \in Living(x) \cup {None, Gone},
         r.nik = x.emp[e].nik, r.branch = x.emp[e].branch,
         NEW y, RowSet(x, y, e, r)
  PROVE  Mid(d, y, u, es) /\ e \in ExistingRows(y) /\ Rewritten(x, y, e, r)
<1>1. FreePlace(x, e, r.nik, r.branch)
  BY DEF Mid, OnePlace, FreePlace
<1> QED
  BY <1>1, RowWrite

\* The records of a call that exist.
LEMMA TheirRecords ==
  ASSUME NEW d, NEW u, NEW es, NEW x, Mid(d, x, u, es)
  PROVE  /\ \A v \in Living(x) : x.user[v] \in Accounts
         /\ \A e \in ExistingRows(x) : x.emp[e] \in EmployeeRows /\ x.emp[e].code \in Living(x) \cup {None, Gone}
BY DEF Mid, Tables, Living, ExistingRows, CodesLive

LEMMA OneStep ==
  ASSUME NEW d, NEW u, NEW es, NEW x, Mid(d, x, u, es)
  PROVE  Path(d, <<x>>, u, es) /\ Ends(<<x>>, x)
BY DEF Path, Ends, Mid

LEMMA Joined ==
  ASSUME NEW d, NEW u, NEW es, NEW s, NEW t, Path(d, s, u, es), Path(d, t, u, es)
  PROVE  Path(d, s \o t, u, es) /\ \A y : Ends(t, y) => Ends(s \o t, y)
<1>1. s \in Seq(Tables) /\ t \in Seq(Tables)
  BY DEF Path
<1>2. s \o t \in Seq(Tables) /\ Len(s \o t) = Len(s) + Len(t) /\ Len(s) \in Nat /\ Len(t) \in Nat
  BY <1>1
<1>3. \A k \in 1 .. Len(s) + Len(t) : (s \o t)[k] = IF k <= Len(s) THEN s[k] ELSE t[k - Len(s)]
  BY <1>1
<1>4. \A k \in 1 .. Len(s \o t) : Mid(d, (s \o t)[k], u, es)
  <2>1. SUFFICES ASSUME NEW k \in 1 .. Len(s) + Len(t) PROVE Mid(d, (s \o t)[k], u, es)
    BY <1>2
  <2>2. CASE k <= Len(s)
    <3>1. k \in 1 .. Len(s) /\ (s \o t)[k] = s[k]
      BY <1>2, <1>3, <2>2
    <3> QED
      BY <3>1 DEF Path
  <2>3. CASE ~(k <= Len(s))
    <3>1. k - Len(s) \in 1 .. Len(t) /\ (s \o t)[k] = t[k - Len(s)]
      BY <1>2, <1>3, <2>3
    <3> QED
      BY <3>1 DEF Path
  <2> QED
    BY <2>2, <2>3
<1>5. \A y : Ends(t, y) => Ends(s \o t, y)
  <2>1. SUFFICES ASSUME Len(t) > 0 PROVE (s \o t)[Len(s \o t)] = t[Len(t)] /\ Len(s \o t) > 0
    BY DEF Ends
  <2> QED
    BY <1>2, <1>3, <2>1
<1> QED
  BY <1>2, <1>4, <1>5 DEF Path

LEMMA TwoSteps ==
  ASSUME NEW d, NEW u, NEW es, NEW x, NEW y, Mid(d, x, u, es), Mid(d, y, u, es)
  PROVE  Path(d, <<x, y>>, u, es) /\ Ends(<<x, y>>, y)
<1>1. x \in Tables /\ y \in Tables
  BY DEF Mid
<1> QED
  BY <1>1 DEF Path, Ends

\* What a call does before it attaches the row to the account.
Settling(d, x, u, es, e) ==
  /\ Mid(d, x, u, es) /\ u \in Living(x) /\ e = x.user[u].row /\ e \in Rows /\ Quiet(x, u, es)
  /\ (u \in Living(d) => Placed(d, u)) => Placed(x, u)

LEMMA Attached ==
  ASSUME NEW d, NEW u \in Users, NEW es, NEW x, NEW e, Settling(d, x, u, es, e), NEW looked
  PROVE  /\ Path(d, AttachEmployeeToUserAccount(x, u, e), u, es)
         /\ \E y : /\ Ends(AttachEmployeeToUserAccount(x, u, e), y)
                   /\ Fin(d, y, u, es, looked)
<1>1. /\ Mid(d, x, u, es) /\ u \in Living(x) /\ e = x.user[u].row /\ e \in Rows
      /\ e \in es /\ e \in ExistingRows(x) /\ x.user[u] \in Accounts /\ x.emp[e] \in EmployeeRows
  <2>1. Mid(d, x, u, es) /\ u \in Living(x) /\ e = x.user[u].row /\ e \in Rows
    BY DEF Settling
  <2>2. e \in es /\ e \in ExistingRows(x)
    BY <2>1, NoneIsNoRow DEF Mid
  <2> QED
    BY <2>1, <2>2, TheirRecords
<1>2. PICK a : a = [x.user[u] EXCEPT !.code = TRUE]
  OBVIOUS
<1>3. /\ a \in Accounts /\ a.row = x.user[u].row /\ a.nik = x.user[u].nik /\ a.code
      /\ a.role = x.user[u].role /\ a.branch = x.user[u].branch /\ a.members = x.user[u].members
  BY <1>1, <1>2 DEF Accounts
<1>4. PICK c : c = EnsureUserAccountCode(x, u)
  OBVIOUS
<1>5. UserSet(x, c, u, a)
  BY <1>2, <1>4 DEF EnsureUserAccountCode, UserSet
<1>6. Mid(d, c, u, es) /\ u \in Living(c) /\ c.user[u] = a /\ c.emp = x.emp
  BY <1>1, <1>3, <1>5, UserChange
<1>7. PICK r : r = [x.emp[e] EXCEPT !.code = u]
  OBVIOUS
<1>8. /\ r \in EmployeeRows /\ r.nik = x.emp[e].nik /\ r.branch = x.emp[e].branch
      /\ r.code = u /\ r.active = x.emp[e].active
  BY <1>1, <1>7 DEF EmployeeRows
<1>9. PICK y : y = AttachEmployeeToAccount(c, u, e)
  OBVIOUS
<1>10. RowSet(c, y, e, r)
  BY <1>6, <1>7, <1>9 DEF AttachEmployeeToAccount, RowSet
<1>11. e \in ExistingRows(c) /\ r.code \in Living(c) \cup {None, Gone} /\ r.nik = c.emp[e].nik /\ r.branch = c.emp[e].branch
  BY <1>1, <1>6, <1>8 DEF ExistingRows
<1>12. /\ Mid(d, y, u, es) /\ y.emp[e] = r /\ y.user = c.user
       /\ \A f \in Rows \ {e} : y.emp[f] = c.emp[f]
  <2>1. Mid(d, y, u, es) /\ Rewritten(c, y, e, r)
    BY <1>1, <1>6, <1>8, <1>10, <1>11, RowChange
  <2> QED
    BY <2>1 DEF Rewritten
<1>13. u \in Living(y) /\ y.user[u] = a
  BY <1>6, <1>12 DEF Living
<1>14. Quiet(y, u, es)
  <2>1. SUFFICES ASSUME NEW f \in es \cap ExistingRows(y), y.emp[f].active, f # e PROVE FALSE
    BY <1>1, <1>3, <1>13 DEF Quiet
  <2>2. y.emp[f] = x.emp[f] /\ f \in ExistingRows(x)
    BY <1>6, <1>12, <2>1 DEF ExistingRows
  <2> QED
    BY <1>1, <2>1, <2>2 DEF Settling, Quiet
<1>15. Placed(x, u) => Placed(y, u)
  BY <1>1, <1>3, <1>8, <1>12, <1>13 DEF Placed
<1>16. Recorded(y, u, looked)
  BY <1>1, <1>3, <1>8, <1>12, <1>13 DEF Recorded
<1>17. Fin(d, y, u, es, looked)
  BY <1>12, <1>13, <1>14, <1>15, <1>16 DEF Fin, Settling
<1>18. AttachEmployeeToUserAccount(x, u, e) = <<c, y>>
  BY <1>4, <1>9 DEF AttachEmployeeToUserAccount
<1>19. Path(d, <<c, y>>, u, es) /\ Ends(<<c, y>>, y)
  BY <1>6, <1>12, TwoSteps
<1> QED
  BY <1>17, <1>18, <1>19

LEMMA Settled ==
  ASSUME NEW d, NEW u \in Users, NEW es, NEW x, NEW e, Settling(d, x, u, es, e), NEW looked
  PROVE  /\ Path(d, <<x>> \o AttachEmployeeToUserAccount(x, u, e), u, es)
         /\ \E y : /\ Ends(<<x>> \o AttachEmployeeToUserAccount(x, u, e), y)
                   /\ Fin(d, y, u, es, looked)
<1>1. PICK s : s = AttachEmployeeToUserAccount(x, u, e)
  OBVIOUS
<1>2. Path(d, s, u, es) /\ \E y : Ends(s, y) /\ Fin(d, y, u, es, looked)
  BY <1>1, Attached
<1>3. Path(d, <<x>>, u, es)
  BY OneStep DEF Settling
<1> QED
  BY <1>1, <1>2, <1>3, Joined
------------------------------------------------------------------------------
(* Moving the account of an employee to branch b.                           *)

Home(x, u, b, t) == [SetUserBranches(x, u, {b}, b) EXCEPT !.user[u].row = t]
Relocated(x, u, b, e) == [Home(x, u, b, e) EXCEPT !.emp[e].branch = b]
Then(x, u, t) == <<x>> \o AttachEmployeeToUserAccount(x, u, t)

LEMMA MoveCases ==
  ASSUME NEW x, NEW e, NEW u, NEW b, MoveEmployeeBranch(x, e, u, b) # <<>>
  PROVE  \/ /\ x.emp[e].branch = b
            /\ MoveEmployeeBranch(x, e, u, b) = Then(Home(x, u, b, e), u, e)
         \/ /\ x.emp[e].branch # b
            /\ \E t \in RowsAt(x, x.emp[e].nik, b) :
                 /\ LinkedTo(x, t) \subseteq {u}
                 /\ MoveEmployeeBranch(x, e, u, b) = Then(Left(Home(x, u, b, t), e), u, t)
         \/ /\ x.emp[e].branch # b /\ RowsAt(x, x.emp[e].nik, b) = {}
            /\ MoveEmployeeBranch(x, e, u, b) = Then(Relocated(x, u, b, e), u, e)
<1>1. PICK m : m = MoveEmployeeBranch(x, e, u, b)
  OBVIOUS
<1>2. x.branch[b] = "active"
  BY DEF MoveEmployeeBranch
<1>3. CASE x.emp[e].branch = b
  <2>1. m = Then(Home(x, u, b, e), u, e)
    BY <1>1, <1>2, <1>3 DEF MoveEmployeeBranch, Then, Home
  <2> QED
    BY <1>1, <1>3, <2>1
<1>4. CASE x.emp[e].branch # b /\ RowsAt(x, x.emp[e].nik, b) # {}
  <2>1. PICK t : t = CHOOSE f \in RowsAt(x, x.emp[e].nik, b) : TRUE
    OBVIOUS
  <2>2. t \in RowsAt(x, x.emp[e].nik, b)
    BY <1>4, <2>1
  <2>3. m = IF LinkedTo(x, t) \subseteq {u} THEN Then(Left(Home(x, u, b, t), e), u, t) ELSE <<>>
    BY <1>1, <1>2, <1>4, <2>1 DEF MoveEmployeeBranch, Then, Home
  <2> QED
    BY <1>1, <1>4, <2>2, <2>3
<1>5. CASE x.emp[e].branch # b /\ RowsAt(x, x.emp[e].nik, b) = {}
  <2>1. m = IF x.emp[e].type \in x.types[b] \cup {None} THEN Then(Relocated(x, u, b, e), u, e) ELSE <<>>
    BY <1>1, <1>2, <1>5 DEF MoveEmployeeBranch, Then, Home, Relocated
  <2> QED
    BY <1>1, <1>5, <2>1
<1> QED
  BY <1>3, <1>4, <1>5

\* The account, on row t and at branch b.
AtHome(x, h, u, b, t) ==
  /\ u \in Living(h) /\ h.emp = x.emp
  /\ h.user[u].row = t /\ h.user[u].branch = b /\ h.user[u].members = {b}
  /\ h.user[u].role = x.user[u].role

LEMMA HomeWrite ==
  ASSUME NEW d, NEW u \in Users, NEW es, NEW x, Mid(d, x, u, es), u \in Living(x),
         NEW b \in Branches, NEW t \in Rows, t \in es, t \in ExistingRows(x),
         NEW h, h = Home(x, u, b, t)
  PROVE  Mid(d, h, u, es) /\ AtHome(x, h, u, b, t)
<1>1. x.user[u] \in Accounts /\ x \in Tables /\ u \in Users
  BY TheirRecords DEF Mid
<1>3. PICK a : a = [x.user[u] EXCEPT !.members = {b}, !.branch = b, !.row = t]
  OBVIOUS
<1>4. /\ a \in Accounts /\ a.row = t /\ a.nik = x.user[u].nik
      /\ a.role = x.user[u].role /\ a.branch = b /\ a.members = {b}
  BY <1>1, <1>3 DEF Accounts
<1>5. UserSet(x, h, u, a)
  BY <1>1, <1>3 DEF UserSet, Home, SetUserBranches, Tables, Accounts
<1>6. a.row \in (es \cap ExistingRows(x)) \cup {None} /\ Free(d, u, a.nik)
  BY <1>4 DEF Mid
<1>7. Mid(d, h, u, es) /\ u \in Living(h) /\ h.user[u] = a /\ h.emp = x.emp
  BY <1>4, <1>5, <1>6, UserWrite
<1> QED
  BY <1>4, <1>7 DEF AtHome

LEMMA MoveIsSound ==
  ASSUME NEW d, NEW u \in Users, NEW es, NEW x, Mid(d, x, u, es), u \in Living(x),
         NEW b \in Branches, NEW e, e = x.user[u].row, e \in Rows, x.user[u].role = "employee",
         \A t \in RowsAt(x, x.emp[e].nik, b) : LinkedTo(x, t) \subseteq {u} => t \in es,
         \A f \in es : f = e \/ f \in RowsAt(x, x.emp[e].nik, b),
         MoveEmployeeBranch(x, e, u, b) # <<>>, NEW looked
  PROVE  /\ Path(d, MoveEmployeeBranch(x, e, u, b), u, es)
         /\ \E y : Ends(MoveEmployeeBranch(x, e, u, b), y) /\ Fin(d, y, u, es, looked)
<1>1. e \in es /\ e \in ExistingRows(x) /\ x.emp[e] \in EmployeeRows /\ x.emp[e].code \in Living(x) \cup {None, Gone}
  <2>1. e \in es /\ e \in ExistingRows(x)
    BY NoneIsNoRow DEF Mid
  <2> QED
    BY <2>1, TheirRecords
<1>2. PICK n, m : n = x.emp[e].nik /\ m = MoveEmployeeBranch(x, e, u, b)
  OBVIOUS
<1>3. \A f \in RowsAt(x, n, b) : f \in ExistingRows(x) /\ f \in Rows /\ x.emp[f].nik = n /\ x.emp[f].branch = b
  BY DEF RowsAt, ExistingRows
<1>4. \A f, g \in RowsAt(x, n, b) : f = g
  BY <1>3 DEF Mid, OnePlace
<1>5. \E y, t : Settling(d, y, u, es, t) /\ m = Then(y, u, t)
  <2>1. CASE x.emp[e].branch = b /\ m = Then(Home(x, u, b, e), u, e)
    <3>1. PICK h : h = Home(x, u, b, e)
      OBVIOUS
    <3>2. /\ Mid(d, h, u, es) /\ u \in Living(h) /\ h.emp = x.emp
          /\ h.user[u].row = e /\ h.user[u].branch = b /\ h.user[u].members = {b}
          /\ h.user[u].role = "employee"
      <4>1. Mid(d, h, u, es) /\ AtHome(x, h, u, b, e)
        BY <1>1, <3>1, HomeWrite
      <4> QED
        BY <4>1 DEF AtHome
    <3>3. e \in RowsAt(x, n, b)
      BY <1>1, <1>2, <2>1 DEF RowsAt, ExistingRows
    <3>4. Quiet(h, u, es)
      BY <1>2, <1>4, <3>2, <3>3 DEF Quiet
    <3>5. Placed(h, u)
      BY <2>1, <3>2, NoneIsNoRow DEF Placed
    <3>6. Settling(d, h, u, es, e)
      BY <3>2, <3>4, <3>5 DEF Settling
    <3> QED
      BY <2>1, <3>1, <3>6
  <2>2. ASSUME x.emp[e].branch # b, NEW t \in RowsAt(x, n, b), LinkedTo(x, t) \subseteq {u},
               m = Then(Left(Home(x, u, b, t), e), u, t)
        PROVE  \E y, f : Settling(d, y, u, es, f) /\ m = Then(y, u, f)
    <3>1. PICK h, y : h = Home(x, u, b, t) /\ y = Left(h, e)
      OBVIOUS
    <3>2. t \in es /\ t \in Rows /\ t \in ExistingRows(x) /\ t # e
      BY <1>2, <1>3, <2>2
    <3>3. /\ Mid(d, h, u, es) /\ u \in Living(h) /\ h.emp = x.emp
          /\ h.user[u].row = t /\ h.user[u].branch = b /\ h.user[u].members = {b}
          /\ h.user[u].role = "employee"
      <4>1. Mid(d, h, u, es) /\ AtHome(x, h, u, b, t)
        BY <3>1, <3>2, HomeWrite
      <4> QED
        BY <4>1 DEF AtHome
    <3>4. PICK r : r = [x.emp[e] EXCEPT !.active = FALSE]
      OBVIOUS
    <3>5. /\ r \in EmployeeRows /\ ~r.active /\ r.nik = x.emp[e].nik /\ r.branch = x.emp[e].branch
          /\ r.code = x.emp[e].code
      BY <1>1, <3>4 DEF EmployeeRows
    <3>6. RowSet(h, y, e, r)
      BY <3>1, <3>3, <3>4 DEF Left, RowSet
    <3>7. /\ e \in ExistingRows(h) /\ r.nik = h.emp[e].nik /\ r.branch = h.emp[e].branch
          /\ r.code \in Living(h) \cup {None, Gone}
      <4>1. e \in ExistingRows(h) /\ r.nik = h.emp[e].nik /\ r.branch = h.emp[e].branch
        BY <1>1, <3>3, <3>5 DEF ExistingRows
      <4>2. h.emp[e].code \in Living(h) \cup {None, Gone}
        BY <3>3, <4>1, TheirRecords
      <4> QED
        BY <3>3, <3>5, <4>1, <4>2
    <3>8. Mid(d, y, u, es) /\ Rewritten(h, y, e, r)
      BY <1>1, <3>3, <3>5, <3>6, <3>7, RowChange
    <3>9. /\ y.user = h.user /\ y.emp[e] = r /\ y.emp[t] = x.emp[t]
          /\ \A f \in Rows \ {e} : y.emp[f] = x.emp[f]
      BY <3>2, <3>3, <3>8 DEF Rewritten
    <3>10. u \in Living(y)
      BY <3>3, <3>9 DEF Living
    <3>11. Quiet(y, u, es)
      BY <1>2, <1>4, <3>3, <3>5, <3>9 DEF Quiet
    <3>12. Placed(y, u)
      BY <1>3, <3>2, <3>3, <3>9, NoneIsNoRow DEF Placed
    <3>13. Settling(d, y, u, es, t)
      BY <3>2, <3>3, <3>8, <3>9, <3>10, <3>11, <3>12 DEF Settling
    <3> QED
      BY <2>2, <3>1, <3>13
  <2>3. CASE x.emp[e].branch # b /\ RowsAt(x, n, b) = {} /\ m = Then(Relocated(x, u, b, e), u, e)
    <3>1. PICK h, y : h = Home(x, u, b, e) /\ y = Relocated(x, u, b, e)
      OBVIOUS
    <3>2. /\ Mid(d, h, u, es) /\ u \in Living(h) /\ h.emp = x.emp
          /\ h.user[u].row = e /\ h.user[u].branch = b /\ h.user[u].members = {b}
          /\ h.user[u].role = "employee"
      <4>1. Mid(d, h, u, es) /\ AtHome(x, h, u, b, e)
        BY <1>1, <3>1, HomeWrite
      <4> QED
        BY <4>1 DEF AtHome
    <3>3. PICK r : r = [x.emp[e] EXCEPT !.branch = b]
      OBVIOUS
    <3>4. r \in EmployeeRows /\ r.nik = n /\ r.branch = b /\ r.code = x.emp[e].code
      BY <1>1, <1>2, <3>3 DEF EmployeeRows
    <3>5. RowSet(h, y, e, r)
      BY <3>1, <3>2, <3>3 DEF Relocated, RowSet
    <3>6. FreePlace(h, e, r.nik, r.branch)
      BY <2>3, <3>2, <3>4 DEF FreePlace, RowsAt, ExistingRows
    <3>7. r.code \in Living(h) \cup {None, Gone}
      <4>1. e \in ExistingRows(h)
        BY <1>1, <3>2 DEF ExistingRows
      <4>2. h.emp[e].code \in Living(h) \cup {None, Gone}
        BY <3>2, <4>1, TheirRecords
      <4> QED
        BY <3>2, <3>4, <4>2
    <3>8. Mid(d, y, u, es) /\ Rewritten(h, y, e, r)
      BY <1>1, <3>2, <3>4, <3>5, <3>6, <3>7, RowWrite
    <3>9. y.user = h.user /\ y.emp[e] = r
      BY <3>8 DEF Rewritten
    <3>10. u \in Living(y)
      BY <3>2, <3>9 DEF Living
    <3>11. Quiet(y, u, es)
      BY <1>2, <2>3, <3>2, <3>9 DEF Quiet
    <3>12. Placed(y, u)
      BY <3>2, <3>4, <3>9, NoneIsNoRow DEF Placed
    <3>13. Settling(d, y, u, es, e)
      BY <3>2, <3>8, <3>9, <3>10, <3>11, <3>12 DEF Settling
    <3> QED
      BY <2>3, <3>1, <3>13
  <2>4. m # <<>>
    BY <1>2
  <2> QED
    BY <1>2, <2>1, <2>2, <2>3, <2>4, MoveCases
<1>6. PICK y, t : Settling(d, y, u, es, t) /\ m = Then(y, u, t)
  BY <1>5
<1>7. Path(d, m, u, es) /\ \E z : Ends(m, z) /\ Fin(d, z, u, es, looked)
  BY <1>6, Settled DEF Then
<1> QED
  BY <1>2, <1>7
------------------------------------------------------------------------------
(* Changing the role, and finding or creating the row of an employee.       *)

Roled(x, y, u, role) ==
  /\ u \in Living(y) /\ y.emp = x.emp /\ y.branch = x.branch /\ y.types = x.types
  /\ y.user[u].role = role /\ y.user[u].row = x.user[u].row /\ y.user[u].nik = x.user[u].nik
  /\ y.user[u].branch = x.user[u].branch /\ y.user[u].members = x.user[u].members

WithRole(x, u, role) == [x EXCEPT !.user[u].role = role]

LEMMA RoleWrite ==
  ASSUME NEW d, NEW u \in Users, NEW es, NEW x, Mid(d, x, u, es), u \in Living(x),
         NEW role \in {"employee", "manager", "none"}, NEW y, y = WithRole(x, u, role)
  PROVE  Mid(d, y, u, es) /\ Roled(x, y, u, role)
<1>1. x.user[u] \in Accounts
  BY TheirRecords
<1>2. PICK a : a = [x.user[u] EXCEPT !.role = role]
  OBVIOUS
<1>3. /\ a \in Accounts /\ a.row = x.user[u].row /\ a.nik = x.user[u].nik
      /\ a.role = role /\ a.branch = x.user[u].branch /\ a.members = x.user[u].members
  BY <1>1, <1>2 DEF Accounts
<1>4. UserSet(x, y, u, a)
  BY <1>2 DEF UserSet, WithRole
<1>5. /\ Mid(d, y, u, es) /\ u \in Living(y) /\ y.user[u] = a
      /\ y.emp = x.emp /\ y.branch = x.branch /\ y.types = x.types
  BY <1>1, <1>3, <1>4, UserChange
<1> QED
  BY <1>3, <1>5 DEF Roled

LEMMA RolesWritten ==
  ASSUME NEW d, NEW u \in Users, NEW es, NEW x, Mid(d, x, u, es), u \in Living(x),
         NEW role \in {"employee", "manager"}
  PROVE  /\ Path(d, ChangeRole(x, u, role), u, es)
         /\ Mid(d, ChangeRole(x, u, role)[2], u, es)
         /\ Roled(x, ChangeRole(x, u, role)[2], u, role)
<1>1. PICK y, z : y = WithRole(x, u, "none") /\ z = WithRole(x, u, role)
  OBVIOUS
<1>2. Mid(d, y, u, es)
  BY <1>1, RoleWrite
<1>3. Mid(d, z, u, es) /\ Roled(x, z, u, role)
  BY <1>1, RoleWrite
<1>4. ChangeRole(x, u, role) = <<y, z>>
  BY <1>1 DEF ChangeRole, WithRole
<1>5. ChangeRole(x, u, role)[2] = z
  BY <1>4
<1> QED
  BY <1>2, <1>3, <1>4, <1>5, TwoSteps

\* Row e of an employee at branch b, to be written into tables x, is r.
Ensured(x, y, e, r, b) ==
  /\ e \in Rows /\ r \in EmployeeRows /\ RowSet(x, y, e, r) /\ FreePlace(x, e, r.nik, r.branch)
  /\ r.branch = b /\ \A v \in Living(x) : x.user[v].row # e
  /\ r.code = None \/ (e \in ExistingRows(x) /\ r.code = x.emp[e].code)

LEMMA SameRow ==
  ASSUME NEW x \in Tables, NEW e \in Rows
  PROVE  RowSet(x, x, e, x.emp[e])
BY DEF RowSet, Tables

LEMMA EmployeeRecordIsEnsured ==
  ASSUME NEW x, Core(x), NEW n \in Niks, NEW b \in Branches, NEW type \in TypeCodes \cup {None},
         NEW chosen, NEW p \in EnsureEmployeeRecord(x, n, b, type, chosen)
  PROVE  \E y, e, r : p = <<y, e>> /\ Ensured(x, y, e, r, b)
<1>1. x \in Tables
  BY DEF Core
<1>2. ASSUME NEW e \in ExistingRows(x) PROVE e \in Rows /\ x.emp[e] \in EmployeeRows /\ FreePlace(x, e, x.emp[e].nik, x.emp[e].branch)
  BY <1>1, <1>2 DEF Core, OnePlace, FreePlace, ExistingRows, Tables
<1>3. CASE chosen # None
  <2>1. PICK e \in Rows : p = <<x, e>> /\ x.emp[e] # None /\ x.emp[e].branch = b /\ LinkedTo(x, e) = {}
    BY <1>3 DEF EnsureEmployeeRecord
  <2>2. e \in ExistingRows(x) /\ \A v \in Living(x) : x.user[v].row # e
    BY <2>1 DEF ExistingRows, LinkedTo
  <2>3. Ensured(x, x, e, x.emp[e], b)
    BY <1>1, <1>2, <2>1, <2>2, SameRow DEF Ensured
  <2> QED
    BY <2>1, <2>3
<1>4. PICK known : known = IF type \in x.types[b] THEN type ELSE None
  OBVIOUS
<1>5. CASE chosen = None /\ \E e \in ActiveRowsAt(x, n, b) :
             LinkedTo(x, e) = {} /\ p = <<IF known = None THEN x ELSE [x EXCEPT !.emp[e].type = known], e>>
  <2>1. PICK e \in ActiveRowsAt(x, n, b) :
           LinkedTo(x, e) = {} /\ p = <<IF known = None THEN x ELSE [x EXCEPT !.emp[e].type = known], e>>
    BY <1>5
  <2>2. e \in ExistingRows(x) /\ x.emp[e].branch = b /\ \A v \in Living(x) : x.user[v].row # e
    BY <2>1 DEF ExistingRows, LinkedTo, ActiveRowsAt, RowsAt
  <2>3. CASE known = None
    <3>1. Ensured(x, x, e, x.emp[e], b)
      BY <1>1, <1>2, <2>2, SameRow DEF Ensured
    <3> QED
      BY <2>1, <2>3, <3>1
  <2>4. CASE known # None
    <3>1. PICK r : r = [x.emp[e] EXCEPT !.type = known]
      OBVIOUS
    <3>2. r \in EmployeeRows /\ r.nik = x.emp[e].nik /\ r.branch = x.emp[e].branch /\ r.code = x.emp[e].code
      BY <1>2, <1>4, <2>2, <3>1 DEF EmployeeRows
    <3>3. PICK y : y = [x EXCEPT !.emp[e].type = known]
      OBVIOUS
    <3>4. RowSet(x, y, e, r)
      BY <3>1, <3>3 DEF RowSet
    <3>5. Ensured(x, y, e, r, b)
      BY <1>2, <2>2, <3>2, <3>4 DEF Ensured
    <3> QED
      BY <2>1, <2>4, <3>3, <3>5
  <2> QED
    BY <2>3, <2>4
<1>6. CASE chosen = None /\ \E e \in Rows :
             x.emp[e] = None /\ Vacant(x, n, b) /\ p = <<[x EXCEPT !.emp[e] = NewRow(n, b, known)], e>>
  <2>1. PICK e \in Rows :
           x.emp[e] = None /\ Vacant(x, n, b) /\ p = <<[x EXCEPT !.emp[e] = NewRow(n, b, known)], e>>
    BY <1>6
  <2>2. PICK r, y : r = NewRow(n, b, known) /\ y = [x EXCEPT !.emp[e] = NewRow(n, b, known)]
    OBVIOUS
  <2>3. r \in EmployeeRows /\ r.nik = n /\ r.branch = b /\ r.code = None
    BY <1>4, <2>2 DEF NewRow, EmployeeRows
  <2>4. RowSet(x, y, e, r)
    BY <2>2 DEF RowSet
  <2>5. FreePlace(x, e, r.nik, r.branch)
    BY <2>1, <2>3 DEF FreePlace, Vacant, RowsAt, ExistingRows
  <2>6. \A v \in Living(x) : x.user[v].row # e
    BY <2>1, NoneIsNoRow DEF Core, RowsAreThere, ExistingRows
  <2>7. Ensured(x, y, e, r, b)
    <3>1. e \in Rows
      OBVIOUS
    <3>2. r.code = None \/ (e \in ExistingRows(x) /\ r.code = x.emp[e].code)
      BY <2>3
    <3> QED
      BY <2>3, <2>4, <2>5, <2>6, <3>1, <3>2 DEF Ensured
  <2> QED
    BY <2>1, <2>2, <2>7
<1> QED
  BY <1>3, <1>4, <1>5, <1>6 DEF EnsureEmployeeRecord, Fresh

LEMMA EnsuredWrite ==
  ASSUME NEW d, NEW u \in Users, NEW es, NEW x, Mid(d, x, u, es),
         NEW y, NEW e, NEW r, NEW b, Ensured(x, y, e, r, b), e \in es
  PROVE  Mid(d, y, u, es) /\ e \in ExistingRows(y) /\ Rewritten(x, y, e, r) /\ r.branch = b
<1>1. r.code \in Living(x) \cup {None, Gone}
  BY TheirRecords DEF Ensured
<1>2. e \in Rows /\ r \in EmployeeRows /\ RowSet(x, y, e, r) /\ FreePlace(x, e, r.nik, r.branch) /\ r.branch = b
  BY DEF Ensured
<1> QED
  BY <1>1, <1>2, RowWrite
------------------------------------------------------------------------------
(* A manager who becomes an employee of branch b.                           *)

LinkedAt(x, u, e, b) == [x EXCEPT !.user[u].row = e, !.user[u].branch = b]
Woken(x, e) == [x EXCEPT !.emp[e].active = TRUE]

Settle(d, roles, x, e, u, b) ==
  LET linked == LinkedAt(x, u, e, b)
      placed == SetUserBranches(linked, u, {b}, b)
  IN  IF d.branch[b] = "active"
      THEN Outcome(roles \o <<x, linked, placed>> \o AttachEmployeeToUserAccount(placed, u, e), FALSE)
      ELSE Outcome(roles \o <<x, linked>>, TRUE)

\* The account is linked to row e, whatever the branch.
LEMMA LinkWrite ==
  ASSUME NEW d, NEW u \in Users, NEW es, NEW x, Mid(d, x, u, es), u \in Living(x),
         NEW e \in Rows, e \in es, e \in ExistingRows(x), NEW b \in Branches,
         NEW y, y = LinkedAt(x, u, e, b)
  PROVE  /\ Mid(d, y, u, es) /\ u \in Living(y) /\ y.emp = x.emp
         /\ y.user[u].row = e /\ y.user[u].branch = b /\ y.user[u].role = x.user[u].role
         /\ y.user[u].members = x.user[u].members
<1>1. x.user[u] \in Accounts /\ x \in Tables
  BY TheirRecords DEF Mid
<1>2. PICK a : a = [x.user[u] EXCEPT !.row = e, !.branch = b]
  OBVIOUS
<1>3. /\ a \in Accounts /\ a.row = e /\ a.nik = x.user[u].nik
      /\ a.role = x.user[u].role /\ a.branch = b /\ a.members = x.user[u].members
  BY <1>1, <1>2 DEF Accounts
<1>4. UserSet(x, y, u, a)
  BY <1>1, <1>2 DEF UserSet, LinkedAt, Tables, Accounts
<1>5. a.row \in (es \cap ExistingRows(x)) \cup {None} /\ Free(d, u, a.nik)
  BY <1>3 DEF Mid
<1>6. Mid(d, y, u, es) /\ u \in Living(y) /\ y.user[u] = a /\ y.emp = x.emp
  BY <1>3, <1>4, <1>5, UserWrite
<1> QED
  BY <1>3, <1>6

BranchesSet(x, y, u, bs, b) ==
  /\ u \in Living(y) /\ y.emp = x.emp
  /\ y.user[u].row = x.user[u].row /\ y.user[u].branch = b /\ y.user[u].members = bs
  /\ y.user[u].role = x.user[u].role /\ (x.user[u].code => y.user[u].code)

LEMMA BranchesWrite ==
  ASSUME NEW d, NEW u \in Users, NEW es, NEW x, Mid(d, x, u, es), u \in Living(x),
         NEW bs \in SUBSET Branches, NEW b \in Branches, NEW y, y = SetUserBranches(x, u, bs, b)
  PROVE  Mid(d, y, u, es) /\ BranchesSet(x, y, u, bs, b)
<1>1. x.user[u] \in Accounts /\ x \in Tables
  BY TheirRecords DEF Mid
<1>2. PICK a : a = [x.user[u] EXCEPT !.members = bs, !.branch = b]
  OBVIOUS
<1>3. /\ a \in Accounts /\ a.row = x.user[u].row /\ a.nik = x.user[u].nik
      /\ a.role = x.user[u].role /\ a.branch = b /\ a.members = bs /\ a.code = x.user[u].code
  BY <1>1, <1>2 DEF Accounts
<1>4. UserSet(x, y, u, a)
  BY <1>1, <1>2 DEF UserSet, SetUserBranches, Tables, Accounts
<1>5. Mid(d, y, u, es) /\ u \in Living(y) /\ y.user[u] = a /\ y.emp = x.emp
  BY <1>1, <1>3, <1>4, UserChange
<1> QED
  BY <1>3, <1>5 DEF BranchesSet

LEMMA SettleIsSound ==
  ASSUME NEW d, NEW u \in Users, NEW es, Own(d, u, es), NEW roles, Path(d, roles, u, es),
         NEW x, Mid(d, x, u, es), u \in Living(x), x.user[u].role = "employee",
         NEW e \in Rows, e \in es, e \in ExistingRows(x), NEW b \in Branches, x.emp[e].branch = b,
         \A f \in es : f = e, NEW looked, NEW outcome, outcome = Settle(d, roles, x, e, u, b)
  PROVE  Sound(d, outcome, u, es, looked)
<1>1. PICK y : y = LinkedAt(x, u, e, b)
  OBVIOUS
<1>2. /\ Mid(d, y, u, es) /\ u \in Living(y) /\ y.emp = x.emp
      /\ y.user[u].row = e /\ y.user[u].branch = b /\ y.user[u].role = "employee"
  BY <1>1, LinkWrite
<1>3. PICK bs : bs = {b}
  OBVIOUS
<1>4. PICK z : z = SetUserBranches(y, u, bs, b)
  OBVIOUS
<1>5. /\ Mid(d, z, u, es) /\ u \in Living(z) /\ z.emp = x.emp
      /\ z.user[u].row = e /\ z.user[u].branch = b /\ z.user[u].members = bs
      /\ z.user[u].role = "employee"
  <2>1. bs \in SUBSET Branches
    BY <1>3
  <2>2. /\ Mid(d, z, u, es) /\ u \in Living(z) /\ z.emp = y.emp
        /\ z.user[u].row = y.user[u].row /\ z.user[u].branch = b /\ z.user[u].members = bs
        /\ z.user[u].role = y.user[u].role
    <3>1. Mid(d, z, u, es) /\ BranchesSet(y, z, u, bs, b)
      BY <1>2, <1>4, <2>1, BranchesWrite
    <3> QED
      BY <3>1 DEF BranchesSet
  <2> QED
    BY <1>2, <2>2
<1>6. Settling(d, z, u, es, e)
  <2>1. Placed(z, u)
    BY <1>3, <1>5, NoneIsNoRow DEF Placed
  <2>2. Quiet(z, u, es)
    BY <1>5 DEF Quiet
  <2> QED
    BY <1>5, <2>1, <2>2 DEF Settling
<1>7. PICK s, t : s = AttachEmployeeToUserAccount(z, u, e) /\ t = <<x, y>>
  OBVIOUS
<1>8. Path(d, s, u, es) /\ \E w : Ends(s, w) /\ Fin(d, w, u, es, looked)
  BY <1>6, <1>7, Attached
<1>9. Path(d, t, u, es) /\ Path(d, <<z>>, u, es)
  BY <1>2, <1>5, <1>7, OneStep, TwoSteps
<1>10. CASE d.branch[b] = "active"
  <2>1. outcome.steps = roles \o <<x, y, z>> \o s
    BY <1>1, <1>3, <1>4, <1>7, <1>10 DEF Settle, Outcome
  <2>2. Path(d, <<x, y, z>>, u, es)
    <3>1. x \in Tables /\ y \in Tables /\ z \in Tables
      BY <1>2, <1>5 DEF Mid
    <3>2. <<x, y, z>> = <<x, y>> \o <<z>>
      BY <3>1
    <3> QED
      BY <1>7, <1>9, <3>2, Joined
  <2>3. Path(d, roles \o <<x, y, z>>, u, es)
    BY <2>2, Joined
  <2>4. /\ Path(d, roles \o <<x, y, z>> \o s, u, es)
        /\ \E w : Ends(roles \o <<x, y, z>> \o s, w) /\ Fin(d, w, u, es, looked)
    BY <1>8, <2>3, Joined
  <2> QED
    BY <2>1, <2>4 DEF Sound
<1>11. CASE d.branch[b] # "active"
  <2>1. outcome.steps = roles \o t /\ outcome.late
    BY <1>1, <1>7, <1>11 DEF Settle, Outcome
  <2>2. Path(d, roles \o t, u, es)
    BY <1>9, Joined
  <2> QED
    BY <2>1, <2>2 DEF Sound
<1> QED
  BY <1>10, <1>11

Awake(x, y, e) ==
  /\ e \in ExistingRows(y) /\ y.user = x.user
  /\ y.emp[e].nik = x.emp[e].nik /\ y.emp[e].branch = x.emp[e].branch
  /\ \A f \in Rows \ {e} : y.emp[f] = x.emp[f]

LEMMA WakeWrite ==
  ASSUME NEW d, NEW u \in Users, NEW es, NEW x, Mid(d, x, u, es), NEW e \in Rows, e \in es, e \in ExistingRows(x),
         NEW y, y = Woken(x, e)
  PROVE  Mid(d, y, u, es) /\ Awake(x, y, e)
<1>1. x.emp[e] \in EmployeeRows /\ x.emp[e].code \in Living(x) \cup {None, Gone}
  BY TheirRecords
<1>2. PICK r : r = [x.emp[e] EXCEPT !.active = TRUE]
  OBVIOUS
<1>3. /\ r \in EmployeeRows /\ r.nik = x.emp[e].nik /\ r.branch = x.emp[e].branch
      /\ r.code = x.emp[e].code
  BY <1>1, <1>2 DEF EmployeeRows
<1>4. RowSet(x, y, e, r)
  BY <1>2 DEF Woken, RowSet
<1>5. r.code \in Living(x) \cup {None, Gone}
  BY <1>1, <1>3
<1>6. Mid(d, y, u, es) /\ e \in ExistingRows(y) /\ Rewritten(x, y, e, r)
  BY <1>3, <1>4, <1>5, RowChange
<1> QED
  BY <1>3, <1>6 DEF Rewritten, Awake

\* The ways to become an employee; d2 are the tables with the new role.
Becoming(d, u, b, outcome, roles, d2, old) ==
  \/ /\ old # None /\ d.emp[old].branch = b
     /\ outcome = Settle(d, roles, Woken(d2, old), old, u, b)
  \/ /\ old # None /\ d.emp[old].branch # b
     /\ outcome.steps = roles \o <<Woken(d2, old)>> \o MoveEmployeeBranch(Woken(d2, old), old, u, b)
     /\ outcome.late = (MoveEmployeeBranch(Woken(d2, old), old, u, b) = <<>>)
  \/ /\ old = None
     /\ \E e \in RowsAt(d, d.user[u].nik, b) :
          IF LinkedTo(d, e) \subseteq {u} THEN outcome = Settle(d, roles, Woken(d2, e), e, u, b)
          ELSE outcome.steps = roles /\ outcome.late
  \/ /\ old = None
     /\ \E p \in EnsureEmployeeRecord(d2, d.user[u].nik, b, None, None) :
          outcome = Settle(d, roles, p[1], p[2], u, b)

LEMMA BecomeCases ==
  ASSUME NEW d, NEW u, NEW b, NEW outcome \in BecomeEmployee(d, u, b),
         NEW roles, roles = ChangeRole(d, u, "employee"), NEW d2, d2 = roles[2], NEW old, old = d.user[u].row
  PROVE  Becoming(d, u, b, outcome, roles, d2, old)
<1>1. CASE old # None /\ d.emp[old].branch = b
  BY <1>1 DEF Becoming, BecomeEmployee, Settle, LinkedAt, Woken
<1>2. CASE old # None /\ d.emp[old].branch # b
  <2>1. outcome = Outcome(roles \o <<Woken(d2, old)>> \o MoveEmployeeBranch(Woken(d2, old), old, u, b),
                          MoveEmployeeBranch(Woken(d2, old), old, u, b) = <<>>)
    BY <1>2 DEF BecomeEmployee, Woken
  <2> QED
    BY <1>2, <2>1 DEF Outcome, Becoming
<1>3. CASE old = None /\ \E e \in RowsAt(d, d.user[u].nik, b) :
             outcome = IF LinkedTo(d, e) \subseteq {u} THEN Settle(d, roles, Woken(d2, e), e, u, b)
                       ELSE Outcome(roles, TRUE)
  <2>1. PICK e \in RowsAt(d, d.user[u].nik, b) :
             outcome = IF LinkedTo(d, e) \subseteq {u} THEN Settle(d, roles, Woken(d2, e), e, u, b)
                       ELSE Outcome(roles, TRUE)
    BY <1>3
  <2>2. ~(LinkedTo(d, e) \subseteq {u}) => outcome.steps = roles /\ outcome.late
    BY <2>1 DEF Outcome
  <2> QED
    BY <1>3, <2>1, <2>2 DEF Becoming
<1>4. CASE old = None /\ \E p \in EnsureEmployeeRecord(d2, d.user[u].nik, b, None, None) :
             Vacant(d, d.user[u].nik, b) /\ outcome = Settle(d, roles, p[1], p[2], u, b)
  BY <1>4 DEF Becoming
<1> QED
  <2>1. CASE old # None
    BY <1>1, <1>2, <2>1
  <2>2. CASE old = None
    <3>1. outcome \in
            {IF LinkedTo(d, e) \subseteq {u} THEN Settle(d, roles, Woken(d2, e), e, u, b)
             ELSE Outcome(roles, TRUE) : e \in RowsAt(d, d.user[u].nik, b)}
            \cup {Settle(d, roles, p[1], p[2], u, b) :
                    p \in {q \in EnsureEmployeeRecord(d2, d.user[u].nik, b, None, None) :
                             Vacant(d, d.user[u].nik, b)}}
      BY <2>2, ZenonT(60) DEF BecomeEmployee, Settle, LinkedAt, Woken
    <3> QED
      BY <1>3, <1>4, <2>2, <3>1
  <2> QED
    BY <2>1, <2>2

LEMMA BecomeEmployeeIsSound ==
  ASSUME NEW d, Core(d), NEW u \in Living(d), NEW b \in Branches, NEW looked,
         NEW outcome \in BecomeEmployee(d, u, b)
  PROVE  \E es : Sound(d, outcome, u, es, looked)
<1>1. PICK roles : roles = ChangeRole(d, u, "employee")
  OBVIOUS
<1>2. PICK d2 : d2 = roles[2]
  OBVIOUS
<1>3. PICK old : old = d.user[u].row
  OBVIOUS
<1>4. u \in Users /\ d.user[u] \in Accounts /\ d \in Tables
  BY DEF Living, Core, Tables
<1>11. "employee" \in {"employee", "manager"}
  OBVIOUS
<1>5. ASSUME NEW es, Own(d, u, es)
      PROVE  Path(d, roles, u, es) /\ Mid(d, d2, u, es) /\ Roled(d, d2, u, "employee")
  <2>1. Mid(d, d, u, es)
    BY <1>5, MidStarts
  <2> QED
    BY <1>1, <1>2, <1>4, <1>11, <2>1, RolesWritten
<1>6. ASSUME NEW es, Own(d, u, es), Mid(d, d2, u, es), Roled(d, d2, u, "employee"),
             NEW e \in Rows, e \in es, e \in ExistingRows(d)
      PROVE  /\ Mid(d, Woken(d2, e), u, es) /\ e \in ExistingRows(Woken(d2, e))
             /\ u \in Living(Woken(d2, e)) /\ Woken(d2, e).user = d2.user
             /\ Woken(d2, e).emp[e].nik = d.emp[e].nik /\ Woken(d2, e).emp[e].branch = d.emp[e].branch
             /\ \A f \in Rows \ {e} : Woken(d2, e).emp[f] = d.emp[f]
  <2>1. PICK y : y = Woken(d2, e)
    OBVIOUS
  <2>2. d2.emp = d.emp /\ u \in Living(d2)
    BY <1>6 DEF Roled
  <2>3. e \in ExistingRows(d2)
    BY <1>6, <2>2 DEF ExistingRows
  <2>4. Mid(d, y, u, es) /\ Awake(d2, y, e)
    BY <1>4, <1>6, <2>1, <2>3, WakeWrite
  <2>5. u \in Living(y)
    BY <2>2, <2>4 DEF Living, Awake
  <2> QED
    BY <2>1, <2>2, <2>4, <2>5 DEF Awake
<1>7. CASE old # None /\ d.emp[old].branch = b /\ outcome = Settle(d, roles, Woken(d2, old), old, u, b)
  <2>1. PICK es : es = {old}
    OBVIOUS
  <2>2. old \in Rows /\ old \in ExistingRows(d) /\ Own(d, u, es)
    BY <1>3, <1>4, <1>7, <2>1, NoneIsNoRow DEF Core, RowsAreThere, OneEach, Own, ExistingRows
  <2>3. Path(d, roles, u, es) /\ Mid(d, d2, u, es) /\ Roled(d, d2, u, "employee")
    BY <1>5, <2>2
  <2>4. PICK x : x = Woken(d2, old)
    OBVIOUS
  <2>5. Mid(d, x, u, es) /\ old \in ExistingRows(x) /\ u \in Living(x) /\ x.user = d2.user /\ x.emp[old].branch = b
    BY <1>6, <1>7, <2>1, <2>2, <2>3, <2>4
  <2>6. x.user[u].role = "employee"
    BY <2>3, <2>5 DEF Roled
  <2>7. old \in es /\ \A f \in es : f = old
    BY <2>1
  <2>8. outcome = Settle(d, roles, x, old, u, b)
    BY <1>7, <2>4
  <2>9. Sound(d, outcome, u, es, looked)
    BY <1>4, <2>2, <2>3, <2>5, <2>6, <2>7, <2>8, SettleIsSound
  <2> QED
    BY <2>9
<1>8. CASE /\ old # None /\ d.emp[old].branch # b
           /\ outcome.steps = roles \o <<Woken(d2, old)>> \o MoveEmployeeBranch(Woken(d2, old), old, u, b)
           /\ outcome.late = (MoveEmployeeBranch(Woken(d2, old), old, u, b) = <<>>)
  <2>1. PICK n : n = d.emp[old].nik
    OBVIOUS
  <2>2. PICK es : es = {old} \cup {t \in RowsAt(d, n, b) : LinkedTo(d, t) \subseteq {u}}
    OBVIOUS
  <2>3. old \in Rows /\ old \in ExistingRows(d)
    BY <1>3, <1>4, <1>8, NoneIsNoRow DEF Core, RowsAreThere, ExistingRows
  <2>4. Own(d, u, es)
    BY <1>3, <1>4, <1>8, <2>2, <2>3 DEF Core, OneEach, Own, LinkedTo, RowsAt
  <2>5. Path(d, roles, u, es) /\ Mid(d, d2, u, es) /\ Roled(d, d2, u, "employee")
    BY <1>5, <2>4
  <2>6. PICK x : x = Woken(d2, old)
    OBVIOUS
  <2>7. /\ Mid(d, x, u, es) /\ old \in ExistingRows(x) /\ u \in Living(x) /\ x.user = d2.user
        /\ x.emp[old].nik = d.emp[old].nik /\ x.emp[old].branch = d.emp[old].branch
        /\ \A f \in Rows \ {old} : x.emp[f] = d.emp[f]
    BY <1>6, <2>2, <2>3, <2>4, <2>5, <2>6
  <2>8. x.user[u].role = "employee" /\ x.user[u].row = old
    BY <1>3, <2>5, <2>7 DEF Roled
  <2>9. RowsAt(x, n, b) = RowsAt(d, n, b)
    BY <1>8, <2>3, <2>7 DEF RowsAt, ExistingRows
  <2>10. \A t : LinkedTo(x, t) \subseteq {u} => LinkedTo(d, t) \subseteq {u}
    <3>1. \A v \in Living(d) \ {u} : v \in Living(x) /\ x.user[v] = d.user[v]
      BY <2>7 DEF Mid, Living
    <3> QED
      BY <3>1 DEF LinkedTo
  <2>11. \A t \in RowsAt(x, x.emp[old].nik, b) : LinkedTo(x, t) \subseteq {u} => t \in es
    BY <2>1, <2>2, <2>7, <2>9, <2>10
  <2>12. \A f \in es : f = old \/ f \in RowsAt(x, x.emp[old].nik, b)
    BY <2>1, <2>2, <2>7, <2>9
  <2>13. PICK m : m = MoveEmployeeBranch(x, old, u, b)
    OBVIOUS
  <2>14. Path(d, roles \o <<x>>, u, es)
    <3>1. Path(d, <<x>>, u, es)
      BY <2>7, OneStep
    <3> QED
      BY <2>5, <3>1, Joined
  <2>15. outcome.steps = roles \o <<x>> \o m /\ outcome.late = (m = <<>>)
    BY <1>8, <2>6, <2>13
  <2>16. CASE m = <<>>
    <3>1. Path(d, m, u, es)
      BY <2>16 DEF Path
    <3>2. Path(d, roles \o <<x>> \o m, u, es)
      BY <2>14, <3>1, Joined
    <3> QED
      BY <2>4, <2>15, <2>16, <3>2 DEF Sound
  <2>17. CASE m # <<>>
    <3>1. Path(d, m, u, es) /\ \E y : Ends(m, y) /\ Fin(d, y, u, es, looked)
      BY <1>4, <2>3, <2>7, <2>8, <2>11, <2>12, <2>13, <2>17, MoveIsSound
    <3>2. /\ Path(d, roles \o <<x>> \o m, u, es)
          /\ \E y : Ends(roles \o <<x>> \o m, y) /\ Fin(d, y, u, es, looked)
      BY <2>14, <3>1, Joined
    <3> QED
      BY <2>4, <2>15, <3>2 DEF Sound
  <2> QED
    BY <2>16, <2>17
<1>9. ASSUME old = None, NEW e \in RowsAt(d, d.user[u].nik, b),
             IF LinkedTo(d, e) \subseteq {u} THEN outcome = Settle(d, roles, Woken(d2, e), e, u, b)
             ELSE outcome.steps = roles /\ outcome.late
      PROVE  \E es : Sound(d, outcome, u, es, looked)
  <2>1. e \in Rows /\ e \in ExistingRows(d) /\ d.emp[e].branch = b
    BY DEF RowsAt, ExistingRows
  <2>2. CASE LinkedTo(d, e) \subseteq {u}
    <3>1. PICK es : es = {e}
      OBVIOUS
    <3>2. Own(d, u, es)
      BY <1>3, <1>4, <1>9, <2>1, <2>2, <3>1 DEF Own, LinkedTo
    <3>3. Path(d, roles, u, es) /\ Mid(d, d2, u, es) /\ Roled(d, d2, u, "employee")
      BY <1>5, <3>2
    <3>4. PICK x : x = Woken(d2, e)
      OBVIOUS
    <3>5. Mid(d, x, u, es) /\ e \in ExistingRows(x) /\ u \in Living(x) /\ x.user = d2.user /\ x.emp[e].branch = b
      BY <1>6, <2>1, <3>1, <3>2, <3>3, <3>4
    <3>6. x.user[u].role = "employee"
      BY <3>3, <3>5 DEF Roled
    <3>7. e \in es /\ \A f \in es : f = e
      BY <3>1
    <3>8. outcome = Settle(d, roles, x, e, u, b)
      BY <1>9, <2>2, <3>4
    <3>9. Sound(d, outcome, u, es, looked)
      BY <1>4, <2>1, <3>2, <3>3, <3>5, <3>6, <3>7, <3>8, SettleIsSound
    <3> QED
      BY <3>9
  <2>3. CASE ~(LinkedTo(d, e) \subseteq {u})
    <3>1. Own(d, u, {})
      BY <1>3, <1>4, <1>9 DEF Own
    <3>2. Sound(d, outcome, u, {}, looked)
      BY <1>5, <1>9, <2>3, <3>1 DEF Sound
    <3> QED
      BY <3>2
  <2> QED
    BY <2>2, <2>3
<1>10. ASSUME old = None, NEW p \in EnsureEmployeeRecord(d2, d.user[u].nik, b, None, None),
              outcome = Settle(d, roles, p[1], p[2], u, b)
       PROVE  \E es : Sound(d, outcome, u, es, looked)
  <2>1. Own(d, u, {})
    BY <1>3, <1>4, <1>10 DEF Own
  <2>2. Core(d2)
    <3>1. Mid(d, d2, u, {})
      BY <1>5, <2>1
    <3> QED
      BY <2>1, <3>1, MidIsCore
  <2>3. d.user[u].nik \in Niks
    BY <1>4 DEF Accounts
  <2>4. PICK x, e, r : p = <<x, e>> /\ Ensured(d2, x, e, r, b)
    BY <1>10, <2>2, <2>3, EmployeeRecordIsEnsured
  <2>5. PICK es : es = {e}
    OBVIOUS
  <2>6. e \in Rows /\ \A v \in Living(d2) : d2.user[v].row # e
    BY <2>4 DEF Ensured
  <2>7. Own(d, u, es)
    <3>1. Mid(d, d2, u, {})
      BY <1>5, <2>1
    <3>2. \A v \in Living(d) \ {u} : v \in Living(d2) /\ d2.user[v] = d.user[v]
      BY <3>1 DEF Mid, Living
    <3> QED
      BY <1>3, <1>4, <1>10, <2>5, <2>6, <3>2 DEF Own
  <2>8. Path(d, roles, u, es) /\ Mid(d, d2, u, es) /\ Roled(d, d2, u, "employee")
    BY <1>5, <2>7
  <2>9. e \in es /\ \A f \in es : f = e
    BY <2>5
  <2>10. Mid(d, x, u, es) /\ e \in ExistingRows(x) /\ Rewritten(d2, x, e, r) /\ r.branch = b
    BY <1>4, <2>4, <2>8, <2>9, EnsuredWrite
  <2>11. u \in Living(x) /\ x.user[u].role = "employee" /\ x.emp[e].branch = b
    BY <2>8, <2>10 DEF Roled, Rewritten, Living
  <2>12. outcome = Settle(d, roles, x, e, u, b)
    BY <1>10, <2>4
  <2>13. Sound(d, outcome, u, es, looked)
    BY <1>4, <2>6, <2>7, <2>8, <2>9, <2>10, <2>11, <2>12, SettleIsSound
  <2> QED
    BY <2>13
<1>12. Becoming(d, u, b, outcome, roles, d2, old)
  BY <1>1, <1>2, <1>3, BecomeCases
<1> QED
  BY <1>7, <1>8, <1>9, <1>10, <1>12 DEF Becoming

\* A further write of the type into the row of the account.
LEMMA TypeWrite ==
  ASSUME NEW d, NEW u \in Users, NEW es, Own(d, u, es), NEW looked, NEW x, Fin(d, x, u, es, looked),
         NEW e, e = x.user[u].row, NEW type \in TypeCodes, NEW y, y = [x EXCEPT !.emp[e].type = type]
  PROVE  Fin(d, y, u, es, looked)
<1>1. Mid(d, x, u, es) /\ u \in Living(x) /\ Quiet(x, u, es) /\ x \in Tables /\ x.user[u] \in Accounts
  BY TheirRecords DEF Fin, Mid
<1>2. CASE e = None
  <2>1. e \notin Rows
    BY <1>2, NoneIsNoRow
  <2>2. y = x
    BY <1>1, <2>1 DEF Tables
  <2> QED
    BY <2>2
<1>3. CASE e # None
  <2>1. e \in Rows /\ e \in es /\ e \in ExistingRows(x)
    BY <1>1, <1>3 DEF Mid, ExistingRows
  <2>2. x.emp[e] \in EmployeeRows /\ x.emp[e].code \in Living(x) \cup {None, Gone}
    BY <1>1, <2>1, TheirRecords
  <2>3. PICK r : r = [x.emp[e] EXCEPT !.type = type]
    OBVIOUS
  <2>4. /\ r \in EmployeeRows /\ r.nik = x.emp[e].nik /\ r.branch = x.emp[e].branch
        /\ r.code = x.emp[e].code /\ r.active = x.emp[e].active
    BY <2>2, <2>3 DEF EmployeeRows
  <2>5. RowSet(x, y, e, r)
    BY <2>3 DEF RowSet
  <2>6. r.code \in Living(x) \cup {None, Gone}
    BY <2>2, <2>4
  <2>7. PICK z : z = y
    OBVIOUS
  <2>8. RowSet(x, z, e, r)
    BY <2>5, <2>7
  <2>9. Mid(d, z, u, es) /\ Rewritten(x, z, e, r)
    BY <1>1, <2>1, <2>4, <2>6, <2>8, RowChange
  <2>10. z.user = x.user /\ z.emp[e] = r /\ \A f \in Rows \ {e} : z.emp[f] = x.emp[f]
    BY <2>9 DEF Rewritten
  <2>11. u \in Living(z)
    BY <1>1, <2>10 DEF Living
  <2>12. Quiet(z, u, es)
    BY <1>1, <2>10 DEF Quiet, ExistingRows
  <2>13. (Placed(x, u) => Placed(z, u)) /\ (Recorded(x, u, looked) => Recorded(z, u, looked))
    BY <2>4, <2>10 DEF Placed, Recorded
  <2>14. Fin(d, z, u, es, looked)
    BY <2>9, <2>11, <2>12, <2>13 DEF Fin
  <2> QED
    BY <2>7, <2>14
<1> QED
  BY <1>2, <1>3

LEMMA CodeWrite ==
  ASSUME NEW d, NEW u \in Users, NEW es, NEW x, Mid(d, x, u, es), u \in Living(x),
         NEW y, y = EnsureUserAccountCode(x, u)
  PROVE  /\ Mid(d, y, u, es) /\ u \in Living(y) /\ y.emp = x.emp
         /\ y.user[u].row = x.user[u].row /\ y.user[u].branch = x.user[u].branch
         /\ y.user[u].members = x.user[u].members /\ y.user[u].role = x.user[u].role
<1>1. x.user[u] \in Accounts
  BY TheirRecords
<1>2. PICK a : a = [x.user[u] EXCEPT !.code = TRUE]
  OBVIOUS
<1>3. /\ a \in Accounts /\ a.row = x.user[u].row /\ a.nik = x.user[u].nik
      /\ a.role = x.user[u].role /\ a.branch = x.user[u].branch /\ a.members = x.user[u].members
  BY <1>1, <1>2 DEF Accounts
<1>4. UserSet(x, y, u, a)
  BY <1>2 DEF UserSet, EnsureUserAccountCode
<1>5. Mid(d, y, u, es) /\ u \in Living(y) /\ y.user[u] = a /\ y.emp = x.emp
  BY <1>1, <1>3, <1>4, UserChange
<1> QED
  BY <1>3, <1>5

\* The tables of a manager without a row.
LEMMA ManagerIsFin ==
  ASSUME NEW d, NEW u, NEW es, NEW looked, NEW x, Mid(d, x, u, es), u \in Living(x),
         x.user[u].row = None, x.user[u].role = "manager", x.user[u].branch \in x.user[u].members,
         \A e \in es \cap ExistingRows(x) : ~x.emp[e].active
  PROVE  Fin(d, x, u, es, looked)
BY DEF Fin, Quiet, Placed, Recorded

Unlinked(x, u) == [x EXCEPT !.user[u].row = None]

LEMMA UnlinkWrite ==
  ASSUME NEW d, NEW u \in Users, NEW es, NEW x, Mid(d, x, u, es), u \in Living(x),
         NEW y, y = Unlinked(x, u)
  PROVE  /\ Mid(d, y, u, es) /\ u \in Living(y) /\ y.emp = x.emp
         /\ y.user[u].row = None /\ y.user[u].role = x.user[u].role
<1>1. x.user[u] \in Accounts
  BY TheirRecords
<1>2. PICK a : a = [x.user[u] EXCEPT !.row = None]
  OBVIOUS
<1>3. a \in Accounts /\ a.row = None /\ a.nik = x.user[u].nik /\ a.role = x.user[u].role
  BY <1>1, <1>2 DEF Accounts
<1>4. UserSet(x, y, u, a)
  BY <1>2 DEF UserSet, Unlinked
<1>5. a.row \in (es \cap ExistingRows(x)) \cup {None} /\ Free(d, u, a.nik)
  BY <1>3 DEF Mid
<1>6. Mid(d, y, u, es) /\ u \in Living(y) /\ y.user[u] = a /\ y.emp = x.emp
  BY <1>3, <1>4, <1>5, UserWrite
<1> QED
  BY <1>3, <1>6

Rested(x, e) == IF e = None THEN x ELSE [x EXCEPT !.emp[e].active = FALSE]

Resting(d, x, y, u, e, es) ==
  Mid(d, x, u, es) /\ u \in Living(x) /\ e = x.user[u].row /\ es = {e} \ {None} /\ y = Rested(x, e)
AtRest(x, es) == \A f \in es : ~x.emp[f].active

LEMMA RestWrite ==
  ASSUME NEW d, NEW u \in Users, NEW es, NEW x, NEW e, NEW y, Resting(d, x, y, u, e, es)
  PROVE  /\ Mid(d, y, u, es) /\ u \in Living(y) /\ y.user = x.user
         /\ AtRest(y, es)
<1> USE DEF Resting
<1>1. CASE e = None
  BY <1>1 DEF Rested, AtRest
<1>2. CASE e # None
  <2>1. e \in Rows /\ e \in es /\ e \in ExistingRows(x)
    BY <1>2 DEF Mid, ExistingRows
  <2>2. x.emp[e] \in EmployeeRows /\ x.emp[e].code \in Living(x) \cup {None, Gone}
    BY <2>1, TheirRecords
  <2>3. PICK r : r = [x.emp[e] EXCEPT !.active = FALSE]
    OBVIOUS
  <2>4. /\ r \in EmployeeRows /\ r.nik = x.emp[e].nik /\ r.branch = x.emp[e].branch
        /\ r.code = x.emp[e].code /\ ~r.active
    BY <2>2, <2>3 DEF EmployeeRows
  <2>5. RowSet(x, y, e, r)
    BY <1>2, <2>3 DEF RowSet, Rested
  <2>6. r.code \in Living(x) \cup {None, Gone}
    BY <2>2, <2>4
  <2>7. Mid(d, y, u, es) /\ Rewritten(x, y, e, r)
    BY <2>1, <2>4, <2>5, <2>6, RowChange
  <2> QED
    BY <2>4, <2>7 DEF Rewritten, Living, AtRest
<1> QED
  BY <1>1, <1>2

LEMMA BecomeManagerIsSound ==
  ASSUME NEW d, Core(d), NEW u \in Living(d), NEW bs \in SUBSET Branches, NEW b \in bs, NEW looked
  PROVE  \E es : Sound(d, BecomeManager(d, u, bs, b), u, es, looked)
<1>1. PICK roles : roles = ChangeRole(d, u, "manager")
  OBVIOUS
<1>2. PICK d2 : d2 = roles[2]
  OBVIOUS
<1>3. PICK old : old = d.user[u].row
  OBVIOUS
<1>4. PICK es : es = {old} \ {None}
  OBVIOUS
<1>5. u \in Users /\ d.user[u] \in Accounts /\ b \in Branches /\ "manager" \in {"employee", "manager"}
  BY DEF Living, Core, Tables
<1>6. Own(d, u, es)
  BY <1>3, <1>4, <1>5 DEF Core, OneEach, Own, Accounts
<1>7. Path(d, roles, u, es) /\ Mid(d, d2, u, es) /\ Roled(d, d2, u, "manager")
  <2>1. Mid(d, d, u, es)
    BY <1>6, MidStarts
  <2> QED
    BY <1>1, <1>2, <1>5, <2>1, RolesWritten
<1>8. u \in Living(d2) /\ d2.user[u].row = old /\ d2.user[u].role = "manager"
  BY <1>3, <1>7 DEF Roled
<1>9. PICK w : w = Rested(d2, old)
  OBVIOUS
<1>10. Mid(d, w, u, es) /\ u \in Living(w) /\ w.user = d2.user /\ AtRest(w, es)
  <2>1. Resting(d, d2, w, u, old, es)
    BY <1>4, <1>7, <1>8, <1>9 DEF Resting
  <2> QED
    BY <1>5, <2>1, RestWrite
<1>11. PICK x : x = Unlinked(w, u)
  OBVIOUS
<1>12. /\ Mid(d, x, u, es) /\ u \in Living(x) /\ x.emp = w.emp
       /\ x.user[u].row = None /\ x.user[u].role = w.user[u].role
  BY <1>5, <1>10, <1>11, UnlinkWrite
<1>13. PICK y : y = SetUserBranches(x, u, bs, b)
  OBVIOUS
<1>14. /\ Mid(d, y, u, es) /\ u \in Living(y) /\ y.emp = x.emp
       /\ y.user[u].row = x.user[u].row /\ y.user[u].branch = b /\ y.user[u].members = bs
       /\ y.user[u].role = x.user[u].role
  <2>1. Mid(d, y, u, es) /\ BranchesSet(x, y, u, bs, b)
    BY <1>5, <1>12, <1>13, BranchesWrite
  <2> QED
    BY <2>1 DEF BranchesSet
<1>15. PICK z : z = EnsureUserAccountCode(y, u)
  OBVIOUS
<1>16. /\ Mid(d, z, u, es) /\ u \in Living(z) /\ z.emp = y.emp
       /\ z.user[u].row = y.user[u].row /\ z.user[u].branch = y.user[u].branch
       /\ z.user[u].members = y.user[u].members /\ z.user[u].role = y.user[u].role
  BY <1>5, <1>14, <1>15, CodeWrite
<1>17. Fin(d, z, u, es, looked)
  <2>1. z.user[u].row = None /\ z.user[u].role = "manager" /\ z.user[u].branch \in z.user[u].members
    BY <1>8, <1>10, <1>12, <1>14, <1>16
  <2>2. \A f \in es \cap ExistingRows(z) : ~z.emp[f].active
    BY <1>10, <1>12, <1>14, <1>16 DEF AtRest
  <2> QED
    BY <1>16, <2>1, <2>2, ManagerIsFin
<1>18. PICK o : o = BecomeManager(d, u, bs, b)
  OBVIOUS
<1>19. o = Outcome(roles \o <<w, x, y, z>>, FALSE)
  BY <1>1, <1>2, <1>3, <1>9, <1>11, <1>13, <1>15, <1>18 DEF BecomeManager, Rested, Unlinked
<1>20. <<w, x, y, z>> = <<w, x>> \o <<y, z>>
  <2>1. w \in Tables /\ x \in Tables /\ y \in Tables /\ z \in Tables
    BY <1>10, <1>12, <1>14, <1>16 DEF Mid
  <2> QED
    BY <2>1
<1>21. /\ Path(d, <<w, x>>, u, es) /\ Path(d, <<y, z>>, u, es)
       /\ Ends(<<y, z>>, z)
  BY <1>10, <1>12, <1>14, <1>16, TwoSteps
<1>22. PICK s : s = <<w, x, y, z>>
  OBVIOUS
<1>23. Path(d, s, u, es) /\ Ends(s, z)
  BY <1>20, <1>21, <1>22, Joined
<1>24. Path(d, roles \o s, u, es) /\ Ends(roles \o s, z)
  BY <1>7, <1>23, Joined
<1>25. o.steps = roles \o s
  BY <1>19, <1>22 DEF Outcome
<1>26. Sound(d, o, u, es, looked)
  BY <1>6, <1>17, <1>24, <1>25 DEF Sound
<1> QED
  BY <1>18, <1>26
------------------------------------------------------------------------------
(* The handlers that are several writes.                                    *)

\* A new account with number n.
LEMMA NewWrite ==
  ASSUME NEW d, NEW u \in Users, u \notin Living(d), NEW es, NEW x, Mid(d, x, u, es),
         NEW n \in Niks, WithNik(d, n) = {}, NEW role \in {"employee", "manager"}, NEW b \in Branches,
         NEW e \in (es \cap ExistingRows(x)) \cup {None}, NEW y, UserSet(x, y, u, NewAccount(n, role, b, e))
  PROVE  /\ Mid(d, y, u, es) /\ u \in Living(y) /\ y.emp = x.emp
         /\ y.user[u].row = e /\ y.user[u].role = role /\ y.user[u].branch = b /\ y.user[u].members = {}
<1>1. PICK a : a = NewAccount(n, role, b, e)
  OBVIOUS
<1>2. e \in Rows \cup {None}
  BY DEF ExistingRows
<1>3. a \in Accounts /\ a.row = e /\ a.nik = n /\ a.role = role /\ a.branch = b /\ a.members = {}
  BY <1>1, <1>2 DEF NewAccount, Accounts
<1>4. Free(d, u, a.nik)
  BY <1>3 DEF Free, WithNik
<1>5. UserSet(x, y, u, a)
  BY <1>1
<1>6. a.row \in (es \cap ExistingRows(x)) \cup {None}
  BY <1>3
<1>7. Mid(d, y, u, es) /\ u \in Living(y) /\ y.user[u] = a /\ y.emp = x.emp
  BY <1>3, <1>4, <1>5, <1>6, UserWrite
<1> QED
  BY <1>3, <1>7

Unclaimed(x, e) == [x EXCEPT !.emp[e].code = None]

LEMMA UnclaimWrite ==
  ASSUME NEW d, NEW u \in Users, NEW es, NEW x, Mid(d, x, u, es), NEW e \in Rows, e \in es, e \in ExistingRows(x),
         NEW y, y = Unclaimed(x, e)
  PROVE  /\ Mid(d, y, u, es) /\ y.user = x.user /\ y.emp[e].branch = x.emp[e].branch
<1>1. x.emp[e] \in EmployeeRows
  BY TheirRecords
<1>2. PICK r : r = [x.emp[e] EXCEPT !.code = None]
  OBVIOUS
<1>3. /\ r \in EmployeeRows /\ r.nik = x.emp[e].nik /\ r.branch = x.emp[e].branch /\ r.code = None
  BY <1>1, <1>2 DEF EmployeeRows
<1>4. RowSet(x, y, e, r)
  BY <1>2 DEF Unclaimed, RowSet
<1>5. r.code \in Living(x) \cup {None, Gone}
  BY <1>3
<1>6. Mid(d, y, u, es) /\ Rewritten(x, y, e, r)
  BY <1>3, <1>4, <1>5, RowChange
<1> QED
  BY <1>3, <1>6 DEF Rewritten

LEMMA CreateBranchUserKeeps ==
  ASSUME AInv, NEW n \in Niks, NEW b \in Branches, NEW type \in TypeCodes \cup {None},
         NEW chosen, CreateBranchUser(n, b, type, chosen)
  PROVE  AInv'
<1>1. PICK d : d = db
  OBVIOUS
<1>2. Core(d) /\ WithNik(d, n) = {}
  BY <1>1 DEF AInv, CreateBranchUser
<1>3. PICK u \in Fresh(Users \ Living(d)), p \in EnsureEmployeeRecord(d, n, b, type, chosen) :
        LET e == p[2]
            d2 == [p[1] EXCEPT !.user[u] = NewAccount(n, "employee", b, e)]
            d3 == SetUserBranches(d2, u, {b}, b)
            d4 == [d3 EXCEPT !.emp[e].code = None]
        IN  Run(u, Outcome(<<p[1], d2, d3, d4>> \o AttachEmployeeToUserAccount(d4, u, e), FALSE))
  BY <1>1 DEF CreateBranchUser
<1>4. u \in Users /\ u \notin Living(d)
  BY DEF Fresh
<1>5. PICK x, e, r : p = <<x, e>> /\ Ensured(d, x, e, r, b)
  BY <1>2, EmployeeRecordIsEnsured
<1>6. PICK es : es = {e}
  OBVIOUS
<1>7. e \in Rows /\ e \in es /\ \A v \in Living(d) : d.user[v].row # e
  BY <1>5, <1>6 DEF Ensured
<1>8. Own(d, u, es)
  BY <1>4, <1>6, <1>7 DEF Own
<1>9. Mid(d, x, u, es) /\ e \in ExistingRows(x) /\ x.emp[e].branch = b
  <2>1. Mid(d, d, u, es)
    BY <1>2, <1>8, MidStarts
  <2>2. Mid(d, x, u, es) /\ e \in ExistingRows(x) /\ Rewritten(d, x, e, r) /\ r.branch = b
    BY <1>4, <1>5, <1>7, <2>1, EnsuredWrite
  <2> QED
    BY <2>2 DEF Rewritten
<1>10. PICK y : y = [x EXCEPT !.user[u] = NewAccount(n, "employee", b, e)]
  OBVIOUS
<1>11. UserSet(x, y, u, NewAccount(n, "employee", b, e))
  BY <1>10 DEF UserSet
<1>12. /\ Mid(d, y, u, es) /\ u \in Living(y) /\ y.emp = x.emp
       /\ y.user[u].row = e /\ y.user[u].role = "employee"
  <2>1. "employee" \in {"employee", "manager"} /\ e \in (es \cap ExistingRows(x)) \cup {None}
    BY <1>7, <1>9
  <2> QED
    BY <1>2, <1>4, <1>9, <1>11, <2>1, NewWrite
<1>13. PICK bs : bs = {b}
  OBVIOUS
<1>14. PICK z : z = SetUserBranches(y, u, bs, b)
  OBVIOUS
<1>15. /\ Mid(d, z, u, es) /\ u \in Living(z) /\ z.emp = y.emp
       /\ z.user[u].row = e /\ z.user[u].branch = b /\ z.user[u].members = bs
       /\ z.user[u].role = "employee"
  <2>1. bs \in SUBSET Branches
    BY <1>13
  <2>2. /\ Mid(d, z, u, es) /\ u \in Living(z) /\ z.emp = y.emp
        /\ z.user[u].row = y.user[u].row /\ z.user[u].branch = b /\ z.user[u].members = bs
        /\ z.user[u].role = y.user[u].role
    <3>1. Mid(d, z, u, es) /\ BranchesSet(y, z, u, bs, b)
      BY <1>4, <1>12, <1>14, <2>1, BranchesWrite
    <3> QED
      BY <3>1 DEF BranchesSet
  <2> QED
    BY <1>12, <2>2
<1>16. PICK w : w = Unclaimed(z, e)
  OBVIOUS
<1>17. Mid(d, w, u, es) /\ w.user = z.user /\ w.emp[e].branch = b
  <2>1. e \in ExistingRows(z)
    BY <1>9, <1>12, <1>15 DEF ExistingRows
  <2>2. Mid(d, w, u, es) /\ w.user = z.user /\ w.emp[e].branch = z.emp[e].branch
    BY <1>4, <1>7, <1>15, <1>16, <2>1, UnclaimWrite
  <2> QED
    BY <1>9, <1>12, <1>15, <2>2
<1>18. Settling(d, w, u, es, e)
  <2>1. u \in Living(w)
    BY <1>15, <1>17 DEF Living
  <2>2. Placed(w, u)
    BY <1>7, <1>13, <1>15, <1>17, NoneIsNoRow DEF Placed
  <2>3. Quiet(w, u, es)
    BY <1>6, <1>15, <1>17 DEF Quiet
  <2> QED
    BY <1>7, <1>15, <1>17, <2>1, <2>2, <2>3 DEF Settling
<1>19. PICK s, t : s = <<x, y, z, w>> /\ t = AttachEmployeeToUserAccount(w, u, e)
  OBVIOUS
<1>20. Path(d, s, u, es)
  <2>1. x \in Tables /\ y \in Tables /\ z \in Tables /\ w \in Tables
    BY <1>9, <1>12, <1>15, <1>17 DEF Mid
  <2>2. s = <<x, y>> \o <<z, w>>
    BY <1>19, <2>1
  <2>3. Path(d, <<x, y>>, u, es) /\ Path(d, <<z, w>>, u, es)
    BY <1>9, <1>12, <1>15, <1>17, TwoSteps
  <2> QED
    BY <2>2, <2>3, Joined
<1>21. Path(d, t, u, es) /\ \E v : Ends(t, v) /\ Fin(d, v, u, es, relinked)
  BY <1>4, <1>18, <1>19, Attached
<1>22. Path(d, s \o t, u, es) /\ \E v : Ends(s \o t, v) /\ Fin(d, v, u, es, relinked)
  BY <1>20, <1>21, Joined
<1>23. PICK o : o = Outcome(s \o t, FALSE)
  OBVIOUS
<1>24. Sound(d, o, u, es, relinked)
  BY <1>8, <1>22, <1>23 DEF Sound, Outcome
<1>25. Run(u, o)
  BY <1>3, <1>5, <1>10, <1>13, <1>14, <1>16, <1>19, <1>23 DEF Unclaimed
<1> QED
  BY <1>1, <1>24, <1>25, RunKeeps

LEMMA CreateManagerKeeps ==
  ASSUME AInv, NEW n \in Niks, NEW b \in Branches, NEW bs \in SUBSET Branches, CreateManager(n, b, bs)
  PROVE  AInv'
<1>1. PICK d : d = db
  OBVIOUS
<1>2. Core(d) /\ WithNik(d, n) = {} /\ b \in bs
  BY <1>1 DEF AInv, CreateManager
<1>3. PICK u \in Fresh(Users \ Living(d)) :
        LET d1 == [d EXCEPT !.user[u] = NewAccount(n, "manager", b, None)]
            d2 == SetUserBranches(d1, u, bs, b)
        IN  Run(u, Outcome(<<d1, d2, EnsureUserAccountCode(d2, u)>>, FALSE))
  BY <1>1 DEF CreateManager
<1>4. u \in Users /\ u \notin Living(d)
  BY DEF Fresh
<1>5. PICK es : es = {}
  OBVIOUS
<1>6. Own(d, u, es)
  BY <1>4, <1>5 DEF Own
<1>7. PICK x : x = [d EXCEPT !.user[u] = NewAccount(n, "manager", b, None)]
  OBVIOUS
<1>8. UserSet(d, x, u, NewAccount(n, "manager", b, None))
  BY <1>7 DEF UserSet
<1>9. /\ Mid(d, x, u, es) /\ u \in Living(x) /\ x.emp = d.emp
      /\ x.user[u].row = None /\ x.user[u].role = "manager"
  <2>1. "manager" \in {"employee", "manager"} /\ None \in (es \cap ExistingRows(d)) \cup {None}
    OBVIOUS
  <2>2. Mid(d, d, u, es)
    BY <1>2, <1>6, MidStarts
  <2> QED
    BY <1>2, <1>4, <1>8, <2>1, <2>2, NewWrite
<1>10. PICK y : y = SetUserBranches(x, u, bs, b)
  OBVIOUS
<1>11. /\ Mid(d, y, u, es) /\ u \in Living(y) /\ y.emp = x.emp
       /\ y.user[u].row = x.user[u].row /\ y.user[u].branch = b /\ y.user[u].members = bs
       /\ y.user[u].role = x.user[u].role
  <2>1. Mid(d, y, u, es) /\ BranchesSet(x, y, u, bs, b)
    BY <1>4, <1>9, <1>10, BranchesWrite
  <2> QED
    BY <2>1 DEF BranchesSet
<1>12. PICK z : z = EnsureUserAccountCode(y, u)
  OBVIOUS
<1>13. /\ Mid(d, z, u, es) /\ u \in Living(z) /\ z.emp = y.emp
       /\ z.user[u].row = y.user[u].row /\ z.user[u].branch = y.user[u].branch
       /\ z.user[u].members = y.user[u].members /\ z.user[u].role = y.user[u].role
  BY <1>4, <1>11, <1>12, CodeWrite
<1>14. Fin(d, z, u, es, relinked)
  <2>1. z.user[u].row = None /\ z.user[u].role = "manager" /\ z.user[u].branch \in z.user[u].members
    BY <1>2, <1>9, <1>11, <1>13
  <2>2. \A f \in es \cap ExistingRows(z) : ~z.emp[f].active
    BY <1>5
  <2> QED
    BY <1>13, <2>1, <2>2, ManagerIsFin
<1>15. PICK s : s = <<x, y, z>>
  OBVIOUS
<1>16. Path(d, s, u, es) /\ Ends(s, z)
  <2>1. x \in Tables /\ y \in Tables /\ z \in Tables
    BY <1>9, <1>11, <1>13 DEF Mid
  <2>2. s = <<x, y>> \o <<z>>
    BY <1>15, <2>1
  <2>3. Path(d, <<x, y>>, u, es) /\ Path(d, <<z>>, u, es) /\ Ends(<<z>>, z)
    BY <1>9, <1>11, <1>13, OneStep, TwoSteps
  <2> QED
    BY <2>2, <2>3, Joined
<1>17. PICK o : o = Outcome(s, FALSE)
  OBVIOUS
<1>18. Sound(d, o, u, es, relinked)
  BY <1>6, <1>14, <1>16, <1>17 DEF Sound, Outcome
<1>19. Run(u, o)
  BY <1>3, <1>7, <1>10, <1>12, <1>15, <1>17
<1> QED
  BY <1>1, <1>18, <1>19, RunKeeps

\* Tables as they are, with the row of the account.
LEMMA FinStarts ==
  ASSUME NEW d, Core(d), NEW u \in Living(d), NEW es, es = {d.user[u].row} \ {None}, NEW looked
  PROVE  Own(d, u, es) /\ Fin(d, d, u, es, looked)
<1>1. u \in Users /\ d.user[u] \in Accounts
  BY DEF Living, Core, Tables
<1>2. Own(d, u, es)
  BY <1>1 DEF Core, OneEach, Own, Accounts
<1>3. Quiet(d, u, es)
  BY DEF Quiet
<1> QED
  BY <1>2, <1>3, MidStarts DEF Fin

LEMMA UpdateUserBranchesKeeps ==
  ASSUME AInv, NEW u \in Users, NEW bs \in SUBSET Branches, NEW b \in Branches, UpdateUserBranches(u, bs, b)
  PROVE  AInv'
<1>1. PICK d : d = db
  OBVIOUS
<1>2. Core(d) /\ u \in Living(d) /\ b \in bs
  BY <1>1 DEF AInv, UpdateUserBranches
<1>3. PICK old : old = d.user[u].row
  OBVIOUS
<1>4. CASE /\ d.user[u].role = "employee" /\ old # None
           /\ Run(u, Outcome(MoveEmployeeBranch(d, old, u, b), FALSE))
  <2>1. PICK n : n = d.emp[old].nik
    OBVIOUS
  <2>2. PICK es : es = {old} \cup {t \in RowsAt(d, n, b) : LinkedTo(d, t) \subseteq {u}}
    OBVIOUS
  <2>3. old \in Rows
    BY <1>2, <1>3, <1>4 DEF Core, RowsAreThere, ExistingRows
  <2>4. Own(d, u, es)
    BY <1>2, <1>3, <1>4, <2>2, <2>3 DEF Core, OneEach, Own, LinkedTo, RowsAt
  <2>5. Mid(d, d, u, es)
    BY <1>2, <2>4, MidStarts
  <2>6. \A t \in RowsAt(d, d.emp[old].nik, b) : LinkedTo(d, t) \subseteq {u} => t \in es
    BY <2>1, <2>2
  <2>7. \A f \in es : f = old \/ f \in RowsAt(d, d.emp[old].nik, b)
    BY <2>1, <2>2
  <2>8. PICK m : m = MoveEmployeeBranch(d, old, u, b)
    OBVIOUS
  <2>9. m # <<>>
    BY <1>4, <2>8 DEF Run, Outcome
  <2>10. Path(d, m, u, es) /\ \E y : Ends(m, y) /\ Fin(d, y, u, es, relinked)
    BY <1>2, <1>3, <1>4, <2>3, <2>5, <2>6, <2>7, <2>8, <2>9, MoveIsSound
  <2>11. Sound(d, Outcome(m, FALSE), u, es, relinked)
    BY <2>4, <2>10 DEF Sound, Outcome
  <2> QED
    BY <1>1, <1>4, <2>8, <2>11, RunKeeps
<1>5. CASE d.user[u].role = "manager" /\ Commit(SetUserBranches(d, u, bs, b))
  <2>1. PICK es : es = {old} \ {None}
    OBVIOUS
  <2>2. Own(d, u, es) /\ Fin(d, d, u, es, relinked)
    BY <1>2, <1>3, <2>1, FinStarts
  <2>3. PICK x : x = SetUserBranches(d, u, bs, b)
    OBVIOUS
  <2>4. Mid(d, d, u, es)
    BY <2>2 DEF Fin
  <2>5. /\ Mid(d, x, u, es) /\ u \in Living(x) /\ x.emp = d.emp
        /\ x.user[u].row = d.user[u].row /\ x.user[u].branch = b /\ x.user[u].members = bs
        /\ x.user[u].role = d.user[u].role /\ (d.user[u].code => x.user[u].code)
    <3>1. Mid(d, x, u, es) /\ BranchesSet(d, x, u, bs, b)
      BY <1>2, <2>3, <2>4, BranchesWrite
    <3> QED
      BY <3>1 DEF BranchesSet
  <2>6. Placed(x, u) /\ (Recorded(d, u, relinked) => Recorded(x, u, relinked)) /\ Quiet(x, u, es)
    BY <1>2, <1>3, <1>5, <2>1, <2>5 DEF Placed, Recorded, Quiet
  <2>7. Fin(d, x, u, es, relinked)
    BY <1>2, <2>5, <2>6 DEF Fin
  <2> QED
    BY <1>1, <1>5, <2>2, <2>3, <2>7, CommitKeeps
<1> QED
  BY <1>1, <1>3, <1>4, <1>5 DEF UpdateUserBranches

LEMMA UpdateUserRoleKeeps ==
  ASSUME AInv, NEW u \in Users, NEW b \in Branches, NEW bs \in SUBSET Branches, UpdateUserRole(u, b, bs)
  PROVE  AInv'
<1>1. Core(db) /\ u \in Living(db)
  BY DEF AInv, UpdateUserRole
<1>2. ASSUME NEW outcome \in BecomeEmployee(db, u, b), Run(u, outcome) PROVE AInv'
  <2>1. PICK es : Sound(db, outcome, u, es, relinked)
    BY <1>1, BecomeEmployeeIsSound
  <2> QED
    BY <1>2, <2>1, RunKeeps
<1>3. ASSUME b \in bs, Run(u, BecomeManager(db, u, bs, b)) PROVE AInv'
  <2>1. PICK es : Sound(db, BecomeManager(db, u, bs, b), u, es, relinked)
    BY <1>1, <1>3, BecomeManagerIsSound
  <2> QED
    BY <1>3, <2>1, RunKeeps
<1> QED
  BY <1>2, <1>3 DEF UpdateUserRole

LEMMA UpdateUserAccountRoleKeeps ==
  ASSUME AInv, NEW u \in Users, NEW type \in TypeCodes, NEW b \in Branches, UpdateUserAccountRole(u, type, b)
  PROVE  AInv'
<1>1. PICK d : d = db
  OBVIOUS
<1>2. Core(d) /\ u \in Living(d) /\ d.user[u] \in Accounts
  BY <1>1 DEF AInv, UpdateUserAccountRole, Core, Tables, Living
<1>3. ASSUME NEW outcome \in BecomeEmployee(d, u, b), NEW last, last = outcome.steps[Len(outcome.steps)],
             Run(u, IF outcome.late \/ ~last.emp[last.user[u].row].active THEN outcome
                    ELSE Outcome(Append(outcome.steps, [last EXCEPT !.emp[last.user[u].row].type = type]), FALSE))
      PROVE  AInv'
  <2>1. PICK es : Sound(d, outcome, u, es, relinked)
    BY <1>2, BecomeEmployeeIsSound
  <2>2. CASE outcome.late \/ ~last.emp[last.user[u].row].active
    BY <1>1, <1>3, <2>1, <2>2, RunKeeps
  <2>3. CASE ~(outcome.late \/ ~last.emp[last.user[u].row].active)
    <3>1. Own(d, u, es) /\ Path(d, outcome.steps, u, es) /\ Fin(d, last, u, es, relinked)
      BY <1>3, <2>1, <2>3 DEF Sound, Ends
    <3>2. PICK e : e = last.user[u].row
      OBVIOUS
    <3>3. PICK y : y = [last EXCEPT !.emp[e].type = type]
      OBVIOUS
    <3>4. Fin(d, y, u, es, relinked)
      BY <3>1, <3>2, <3>3, TypeWrite
    <3>5. PICK s : s = outcome.steps
      OBVIOUS
    <3>6. Path(d, <<y>>, u, es) /\ Ends(<<y>>, y)
      BY <3>4, OneStep DEF Fin
    <3>7. Path(d, s \o <<y>>, u, es) /\ Ends(s \o <<y>>, y)
      BY <3>1, <3>5, <3>6, Joined
    <3>8. Append(s, y) = s \o <<y>>
      <4>1. s \in Seq(Tables) /\ y \in Tables
        BY <3>1, <3>4, <3>5 DEF Path, Fin, Mid
      <4> QED
        BY <4>1
    <3>9. Sound(d, Outcome(Append(s, y), FALSE), u, es, relinked)
      BY <3>1, <3>4, <3>7, <3>8 DEF Sound, Outcome
    <3>10. Run(u, Outcome(Append(s, y), FALSE))
      BY <1>3, <2>3, <3>2, <3>3, <3>5
    <3> QED
      BY <1>1, <3>9, <3>10, RunKeeps
  <2> QED
    BY <2>2, <2>3
<1>4. ASSUME NEW e, e = d.user[u].row, Commit([d EXCEPT !.emp[e].type = type]) PROVE AInv'
  <2>1. PICK es : es = {e} \ {None}
    OBVIOUS
  <2>2. Own(d, u, es) /\ Fin(d, d, u, es, relinked)
    BY <1>2, <1>4, <2>1, FinStarts
  <2>3. PICK y : y = [d EXCEPT !.emp[e].type = type]
    OBVIOUS
  <2>4. Fin(d, y, u, es, relinked)
    BY <1>4, <2>2, <2>3, TypeWrite
  <2> QED
    BY <1>1, <1>4, <2>2, <2>3, <2>4, CommitKeeps
<1>5. ASSUME d.user[u].role = "employee", d.user[u].row = None,
             NEW p \in EnsureEmployeeRecord(d, d.user[u].nik, b, type, None),
             LET linked == [p[1] EXCEPT !.user[u].row = p[2], !.user[u].branch = b]
             IN  Run(u, Outcome(<<p[1], linked>> \o AttachEmployeeToUserAccount(linked, u, p[2]), FALSE))
      PROVE  AInv'
  <2>1. d.user[u].nik \in Niks
    BY <1>2 DEF Accounts
  <2>2. PICK x, e, r : p = <<x, e>> /\ Ensured(d, x, e, r, b)
    BY <1>2, <1>5, <2>1, EmployeeRecordIsEnsured
  <2>3. PICK es : es = {e}
    OBVIOUS
  <2>4. e \in Rows /\ e \in es /\ \A v \in Living(d) : d.user[v].row # e
    BY <2>2, <2>3 DEF Ensured
  <2>5. Own(d, u, es)
    BY <1>5, <2>3, <2>4 DEF Own
  <2>6. Mid(d, x, u, es) /\ e \in ExistingRows(x) /\ x.user = d.user
    <3>1. Mid(d, d, u, es)
      BY <1>2, <2>5, MidStarts
    <3>2. Mid(d, x, u, es) /\ e \in ExistingRows(x) /\ Rewritten(d, x, e, r) /\ r.branch = b
      BY <2>2, <2>4, <3>1, EnsuredWrite
    <3> QED
      BY <3>2 DEF Rewritten
  <2>7. PICK y : y = LinkedAt(x, u, e, b)
    OBVIOUS
  <2>8. /\ Mid(d, y, u, es) /\ u \in Living(y) /\ y.emp = x.emp
        /\ y.user[u].row = e
    <3>1. u \in Living(x)
      BY <1>2, <2>6 DEF Living
    <3> QED
      BY <2>4, <2>6, <2>7, <3>1, LinkWrite
  <2>9. Settling(d, y, u, es, e)
    <3>1. ~Placed(d, u)
      BY <1>5 DEF Placed
    <3>2. Quiet(y, u, es)
      BY <2>3, <2>8 DEF Quiet
    <3> QED
      BY <1>2, <2>4, <2>8, <3>1, <3>2 DEF Settling
  <2>10. PICK s, t : s = <<x, y>> /\ t = AttachEmployeeToUserAccount(y, u, e)
    OBVIOUS
  <2>11. Path(d, s, u, es) /\ Path(d, t, u, es) /\ \E v : Ends(t, v) /\ Fin(d, v, u, es, relinked)
    BY <2>6, <2>8, <2>9, <2>10, TwoSteps, Attached
  <2>12. Path(d, s \o t, u, es) /\ \E v : Ends(s \o t, v) /\ Fin(d, v, u, es, relinked)
    BY <2>11, Joined
  <2>13. Sound(d, Outcome(s \o t, FALSE), u, es, relinked)
    BY <2>5, <2>12 DEF Sound, Outcome
  <2>14. Run(u, Outcome(s \o t, FALSE))
    BY <1>5, <2>2, <2>7, <2>10 DEF LinkedAt
  <2> QED
    BY <1>1, <2>13, <2>14, RunKeeps
<1> QED
  BY <1>1, <1>3, <1>4, <1>5 DEF UpdateUserAccountRole

\* The account is linked to row e, and stays at its branch.
RowLinked(x, u, e) == [x EXCEPT !.user[u].row = e]

OnRow(x, y, u, e) ==
  /\ u \in Living(y) /\ y.emp = x.emp
  /\ y.user[u].row = e /\ y.user[u].role = x.user[u].role
  /\ y.user[u].branch = x.user[u].branch /\ y.user[u].members = x.user[u].members

LEMMA RowLinkWrite ==
  ASSUME NEW d, NEW u \in Users, NEW es, NEW x, Mid(d, x, u, es), u \in Living(x),
         NEW e \in Rows, e \in es, e \in ExistingRows(x), NEW y, y = RowLinked(x, u, e)
  PROVE  Mid(d, y, u, es) /\ OnRow(x, y, u, e)
<1>1. x.user[u] \in Accounts
  BY TheirRecords
<1>2. PICK a : a = [x.user[u] EXCEPT !.row = e]
  OBVIOUS
<1>3. /\ a \in Accounts /\ a.row = e /\ a.nik = x.user[u].nik
      /\ a.role = x.user[u].role /\ a.branch = x.user[u].branch /\ a.members = x.user[u].members
  BY <1>1, <1>2 DEF Accounts
<1>4. UserSet(x, y, u, a)
  BY <1>2 DEF UserSet, RowLinked
<1>5. a.row \in (es \cap ExistingRows(x)) \cup {None} /\ Free(d, u, a.nik)
  BY <1>3 DEF Mid
<1>6. Mid(d, y, u, es) /\ u \in Living(y) /\ y.user[u] = a /\ y.emp = x.emp
  BY <1>3, <1>4, <1>5, UserWrite
<1> QED
  BY <1>3, <1>6 DEF OnRow

LEMMA LinkUserToEmployeeByNikKeeps ==
  ASSUME AInv, NEW u \in Users, LinkUserToEmployeeByNik(u)
  PROVE  AInv'
<1>1. PICK d : d = db
  OBVIOUS
<1>2. Core(d) /\ u \in Living(d) /\ d.user[u].row = None
  BY <1>1 DEF AInv, LinkUserToEmployeeByNik
<1>3. PICK e \in ActiveRowsAt(d, d.user[u].nik, d.user[u].branch) :
        LET linked == [d EXCEPT !.user[u].row = e]
        IN  /\ LinkedTo(d, e) = {}
            /\ Run(u, Outcome(<<linked>> \o AttachEmployeeToUserAccount(linked, u, e), FALSE))
  BY <1>1 DEF LinkUserToEmployeeByNik
<1>4. e \in Rows /\ e \in ExistingRows(d)
  BY DEF ActiveRowsAt, RowsAt, ExistingRows
<1>5. PICK es : es = {e}
  OBVIOUS
<1>6. Own(d, u, es) /\ e \in es
  BY <1>2, <1>3, <1>4, <1>5 DEF Own, LinkedTo
<1>7. Mid(d, d, u, es)
  BY <1>2, <1>6, MidStarts
<1>8. PICK x : x = RowLinked(d, u, e)
  OBVIOUS
<1>9. Mid(d, x, u, es) /\ OnRow(d, x, u, e)
  BY <1>2, <1>4, <1>6, <1>7, <1>8, RowLinkWrite
<1>10. Settling(d, x, u, es, e)
  <2>1. Placed(d, u) => Placed(x, u)
    BY <1>2, <1>9 DEF Placed, OnRow
  <2>2. Quiet(x, u, es)
    BY <1>5, <1>9 DEF Quiet, OnRow
  <2> QED
    BY <1>2, <1>4, <1>9, <2>1, <2>2 DEF Settling, OnRow
<1>11. PICK s : s = <<x>> \o AttachEmployeeToUserAccount(x, u, e)
  OBVIOUS
<1>12. Path(d, s, u, es) /\ \E y : Ends(s, y) /\ Fin(d, y, u, es, relinked)
  BY <1>10, <1>11, Settled
<1>13. Sound(d, Outcome(s, FALSE), u, es, relinked)
  BY <1>6, <1>12 DEF Sound, Outcome
<1>14. Run(u, Outcome(s, FALSE))
  BY <1>3, <1>8, <1>11 DEF RowLinked
<1> QED
  BY <1>1, <1>13, <1>14, RunKeeps

\* Linked to a row for a notification: the row becomes one of the relinked.
LEMMA FindUserIdForEmployeeKeeps ==
  ASSUME AInv, NEW e \in Rows, FindUserIdForEmployee(e)
  PROVE  AInv'
<1>1. PICK d : d = db
  OBVIOUS
<1>2. Core(d) /\ e \in ExistingRows(d) /\ LinkedTo(d, e) = {}
  BY <1>1 DEF AInv, FindUserIdForEmployee, ExistingRows
<1>3. PICK u \in WithNik(d, d.emp[e].nik) : d.user[u].row = None /\ db' = [d EXCEPT !.user[u].row = e]
  BY <1>1 DEF FindUserIdForEmployee
<1>4. u \in Living(d) /\ u \in Users
  BY DEF WithNik, Living
<1>5. PICK es : es = {e}
  OBVIOUS
<1>6. Own(d, u, es) /\ e \in es
  BY <1>2, <1>3, <1>4, <1>5 DEF Own, LinkedTo
<1>7. Mid(d, d, u, es)
  BY <1>2, <1>6, MidStarts
<1>8. PICK x : x = RowLinked(d, u, e)
  OBVIOUS
<1>9. Mid(d, x, u, es) /\ OnRow(d, x, u, e)
  BY <1>2, <1>4, <1>6, <1>7, <1>8, RowLinkWrite
<1>10. db' = x
  BY <1>3, <1>8 DEF RowLinked
<1>11. PICK l : l = relinked \cup {e}
  OBVIOUS
<1>12. relinked' = l /\ UNCHANGED <<halfway, stalled, faults>>
  BY <1>11 DEF FindUserIdForEmployee
<1>13. calls' \in 0 .. MaxCalls
  BY CallCounted DEF FindUserIdForEmployee
<1>14. Core(x) /\ Living(x) = Living(d) /\ ExistingRows(x) = ExistingRows(d)
  <2>1. Core(x)
    BY <1>2, <1>6, <1>9, MidIsCore
  <2>2. Living(x) = Living(d)
    BY <1>4, <1>9 DEF Mid, OnRow, Living
  <2>3. ExistingRows(x) = ExistingRows(d)
    BY <1>9 DEF OnRow, ExistingRows
  <2> QED
    BY <2>1, <2>2, <2>3
<1>15. ASSUME NEW v \in Living(x) \ halfway PROVE Placed(x, v) /\ Recorded(x, v, l)
  <2>1. Placed(d, v) /\ Recorded(d, v, relinked)
    BY <1>1, <1>14, <1>15 DEF AInv
  <2>2. CASE v = u
    <3>1. Placed(x, v)
      BY <1>3, <1>9, <2>1, <2>2 DEF Placed, OnRow
    <3>2. Recorded(x, v, l)
      BY <1>9, <1>11, <2>2 DEF Recorded, OnRow
    <3> QED
      BY <3>1, <3>2
  <2>3. CASE v # u
    <3>1. Placed(x, v) /\ Recorded(x, v, relinked)
      BY <1>2, <1>6, <1>9, <2>1, <2>3, MidKeepsOthers
    <3> QED
      BY <1>11, <3>1 DEF Recorded
  <2> QED
    BY <2>2, <2>3
<1>16. Alone(d, relinked) => Alone(x, l)
  <2>1. SUFFICES ASSUME Alone(d, relinked), NEW v \in Living(x), NEW f \in ExistingRows(x) \ l,
                        x.emp[f].code = v, x.emp[f].active
                 PROVE  f = x.user[v].row
    BY DEF Alone
  <2>2. f = d.user[v].row
    BY <1>9, <1>11, <1>14, <2>1 DEF Alone, OnRow
  <2>3. v # u
    BY <1>3, <1>14, <2>1, <2>2, NoneIsNoRow DEF ExistingRows
  <2> QED
    BY <1>9, <1>14, <2>2, <2>3 DEF Mid, Living
<1>17. PICK h, c : h = halfway /\ c = stalled
  OBVIOUS
<1>18. Core(db') /\ h \subseteq Living(db') /\ l \subseteq ExistingRows(db')
  BY <1>1, <1>2, <1>10, <1>11, <1>14, <1>17 DEF AInv
<1>19. \A v \in Living(db') \ h : Placed(db', v) /\ Recorded(db', v, l)
  BY <1>10, <1>15, <1>17
<1>20. (~c => h = {} /\ Alone(db', l)) /\ c \in BOOLEAN
  BY <1>1, <1>10, <1>16, <1>17 DEF AInv
<1>21. faults' \in 0 .. MaxFaults
  BY <1>12 DEF AInv
<1>22. h = halfway' /\ l = relinked' /\ c = stalled'
  BY <1>12, <1>17
<1> QED
  BY <1>13, <1>18, <1>19, <1>20, <1>21, <1>22 DEF AInv

\* The account of a person who scans on row e of tables x.
Joining(x, u, e) ==
  LinkedAt(x, u, e, IF x.user[u].branch = None THEN x.emp[e].branch ELSE x.user[u].branch)
Employed(x, u, e) == [x EXCEPT !.user[u] = NewAccount(x.emp[e].nik, "employee", x.emp[e].branch, e)]

LEMMA PersonCases ==
  ASSUME NEW x \in Tables, NEW e, NEW p \in EnsureUserAccountForEmployee(x, e), NEW u, u = p.user
  PROVE  /\ LinkedTo(x, e) = {}
         /\ \/ /\ u \in WithNik(x, x.emp[e].nik) /\ x.user[u].row = None
               /\ p.steps = Then(Joining(x, u, e), u, e)
            \/ /\ u \in Users /\ u \notin Living(x) /\ WithNik(x, x.emp[e].nik) = {}
               /\ p.steps = Then(Employed(x, u, e), u, e)
<1>1. LinkedTo(x, e) = {}
  BY DEF EnsureUserAccountForEmployee
<1>2. ASSUME NEW v \in WithNik(x, x.emp[e].nik), x.user[v].row = None
      PROVE  [x EXCEPT !.user[v].row = e,
                       !.user[v].branch = IF @ = None THEN x.emp[e].branch ELSE @] = Joining(x, v, e)
  <2>1. v \in Users /\ x.user[v] # None
    BY DEF WithNik, Living
  <2>2. x.user[v] \in Accounts
    BY <2>1 DEF Tables
  <2> QED
    BY <2>1, <2>2 DEF Joining, LinkedAt, Tables, Accounts
<1>3. \/ \E v \in WithNik(x, x.emp[e].nik) :
            /\ x.user[v].row = None
            /\ p = [user |-> v, steps |-> Then(Joining(x, v, e), v, e)]
      \/ \E v \in Fresh(Users \ Living(x)) :
            /\ WithNik(x, x.emp[e].nik) = {}
            /\ p = [user |-> v, steps |-> Then(Employed(x, v, e), v, e)]
  BY <1>1, <1>2 DEF EnsureUserAccountForEmployee, Then, Employed
<1> QED
  BY <1>1, <1>3 DEF Fresh

LEMMA PersonIsSound ==
  ASSUME NEW d, Core(d), NEW x \in Tables, x.user = d.user, NEW e \in Rows, e \in ExistingRows(x), NEW es, es = {e},
         NEW p \in EnsureUserAccountForEmployee(x, e), NEW u, u = p.user,
         u \in Users /\ Own(d, u, es) => Mid(d, x, u, es), NEW looked
  PROVE  /\ u \in Users /\ Own(d, u, es) /\ Path(d, p.steps, u, es)
         /\ \E y : Ends(p.steps, y) /\ Fin(d, y, u, es, looked)
<1>1. PICK n, b : n = x.emp[e].nik /\ b = x.emp[e].branch
  OBVIOUS
<1>2. n \in Niks /\ b \in Branches
  BY <1>1 DEF Tables, ExistingRows, EmployeeRows
<1>3. LinkedTo(x, e) = {}
  BY PersonCases
<1>4. Living(x) = Living(d) /\ WithNik(x, n) = WithNik(d, n) /\ \A v \in Living(d) : d.user[v].row # e
  BY <1>3 DEF Living, WithNik, LinkedTo
<1>5. CASE /\ u \in WithNik(x, n) /\ x.user[u].row = None
           /\ p.steps = Then(Joining(x, u, e), u, e)
  <2>1. u \in Living(d) /\ u \in Users /\ d.user[u].row = None /\ u \in Living(x)
    BY <1>4, <1>5 DEF WithNik, Living
  <2>2. Own(d, u, es) /\ e \in es
    BY <1>4, <2>1 DEF Own
  <2>3. Mid(d, x, u, es)
    BY <2>1, <2>2
  <2>4. x.user[u] \in Accounts
    BY <2>1, <2>3, TheirRecords
  <2>5. PICK at : at = IF x.user[u].branch = None THEN x.emp[e].branch ELSE x.user[u].branch
    OBVIOUS
  <2>6. at \in Branches
    BY <1>1, <1>2, <2>4, <2>5 DEF Accounts
  <2>7. PICK y : y = LinkedAt(x, u, e, at)
    OBVIOUS
  <2>8. /\ Mid(d, y, u, es) /\ u \in Living(y) /\ y.emp = x.emp
        /\ y.user[u].row = e /\ y.user[u].branch = at /\ y.user[u].role = x.user[u].role
        /\ y.user[u].members = x.user[u].members
    <3>1. u \in Users /\ u \in Living(x) /\ e \in es /\ Mid(d, x, u, es)
      BY <2>1, <2>2, <2>3
    <3> QED
      BY <2>6, <2>7, <3>1, LinkWrite
  <2>9. Placed(d, u) => Placed(y, u)
    <3>1. SUFFICES ASSUME Placed(d, u) PROVE Placed(y, u)
      OBVIOUS
    <3>2. d.user[u].role = "manager" /\ d.user[u].branch \in d.user[u].members
      BY <2>1, <3>1 DEF Placed
    <3>3. d.user[u].branch # None
      BY <2>4, <3>2, NoneIsNoRow DEF Accounts
    <3> QED
      BY <2>5, <2>8, <3>2, <3>3 DEF Placed
  <2>10. Settling(d, y, u, es, e)
    <3>1. Quiet(y, u, es)
      BY <2>8 DEF Quiet
    <3> QED
      BY <2>1, <2>8, <2>9, <3>1 DEF Settling
  <2>11. PICK s : s = <<y>> \o AttachEmployeeToUserAccount(y, u, e)
    OBVIOUS
  <2>12. Path(d, s, u, es) /\ \E z : Ends(s, z) /\ Fin(d, z, u, es, looked)
    BY <2>1, <2>10, <2>11, Settled
  <2>13. p.steps = s
    BY <1>5, <2>5, <2>7, <2>11 DEF Joining, Then
  <2> QED
    BY <2>1, <2>2, <2>12, <2>13
<1>6. CASE /\ u \in Users /\ u \notin Living(x) /\ WithNik(x, n) = {}
           /\ p.steps = Then(Employed(x, u, e), u, e)
  <2>1. u \in Users /\ u \notin Living(d) /\ WithNik(d, n) = {}
    BY <1>4, <1>6
  <2>2. PICK y : y = Employed(x, u, e)
    OBVIOUS
  <2>3. p.steps = <<y>> \o AttachEmployeeToUserAccount(y, u, e)
    BY <1>6, <2>2 DEF Then
  <2>4. Own(d, u, es) /\ e \in es
    BY <1>4, <2>1 DEF Own
  <2>5. Mid(d, x, u, es)
    BY <2>1, <2>4
  <2>6. UserSet(x, y, u, NewAccount(n, "employee", b, e))
    BY <1>1, <2>2 DEF UserSet, Employed
  <2>7. /\ Mid(d, y, u, es) /\ u \in Living(y) /\ y.emp = x.emp
        /\ y.user[u].row = e /\ y.user[u].role = "employee" /\ y.user[u].branch = b
        /\ y.user[u].members = {}
    <3>1. "employee" \in {"employee", "manager"} /\ e \in (es \cap ExistingRows(x)) \cup {None}
      BY <2>4
    <3> QED
      BY <1>2, <2>1, <2>5, <2>6, <3>1, NewWrite
  <2>8. Settling(d, y, u, es, e)
    <3>1. Quiet(y, u, es)
      BY <2>7 DEF Quiet
    <3>2. Placed(y, u)
      BY <1>1, <2>7, NoneIsNoRow DEF Placed
    <3> QED
      BY <2>7, <3>1, <3>2 DEF Settling
  <2>9. PICK s : s = <<y>> \o AttachEmployeeToUserAccount(y, u, e)
    OBVIOUS
  <2>10. Path(d, s, u, es) /\ \E z : Ends(s, z) /\ Fin(d, z, u, es, looked)
    BY <2>1, <2>8, <2>9, Settled
  <2> QED
    BY <2>1, <2>3, <2>4, <2>9, <2>10
<1> QED
  BY <1>1, <1>5, <1>6, PersonCases
------------------------------------------------------------------------------
(* Transactions that end, add or relabel accounts and rows.                 *)

\* Tables x after d: the accounts that stay are as placed and recorded as they were.
Kept(d, x, looked) ==
  /\ Core(x) /\ Living(x) \subseteq Living(d)
  /\ \A v \in Living(x) : /\ Placed(d, v) => Placed(x, v)
                          /\ Recorded(d, v, looked) => Recorded(x, v, looked \cap ExistingRows(x))
  /\ Alone(d, looked) => Alone(x, looked \cap ExistingRows(x))

LEMMA KeptKeeps ==
  ASSUME AInv, NEW x, Kept(db, x, relinked), Commit(x)
  PROVE  AInv'
<1>1. PICK h, l, c : h = halfway \cap Living(x) /\ l = relinked \cap ExistingRows(x) /\ c = stalled
  OBVIOUS
<1>2. db' = x /\ halfway' = h /\ relinked' = l /\ stalled' = c /\ UNCHANGED faults
  BY <1>1 DEF Commit
<1>3. calls' \in 0 .. MaxCalls
  BY CallCounted DEF Commit
<1>4. ASSUME NEW v \in Living(x) \ h PROVE Placed(x, v) /\ Recorded(x, v, l)
  <2>1. v \in Living(db) \ halfway
    BY <1>1, <1>4 DEF Kept
  <2> QED
    BY <1>1, <2>1 DEF Kept, AInv
<1>5. Core(db') /\ h \subseteq Living(db') /\ l \subseteq ExistingRows(db')
  BY <1>1, <1>2 DEF Kept
<1>6. \A v \in Living(db') \ h : Placed(db', v) /\ Recorded(db', v, l)
  BY <1>2, <1>4
<1>7. (~c => h = {} /\ Alone(db', l)) /\ c \in BOOLEAN
  BY <1>1, <1>2 DEF Kept, AInv
<1>8. faults' \in 0 .. MaxFaults
  BY <1>2 DEF AInv
<1> QED
  BY <1>2, <1>3, <1>5, <1>6, <1>7, <1>8 DEF AInv

LEMMA KeptAsWell ==
  ASSUME NEW d, NEW x, NEW looked, Kept(d, x, looked), NEW y \in Tables, y.user = x.user, y.emp = x.emp
  PROVE  Kept(d, y, looked)
<1>1. Living(y) = Living(x) /\ ExistingRows(y) = ExistingRows(x)
  BY DEF Living, ExistingRows
<1>2. Core(y)
  BY <1>1 DEF Kept, Core, RowsAreThere, OneEach, OnePlace, CodesLive
<1>3. \A v, l : (Placed(x, v) => Placed(y, v)) /\ (Recorded(x, v, l) => Recorded(y, v, l))
  BY DEF Placed, Recorded
<1>4. \A l : Alone(x, l) => Alone(y, l)
  BY <1>1 DEF Alone
<1> QED
  BY <1>1, <1>2, <1>3, <1>4 DEF Kept

LEMMA KeptStarts ==
  ASSUME NEW d, Core(d), NEW looked, looked \subseteq ExistingRows(d)
  PROVE  Kept(d, d, looked)
<1>1. looked \cap ExistingRows(d) = looked
  OBVIOUS
<1> QED
  BY <1>1 DEF Kept

LEMMA RemoveKept ==
  ASSUME NEW d, Core(d), NEW us, NEW es, NEW looked,
         \A v \in Living(d) \ us : d.user[v].row \notin es
  PROVE  Kept(d, Remove(d, us, es), looked)
<1>1. PICK x : x = Remove(d, us, es)
  OBVIOUS
<1>2. PICK f : f = [u \in Users |-> IF u \in us THEN None ELSE d.user[u]]
  OBVIOUS
<1>3. PICK g : g = [e \in Rows |->
         IF e \in es \/ d.emp[e] = None THEN None
         ELSE [d.emp[e] EXCEPT !.code = IF @ \in us THEN Gone ELSE @]]
  OBVIOUS
<1>4. x = [d EXCEPT !.user = f, !.emp = g] /\ d \in Tables
  BY <1>1, <1>2, <1>3 DEF Remove, Core
<1>5. f \in [Users -> Accounts \cup {None}]
  BY <1>2, <1>4 DEF Tables
<1>6. ASSUME NEW e \in ExistingRows(d) \ es
      PROVE  /\ g[e] \in EmployeeRows /\ g[e].nik = d.emp[e].nik /\ g[e].branch = d.emp[e].branch
             /\ g[e].active = d.emp[e].active /\ g[e].code = IF d.emp[e].code \in us THEN Gone ELSE d.emp[e].code
  <2>1. d.emp[e] \in EmployeeRows /\ e \in Rows /\ d.emp[e] # None
    BY <1>4, <1>6 DEF Tables, ExistingRows
  <2>2. g[e] = [d.emp[e] EXCEPT !.code = IF @ \in us THEN Gone ELSE @]
    BY <1>3, <1>6, <2>1
  <2> QED
    BY <2>1, <2>2 DEF EmployeeRows
<1>7. \A e \in Rows : e \notin ExistingRows(d) \ es => g[e] = None
  BY <1>3 DEF ExistingRows
<1>8. g \in [Rows -> EmployeeRows \cup {None}]
  <2>1. \A e \in Rows : g[e] \in EmployeeRows \cup {None}
    BY <1>6, <1>7
  <2>2. g = [e \in Rows |-> g[e]]
    BY <1>3
  <2> QED
    BY <2>1, <2>2
<1>9. x \in Tables /\ x.user = f /\ x.emp = g
  BY <1>4, <1>5, <1>8 DEF Tables
<1>10. Living(x) = Living(d) \ us /\ \A v \in Living(x) : x.user[v] = d.user[v]
  BY <1>2, <1>9 DEF Living
<1>11. ExistingRows(x) = ExistingRows(d) \ es
  <2>1. \A e \in Rows : e \in ExistingRows(x) <=> g[e] # None
    BY <1>9 DEF ExistingRows
  <2>2. \A e \in Rows : g[e] # None <=> e \in ExistingRows(d) \ es
    BY <1>6, <1>7, NoneIsNoRow
  <2> QED
    BY <2>1, <2>2 DEF ExistingRows
<1>12. ASSUME NEW e \in ExistingRows(x)
       PROVE  /\ e \in ExistingRows(d)
              /\ x.emp[e].nik = d.emp[e].nik /\ x.emp[e].branch = d.emp[e].branch
              /\ x.emp[e].active = d.emp[e].active
              /\ x.emp[e].code = IF d.emp[e].code \in us THEN Gone ELSE d.emp[e].code
  BY <1>6, <1>9, <1>11, <1>12
<1>13. \A v \in Living(x) : x.user[v].row # None => x.user[v].row \in ExistingRows(x)
  BY <1>10, <1>11 DEF Core, RowsAreThere
<1>14. Core(x)
  <2>1. RowsAreThere(x)
    BY <1>13 DEF RowsAreThere
  <2>2. OneEach(x)
    BY <1>10 DEF OneEach, Core
  <2>3. OnePlace(x)
    BY <1>12 DEF OnePlace, Core
  <2>4. CodesLive(x)
    <3>1. SUFFICES ASSUME NEW e \in ExistingRows(x) PROVE x.emp[e].code \in Living(x) \cup {None, Gone}
      BY DEF CodesLive
    <3>2. d.emp[e].code \in Living(d) \cup {None, Gone}
      BY <1>12 DEF Core, CodesLive
    <3> QED
      BY <1>10, <1>12, <3>2
  <2> QED
    BY <1>9, <2>1, <2>2, <2>3, <2>4 DEF Core
<1>15. ASSUME NEW v \in Living(x), Placed(d, v) PROVE Placed(x, v)
  <2>1. x.user[v].row # None => x.emp[x.user[v].row].branch = d.emp[d.user[v].row].branch
    BY <1>10, <1>12, <1>13
  <2> QED
    BY <1>10, <1>15, <2>1 DEF Placed
<1>16. ASSUME NEW v \in Living(x), Recorded(d, v, looked) PROVE Recorded(x, v, looked \cap ExistingRows(x))
  <2>1. SUFFICES ASSUME x.user[v].row \notin (looked \cap ExistingRows(x)) \cup {None}
                 PROVE  x.user[v].code /\ x.emp[x.user[v].row].code = v
    BY DEF Recorded
  <2>2. x.user[v].row \in ExistingRows(x) /\ x.user[v].row \notin looked
    BY <1>13, <2>1
  <2>3. d.user[v].code /\ d.emp[d.user[v].row].code = v
    BY <1>10, <1>16, <2>1, <2>2 DEF Recorded
  <2>4. v \notin us
    BY <1>10
  <2> QED
    BY <1>10, <1>12, <2>2, <2>3, <2>4
<1>17. ASSUME Alone(d, looked) PROVE Alone(x, looked \cap ExistingRows(x))
  <2>1. SUFFICES ASSUME NEW v \in Living(x), NEW e \in ExistingRows(x) \ looked,
                        x.emp[e].code = v, x.emp[e].active
                 PROVE  e = x.user[v].row
    BY DEF Alone
  <2>2. v # Gone
    BY NoneIsNoRow DEF Living
  <2>3. d.emp[e].code = v /\ d.emp[e].active /\ e \in ExistingRows(d) \ looked
    BY <1>12, <2>1, <2>2
  <2> QED
    BY <1>10, <1>17, <2>3 DEF Alone
<1> QED
  BY <1>1, <1>10, <1>14, <1>15, <1>16, <1>17 DEF Kept

\* Rows that keep all but their type.
LEMMA RelabelledKept ==
  ASSUME NEW d, Core(d), NEW looked, looked \subseteq ExistingRows(d), NEW x \in Tables, x.user = d.user,
         \A e \in Rows : x.emp[e] # None <=> d.emp[e] # None,
         \A e \in ExistingRows(d) : /\ x.emp[e].nik = d.emp[e].nik /\ x.emp[e].branch = d.emp[e].branch
                                    /\ x.emp[e].active = d.emp[e].active /\ x.emp[e].code = d.emp[e].code
  PROVE  Kept(d, x, looked)
<1>1. Living(x) = Living(d) /\ ExistingRows(x) = ExistingRows(d) /\ looked \cap ExistingRows(x) = looked
  BY DEF Living, ExistingRows
<1>2. Core(x)
  BY <1>1 DEF Core, RowsAreThere, OneEach, OnePlace, CodesLive
<1>3. ASSUME NEW v \in Living(x) PROVE (Placed(d, v) => Placed(x, v)) /\ (Recorded(d, v, looked) => Recorded(x, v, looked))
  <2>1. d.user[v].row # None => d.user[v].row \in ExistingRows(d)
    BY <1>1, <1>3 DEF Core, RowsAreThere
  <2> QED
    BY <2>1 DEF Placed, Recorded
<1>4. Alone(d, looked) => Alone(x, looked)
  BY <1>1 DEF Alone
<1> QED
  BY <1>1, <1>2, <1>3, <1>4 DEF Kept

\* A new row that nobody has.
LEMMA RowAddedKept ==
  ASSUME NEW d, Core(d), NEW looked, looked \subseteq ExistingRows(d), NEW e \in Rows, e \notin ExistingRows(d),
         NEW n \in Niks, NEW b \in Branches, Vacant(d, n, b), NEW x, RowSet(d, x, e, NewRow(n, b, None))
  PROVE  Kept(d, x, looked)
<1>1. PICK r : r = NewRow(n, b, None)
  OBVIOUS
<1>2. r \in EmployeeRows /\ r.nik = n /\ r.branch = b /\ r.code = None
  BY <1>1 DEF NewRow, EmployeeRows
<1>3. x \in Tables /\ x.user = d.user /\ x.emp = [d.emp EXCEPT ![e] = r] /\ d \in Tables
  BY <1>1, <1>2 DEF Core, Tables, RowSet
<1>4. Living(x) = Living(d)
  BY <1>3 DEF Living
<1>5. ExistingRows(x) = ExistingRows(d) \cup {e} /\ \A f \in ExistingRows(d) : x.emp[f] = d.emp[f] /\ f # e
  BY <1>2, <1>3, NoneIsNoRow DEF ExistingRows, Tables
<1>6. x.emp[e] = r
  BY <1>3 DEF Tables
<1>7. Core(x)
  <2>1. RowsAreThere(x) /\ OneEach(x)
    BY <1>3, <1>4, <1>5 DEF Core, RowsAreThere, OneEach
  <2>2. OnePlace(x)
    BY <1>2, <1>5, <1>6 DEF Core, OnePlace, Vacant, RowsAt, ExistingRows
  <2>3. CodesLive(x)
    BY <1>2, <1>4, <1>5, <1>6 DEF Core, CodesLive
  <2> QED
    BY <1>3, <2>1, <2>2, <2>3 DEF Core
<1>8. \A v \in Living(x) : d.user[v].row # None => d.user[v].row \in ExistingRows(d)
  BY <1>4 DEF Core, RowsAreThere
<1>9. \A v \in Living(x) : (Placed(d, v) => Placed(x, v)) /\ (Recorded(d, v, looked) => Recorded(x, v, looked))
  BY <1>3, <1>5, <1>8 DEF Placed, Recorded
<1>10. Alone(d, looked) => Alone(x, looked)
  <2>1. SUFFICES ASSUME Alone(d, looked), NEW v \in Living(x), NEW f \in ExistingRows(x) \ looked,
                        x.emp[f].code = v, x.emp[f].active
                 PROVE  f = x.user[v].row
    BY DEF Alone
  <2>2. v # None
    BY NoneIsNoRow DEF Living
  <2>3. f \in ExistingRows(d)
    BY <1>2, <1>5, <1>6, <2>1, <2>2
  <2> QED
    BY <1>3, <1>4, <1>5, <2>1, <2>3 DEF Alone
<1>11. looked \cap ExistingRows(x) = looked
  BY <1>5
<1> QED
  BY <1>4, <1>7, <1>9, <1>10, <1>11 DEF Kept

LEMMA FindOrCreateEmployeeKeeps ==
  ASSUME AInv, NEW n \in Niks, NEW b \in Branches, FindOrCreateEmployee(n, b)
  PROVE  AInv'
<1>1. PICK d : d = db
  OBVIOUS
<1>2. Core(d) /\ d \in Tables /\ relinked \subseteq ExistingRows(d)
  BY <1>1 DEF AInv, Core
<1>3. ASSUME NEW e \in ActiveRowsAt(d, n, b), NEW p \in EnsureUserAccountForEmployee(d, e),
             Run(p.user, Outcome(p.steps, FALSE))
      PROVE  AInv'
  <2>1. PICK es, u : es = {e} /\ u = p.user
    OBVIOUS
  <2>2. e \in Rows /\ e \in ExistingRows(d)
    BY DEF ActiveRowsAt, RowsAt, ExistingRows
  <2>3. u \in Users /\ Own(d, u, es) => Mid(d, d, u, es)
    BY <1>2, MidStarts
  <2>4. d.user = d.user
    OBVIOUS
  <2>5. /\ u \in Users /\ Own(d, u, es) /\ Path(d, p.steps, u, es)
        /\ \E y : Ends(p.steps, y) /\ Fin(d, y, u, es, relinked)
    BY <1>2, <2>1, <2>2, <2>3, <2>4, PersonIsSound
  <2>6. Sound(d, Outcome(p.steps, FALSE), u, es, relinked)
    BY <2>5 DEF Sound, Outcome
  <2> QED
    BY <1>1, <1>3, <2>1, <2>6, RunKeeps
<1>4. ASSUME Vacant(d, n, b), NEW e \in Rows, d.emp[e] = None, NEW x, x = [d EXCEPT !.emp[e] = NewRow(n, b, None)],
             \/ Commit(x)
             \/ \E p \in EnsureUserAccountForEmployee(x, e) : Run(p.user, Outcome(<<x>> \o p.steps, FALSE))
      PROVE  AInv'
  <2>1. RowSet(d, x, e, NewRow(n, b, None))
    BY <1>4 DEF RowSet
  <2>2. e \notin ExistingRows(d)
    BY <1>4 DEF ExistingRows
  <2>3. Kept(d, x, relinked)
    BY <1>2, <1>4, <2>1, <2>2, RowAddedKept
  <2>4. CASE Commit(x)
    BY <1>1, <2>3, <2>4, KeptKeeps
  <2>5. ASSUME NEW p \in EnsureUserAccountForEmployee(x, e), Run(p.user, Outcome(<<x>> \o p.steps, FALSE))
        PROVE  AInv'
    <3>1. PICK es, u : es = {e} /\ u = p.user
      OBVIOUS
    <3>2. PICK r : r = NewRow(n, b, None)
      OBVIOUS
    <3>3. r \in EmployeeRows /\ r.nik = n /\ r.branch = b /\ r.code = None
      BY <3>2 DEF NewRow, EmployeeRows
    <3>4. x.user = d.user /\ e \in ExistingRows(x) /\ x \in Tables
      BY <1>2, <2>1, <3>2, <3>3, NoneIsNoRow DEF RowSet, Tables, ExistingRows
    <3>5. FreePlace(d, e, r.nik, r.branch)
      BY <1>4, <3>3 DEF FreePlace, Vacant, RowsAt, ExistingRows
    <3>6. ASSUME u \in Users /\ Own(d, u, es) PROVE Mid(d, x, u, es)
      <4>1. Mid(d, d, u, es)
        BY <1>2, <3>6, MidStarts
      <4>2. e \in es /\ r.code \in Living(d) \cup {None, Gone} /\ RowSet(d, x, e, r)
        BY <2>1, <3>1, <3>2, <3>3
      <4>3. Mid(d, x, u, es) /\ e \in ExistingRows(x) /\ Rewritten(d, x, e, r)
        BY <3>3, <3>5, <3>6, <4>1, <4>2, RowWrite
      <4> QED
        BY <4>3
    <3>7. /\ u \in Users /\ Own(d, u, es) /\ Path(d, p.steps, u, es)
          /\ \E y : Ends(p.steps, y) /\ Fin(d, y, u, es, relinked)
      BY <1>2, <3>1, <3>4, <3>6, PersonIsSound
    <3>8. PICK s : s = p.steps
      OBVIOUS
    <3>9. Path(d, <<x>>, u, es)
      BY <3>6, <3>7, OneStep
    <3>10. Path(d, <<x>> \o s, u, es) /\ \E y : Ends(<<x>> \o s, y) /\ Fin(d, y, u, es, relinked)
      BY <3>7, <3>8, <3>9, Joined
    <3>11. Sound(d, Outcome(<<x>> \o s, FALSE), u, es, relinked)
      BY <3>7, <3>10 DEF Sound, Outcome
    <3> QED
      BY <1>1, <2>5, <3>1, <3>8, <3>11, RunKeeps
  <2> QED
    BY <1>4, <2>4, <2>5
<1> QED
  <2>1. CASE \E e \in ActiveRowsAt(d, n, b) : \E p \in EnsureUserAccountForEmployee(d, e) :
               Run(p.user, Outcome(p.steps, FALSE))
    BY <1>3, <2>1
  <2>2. CASE /\ Vacant(d, n, b)
             /\ \E e \in Rows :
                  /\ d.emp[e] = None
                  /\ LET x == [d EXCEPT !.emp[e] = NewRow(n, b, None)]
                     IN  \/ Commit(x)
                         \/ \E p \in EnsureUserAccountForEmployee(x, e) :
                              Run(p.user, Outcome(<<x>> \o p.steps, FALSE))
    BY <1>4, <2>2
  <2> QED
    BY <1>1, <2>1, <2>2 DEF FindOrCreateEmployee, Fresh

LEMMA ChangeNikKeeps ==
  ASSUME AInv, NEW u \in Users, NEW n \in Niks, ChangeNik(u, n)
  PROVE  AInv'
<1>1. PICK d : d = db
  OBVIOUS
<1>2. Core(d) /\ u \in Living(d) /\ WithNik(d, n) = {}
  BY <1>1 DEF AInv, ChangeNik
<1>3. PICK e : e = d.user[u].row
  OBVIOUS
<1>4. PICK es : es = {e} \ {None}
  OBVIOUS
<1>5. Own(d, u, es) /\ Fin(d, d, u, es, relinked)
  BY <1>2, <1>3, <1>4, FinStarts
<1>6. Mid(d, d, u, es) /\ d.user[u] \in Accounts
  BY <1>2, <1>5, TheirRecords DEF Fin
<1>7. PICK a : a = [d.user[u] EXCEPT !.nik = n]
  OBVIOUS
<1>8. /\ a \in Accounts /\ a.row = e /\ a.nik = n /\ a.role = d.user[u].role
      /\ a.branch = d.user[u].branch /\ a.members = d.user[u].members /\ (d.user[u].code => a.code)
  BY <1>3, <1>6, <1>7 DEF Accounts
<1>9. PICK x : x = [d EXCEPT !.user[u].nik = n]
  OBVIOUS
<1>10. UserSet(d, x, u, a)
  BY <1>7, <1>9 DEF UserSet
<1>11. a.row \in (es \cap ExistingRows(d)) \cup {None} /\ Free(d, u, a.nik)
  <2>1. a.row \in (es \cap ExistingRows(d)) \cup {None}
    BY <1>2, <1>3, <1>6, <1>8 DEF Mid
  <2>2. Free(d, u, a.nik)
    BY <1>2, <1>8 DEF Free, WithNik
  <2> QED
    BY <2>1, <2>2
<1>12. Mid(d, x, u, es) /\ u \in Living(x) /\ x.user[u] = a /\ x.emp = d.emp
  BY <1>6, <1>8, <1>10, <1>11, UserWrite
<1>13. CASE e = None /\ Commit(x)
  <2>1. Quiet(x, u, es)
    BY <1>4, <1>13 DEF Quiet
  <2>2. Placed(d, u) => Placed(x, u)
    BY <1>3, <1>8, <1>12, <1>13 DEF Placed
  <2>3. Recorded(x, u, relinked)
    BY <1>8, <1>12, <1>13 DEF Recorded
  <2>4. Fin(d, x, u, es, relinked)
    BY <1>2, <1>12, <2>1, <2>2, <2>3 DEF Fin
  <2> QED
    BY <1>1, <1>5, <1>13, <2>4, CommitKeeps
<1>14. CASE e # None /\ Vacant(d, n, d.emp[e].branch) /\ Commit([x EXCEPT !.emp[e].nik = n])
  <2>1. e \in Rows /\ e \in es /\ e \in ExistingRows(d)
    BY <1>8, <1>11, <1>14 DEF ExistingRows
  <2>2. d.emp[e] \in EmployeeRows /\ d.emp[e].code \in Living(d) \cup {None, Gone}
    BY <1>6, <2>1, TheirRecords
  <2>3. PICK r : r = [d.emp[e] EXCEPT !.nik = n]
    OBVIOUS
  <2>4. /\ r \in EmployeeRows /\ r.nik = n /\ r.branch = d.emp[e].branch
        /\ r.code = d.emp[e].code
    BY <2>2, <2>3 DEF EmployeeRows
  <2>5. PICK y : y = [x EXCEPT !.emp[e].nik = n]
    OBVIOUS
  <2>6. RowSet(x, y, e, r)
    BY <1>12, <2>3, <2>5 DEF RowSet
  <2>7. FreePlace(x, e, r.nik, r.branch)
    BY <1>12, <1>14, <2>4 DEF FreePlace, Vacant, RowsAt, ExistingRows
  <2>8. r.code \in Living(x) \cup {None, Gone}
    <3>1. Living(d) \subseteq Living(x)
      BY <1>12 DEF Mid
    <3> QED
      BY <2>2, <2>4, <3>1
  <2>9. Mid(d, y, u, es) /\ e \in ExistingRows(y) /\ Rewritten(x, y, e, r)
    BY <1>12, <2>1, <2>4, <2>6, <2>7, <2>8, RowWrite
  <2>10. y.user = x.user /\ y.emp[e] = r
    BY <2>9 DEF Rewritten
  <2>11. u \in Living(y) /\ y.user[u] = a
    BY <1>12, <2>10 DEF Living
  <2>12. Quiet(y, u, es)
    BY <1>4, <1>8, <2>11 DEF Quiet
  <2>13. Placed(d, u) => Placed(y, u)
    BY <1>3, <1>8, <2>4, <2>10, <2>11 DEF Placed
  <2>14. Recorded(d, u, relinked) => Recorded(y, u, relinked)
    BY <1>3, <1>8, <2>4, <2>10, <2>11 DEF Recorded
  <2>15. Fin(d, y, u, es, relinked)
    BY <1>2, <2>9, <2>11, <2>12, <2>13, <2>14 DEF Fin
  <2> QED
    BY <1>1, <1>5, <1>14, <2>5, <2>15, CommitKeeps
<1> QED
  BY <1>1, <1>3, <1>9, <1>13, <1>14 DEF ChangeNik

LEMMA SetActiveKeeps ==
  ASSUME AInv, NEW u \in Users, SetActive(u)
  PROVE  AInv'
<1>1. PICK d : d = db
  OBVIOUS
<1>2. Core(d) /\ u \in Living(d)
  BY <1>1 DEF AInv, SetActive
<1>3. PICK e : e = d.user[u].row
  OBVIOUS
<1>4. PICK es : es = {e} \ {None}
  OBVIOUS
<1>5. Own(d, u, es) /\ Fin(d, d, u, es, relinked)
  BY <1>2, <1>3, <1>4, FinStarts
<1>6. Mid(d, d, u, es) /\ d.user[u] \in Accounts
  BY <1>2, <1>5, TheirRecords DEF Fin
<1>7. PICK flag : flag = ~d.user[u].active /\ flag \in BOOLEAN
  OBVIOUS
<1>8. PICK a : a = [d.user[u] EXCEPT !.active = flag]
  OBVIOUS
<1>9. /\ a \in Accounts /\ a.row = d.user[u].row /\ a.nik = d.user[u].nik /\ a.role = d.user[u].role
      /\ a.branch = d.user[u].branch /\ a.members = d.user[u].members /\ (d.user[u].code => a.code)
  BY <1>6, <1>7, <1>8 DEF Accounts
<1>10. PICK x : x = [d EXCEPT !.user[u].active = flag]
  OBVIOUS
<1>11. UserSet(d, x, u, a)
  BY <1>8, <1>10 DEF UserSet
<1>12. Mid(d, x, u, es) /\ u \in Living(x) /\ x.user[u] = a /\ x.emp = d.emp
  BY <1>2, <1>6, <1>9, <1>11, UserChange
<1>13. CASE e = None /\ Commit(x)
  <2>1. Quiet(x, u, es)
    BY <1>4, <1>13 DEF Quiet
  <2>2. Placed(d, u) => Placed(x, u)
    BY <1>3, <1>9, <1>12, <1>13 DEF Placed
  <2>3. Recorded(x, u, relinked)
    BY <1>3, <1>9, <1>12, <1>13 DEF Recorded
  <2>4. Fin(d, x, u, es, relinked)
    BY <1>2, <1>12, <2>1, <2>2, <2>3 DEF Fin
  <2> QED
    BY <1>1, <1>5, <1>13, <2>4, CommitKeeps
<1>14. CASE e # None /\ Commit([x EXCEPT !.emp[e].active = flag])
  <2>1. e \in Rows /\ e \in es /\ e \in ExistingRows(d)
    BY <1>2, <1>3, <1>6, <1>14 DEF Mid, ExistingRows
  <2>2. d.emp[e] \in EmployeeRows /\ d.emp[e].code \in Living(d) \cup {None, Gone}
    BY <1>6, <2>1, TheirRecords
  <2>3. PICK r : r = [d.emp[e] EXCEPT !.active = flag]
    OBVIOUS
  <2>4. /\ r \in EmployeeRows /\ r.nik = d.emp[e].nik /\ r.branch = d.emp[e].branch
        /\ r.code = d.emp[e].code
    BY <1>7, <2>2, <2>3 DEF EmployeeRows
  <2>5. PICK y : y = [x EXCEPT !.emp[e].active = flag]
    OBVIOUS
  <2>6. RowSet(x, y, e, r)
    BY <1>12, <2>3, <2>5 DEF RowSet
  <2>7. e \in ExistingRows(x) /\ r.nik = x.emp[e].nik /\ r.branch = x.emp[e].branch
    BY <1>12, <2>1, <2>4 DEF ExistingRows
  <2>8. r.code \in Living(x) \cup {None, Gone}
    <3>1. Living(d) \subseteq Living(x)
      BY <1>12 DEF Mid
    <3> QED
      BY <2>2, <2>4, <3>1
  <2>9. Mid(d, y, u, es) /\ e \in ExistingRows(y) /\ Rewritten(x, y, e, r)
    BY <1>12, <2>1, <2>4, <2>6, <2>7, <2>8, RowChange
  <2>10. y.user = x.user /\ y.emp[e] = r
    BY <2>9 DEF Rewritten
  <2>11. u \in Living(y) /\ y.user[u] = a
    BY <1>12, <2>10 DEF Living
  <2>12. Quiet(y, u, es)
    BY <1>3, <1>4, <1>9, <2>11 DEF Quiet
  <2>13. Placed(d, u) => Placed(y, u)
    BY <1>3, <1>9, <2>4, <2>10, <2>11 DEF Placed
  <2>14. Recorded(d, u, relinked) => Recorded(y, u, relinked)
    BY <1>3, <1>9, <2>4, <2>10, <2>11 DEF Recorded
  <2>15. Fin(d, y, u, es, relinked)
    BY <1>2, <2>9, <2>11, <2>12, <2>13, <2>14 DEF Fin
  <2> QED
    BY <1>1, <1>5, <1>14, <2>5, <2>15, CommitKeeps
<1> QED
  BY <1>1, <1>3, <1>7, <1>10, <1>13, <1>14 DEF SetActive

LEMMA DeleteUserKeeps ==
  ASSUME AInv, NEW u \in Users, DeleteUserPermanently(u)
  PROVE  AInv'
<1>1. Core(db) /\ u \in Living(db)
  BY DEF AInv, DeleteUserPermanently
<1>2. PICK us, es : us = {u} /\ es = {db.user[u].row} \cap Rows
  OBVIOUS
<1>3. \A v \in Living(db) \ us : db.user[v].row \notin es
  BY <1>1, <1>2, NoneIsNoRow DEF Core, OneEach
<1>4. Kept(db, Remove(db, us, es), relinked)
  BY <1>1, <1>3, RemoveKept
<1> QED
  BY <1>2, <1>4, KeptKeeps DEF DeleteUserPermanently

LEMMA PurgeKeeps ==
  ASSUME AInv, NEW b \in Branches, PurgeBranchEmployees(b)
  PROVE  AInv'
<1>1. Core(db)
  BY DEF AInv
<1>2. PICK us, es : us = EmployeeUserIdsInBranch(db, b) /\ es = EmployeeIdsInBranch(db, b)
  OBVIOUS
<1>3. \A v \in Living(db) \ us : db.user[v].row \notin es
  BY <1>2 DEF EmployeeUserIdsInBranch
<1>4. Kept(db, Remove(db, us, es), relinked)
  BY <1>1, <1>3, RemoveKept
<1> QED
  BY <1>2, <1>4, KeptKeeps DEF PurgeBranchEmployees

LEMMA DeleteBranchKeeps ==
  ASSUME AInv, NEW b \in Branches, PermanentlyDeleteBranch(b)
  PROVE  AInv'
<1>1. Core(db)
  BY DEF AInv
<1>2. PICK us, es : us = AllNonOwnerUserIdsForBranch(db, b) /\ es = EmployeeIdsInBranch(db, b)
  OBVIOUS
<1>3. \A v \in Living(db) \ us : db.user[v].row \notin es
  BY <1>2 DEF AllNonOwnerUserIdsForBranch
<1>4. PICK x : x = Remove(db, us, es)
  OBVIOUS
<1>5. Kept(db, x, relinked)
  BY <1>1, <1>3, <1>4, RemoveKept
<1>6. PICK y : y = [x EXCEPT !.branch[b] = None, !.types[b] = {}]
  OBVIOUS
<1>7. y \in Tables /\ y.user = x.user /\ y.emp = x.emp
  BY <1>5, <1>6 DEF Kept, Core, Tables
<1>8. Kept(db, y, relinked)
  BY <1>5, <1>7, KeptAsWell
<1>9. Commit(y)
  BY <1>2, <1>4, <1>6 DEF PermanentlyDeleteBranch
<1> QED
  BY <1>8, <1>9, KeptKeeps
------------------------------------------------------------------------------
(* Handlers of branches, types and the organisation.                        *)

\* A transaction that touches neither accounts nor rows.
LEMMA PeopleUntouched ==
  ASSUME AInv, NEW y \in Tables, y.user = db.user, y.emp = db.emp, Commit(y)
  PROVE  AInv'
<1>1. Kept(db, db, relinked)
  BY KeptStarts DEF AInv
<1>2. Kept(db, y, relinked)
  BY <1>1, KeptAsWell
<1> QED
  BY <1>2, KeptKeeps

LEMMA CreateBranchKeeps ==
  ASSUME AInv, NEW b \in Branches, CreateBranch(b)
  PROVE  AInv'
<1>1. PICK y : y = [db EXCEPT !.branch[b] = "active", !.types[b] = TypeCodes]
  OBVIOUS
<1>2. y \in Tables /\ y.user = db.user /\ y.emp = db.emp
  BY <1>1 DEF AInv, Core, Tables
<1>3. Commit(y)
  BY <1>1 DEF CreateBranch
<1> QED
  BY <1>2, <1>3, PeopleUntouched

LEMMA UpdateBranchKeeps ==
  ASSUME AInv, NEW b \in Branches, UpdateBranch(b)
  PROVE  AInv'
<1>1. PICK y : y = [db EXCEPT !.branch[b] = IF @ = "active" THEN "off" ELSE "active"]
  OBVIOUS
<1>2. y \in Tables /\ y.user = db.user /\ y.emp = db.emp
  BY <1>1 DEF AInv, Core, Tables
<1>3. Commit(y)
  BY <1>1 DEF UpdateBranch
<1> QED
  BY <1>2, <1>3, PeopleUntouched

LEMMA RegisterOwnerKeeps ==
  ASSUME AInv, RegisterOwner
  PROVE  AInv'
<1>1. PICK y : y = [db EXCEPT !.owner = TRUE]
  OBVIOUS
<1>2. y \in Tables /\ y.user = db.user /\ y.emp = db.emp
  BY <1>1 DEF AInv, Core, Tables
<1>3. Commit(y)
  BY <1>1 DEF RegisterOwner
<1> QED
  BY <1>2, <1>3, PeopleUntouched

LEMMA SaveEmployeeTypesKeeps ==
  ASSUME AInv, NEW b \in Branches, NEW kept \in SUBSET TypeCodes,
         NEW from \in TypeCodes \cup {None}, NEW to \in TypeCodes \cup {None},
         SaveEmployeeTypes(b, kept, from, to)
  PROVE  AInv'
<1>1. PICK d, codes : d = db /\ codes = (kept \cup {to}) \ {from, None}
  OBVIOUS
<1>2. PICK g : g = [e \in Rows |->
         IF from # None /\ d.emp[e] # None /\ d.emp[e].branch = b /\ d.emp[e].type = from
         THEN [d.emp[e] EXCEPT !.type = to] ELSE d.emp[e]]
  OBVIOUS
<1>3. PICK x : x = [d EXCEPT !.types[b] = codes, !.emp = g]
  OBVIOUS
<1>4. Core(d) /\ d \in Tables /\ relinked \subseteq ExistingRows(d)
  BY <1>1 DEF AInv, Core
<1>5. Commit(x)
  BY <1>1, <1>2, <1>3 DEF SaveEmployeeTypes
<1>6. codes \in SUBSET TypeCodes
  BY <1>1
<1>7. ASSUME NEW e \in ExistingRows(d)
      PROVE  /\ g[e] \in EmployeeRows
             /\ g[e].nik = d.emp[e].nik /\ g[e].branch = d.emp[e].branch
             /\ g[e].active = d.emp[e].active /\ g[e].code = d.emp[e].code
  <2>1. d.emp[e] \in EmployeeRows /\ e \in Rows
    BY <1>4, <1>7 DEF Tables, ExistingRows
  <2>2. g[e] = d.emp[e] \/ g[e] = [d.emp[e] EXCEPT !.type = to]
    BY <1>2, <2>1
  <2> QED
    BY <2>1, <2>2 DEF EmployeeRows
<1>8. \A e \in Rows : d.emp[e] = None => g[e] = None
  BY <1>2
<1>9. \A e \in Rows : g[e] # None <=> d.emp[e] # None
  BY <1>7, <1>8, NoneIsNoRow DEF ExistingRows
<1>10. g \in [Rows -> EmployeeRows \cup {None}]
  <2>1. \A e \in Rows : g[e] \in EmployeeRows \cup {None}
    BY <1>7, <1>8 DEF ExistingRows
  <2>2. g = [e \in Rows |-> g[e]]
    BY <1>2
  <2> QED
    BY <2>1, <2>2
<1>11. x \in Tables /\ x.user = d.user /\ x.emp = g
  BY <1>3, <1>4, <1>6, <1>10 DEF Tables
<1>12. Kept(d, x, relinked)
  BY <1>4, <1>7, <1>9, <1>11, RelabelledKept
<1> QED
  BY <1>1, <1>5, <1>12, KeptKeeps

\* Tables without accounts and rows.
LEMMA EmptyIsCore ==
  ASSUME NEW x \in Tables, \A u \in Users : x.user[u] = None, \A e \in Rows : x.emp[e] = None
  PROVE  Core(x) /\ Living(x) = {} /\ ExistingRows(x) = {} /\ \A l : Alone(x, l)
<1>1. Living(x) = {} /\ ExistingRows(x) = {}
  BY DEF Living, ExistingRows
<1> QED
  BY <1>1 DEF Core, RowsAreThere, OneEach, OnePlace, CodesLive, Alone

LEMMA FactoryResetKeeps ==
  ASSUME AInv, FactoryReset
  PROVE  AInv'
<1>1. PICK x : x = [user |-> [u \in Users |-> None], emp |-> [e \in Rows |-> None],
                    branch |-> [b \in Branches |-> None], types |-> [b \in Branches |-> {}],
                    owner |-> FALSE]
  OBVIOUS
<1>2. x \in Tables
  BY <1>1 DEF Tables
<1>3. (\A u \in Users : x.user[u] = None) /\ \A e \in Rows : x.emp[e] = None
  BY <1>1
<1>4. Kept(db, x, relinked)
  BY <1>2, <1>3, EmptyIsCore DEF Kept
<1> QED
  BY <1>1, <1>4, KeptKeeps DEF FactoryReset
------------------------------------------------------------------------------
(* Every state has the inductive invariant.                                 *)

LEMMA AccountsStarts ==
  ASSUME AccountsInit
  PROVE  AInv
<1>1. PICK h, l, s : h = halfway /\ l = relinked /\ s = stalled
  OBVIOUS
<1>2. db \in Tables
  BY DEF AccountsInit, Tables
<1>3. (\A u \in Users : db.user[u] = None) /\ \A e \in Rows : db.emp[e] = None
  BY DEF AccountsInit
<1>4. Core(db) /\ Living(db) = {} /\ Alone(db, l)
  BY <1>2, <1>3, EmptyIsCore
<1>5. h = {} /\ l = {} /\ s = FALSE
  BY <1>1 DEF AccountsInit
<1>6. calls \in 0 .. MaxCalls /\ faults \in 0 .. MaxFaults
  BY AccountsAssumption DEF AccountsInit
<1> QED
  BY <1>1, <1>4, <1>5, <1>6 DEF AInv

LEMMA UserHandlersKeep ==
  ASSUME AInv, NEW u \in Users, UserHandlers(u)
  PROVE  AInv'
<1>1. CASE \E b \in Branches, bs \in SUBSET Branches : UpdateUserBranches(u, bs, b)
  BY <1>1, UpdateUserBranchesKeeps
<1>2. CASE \E b \in Branches, bs \in SUBSET Branches : UpdateUserRole(u, b, bs)
  BY <1>2, UpdateUserRoleKeeps
<1>3. CASE \E type \in TypeCodes, b \in Branches : UpdateUserAccountRole(u, type, b)
  BY <1>3, UpdateUserAccountRoleKeeps
<1>4. CASE \E n \in Niks : ChangeNik(u, n)
  BY <1>4, ChangeNikKeeps
<1>5. CASE SetActive(u)
  BY <1>5, SetActiveKeeps
<1>6. CASE DeleteUserPermanently(u)
  BY <1>6, DeleteUserKeeps
<1>7. CASE LinkUserToEmployeeByNik(u)
  BY <1>7, LinkUserToEmployeeByNikKeeps
<1> QED
  BY <1>1, <1>2, <1>3, <1>4, <1>5, <1>6, <1>7 DEF UserHandlers

LEMMA BranchHandlersKeep ==
  ASSUME AInv, NEW b \in Branches, BranchHandlers(b)
  PROVE  AInv'
<1>1. CASE CreateBranch(b)
  BY <1>1, CreateBranchKeeps
<1>2. CASE UpdateBranch(b)
  BY <1>2, UpdateBranchKeeps
<1>3. CASE PurgeBranchEmployees(b)
  BY <1>3, PurgeKeeps
<1>4. CASE PermanentlyDeleteBranch(b)
  BY <1>4, DeleteBranchKeeps
<1>5. CASE \E kept \in SUBSET TypeCodes, from, to \in TypeCodes \cup {None} : SaveEmployeeTypes(b, kept, from, to)
  BY <1>5, SaveEmployeeTypesKeeps
<1> QED
  BY <1>1, <1>2, <1>3, <1>4, <1>5 DEF BranchHandlers

LEMMA ImportUsersFromExcelKeeps ==
  ASSUME AInv, NEW n \in Niks, NEW b \in Branches, NEW role, ImportUsersFromExcel(n, b, role)
  PROVE  AInv'
<1>1. CASE CreateBranchUser(n, b, None, None)
  BY <1>1, CreateBranchUserKeeps
<1>2. CASE CreateManager(n, b, {b})
  <2>1. {b} \in SUBSET Branches
    OBVIOUS
  <2> QED
    BY <1>2, <2>1, CreateManagerKeeps
<1> QED
  BY <1>1, <1>2 DEF ImportUsersFromExcel

LEMMA AccountsStep ==
  ASSUME AInv, [AccountsNext]_avars
  PROVE  AInv'
<1>1. CASE \E n \in Niks, b \in Branches, type \in TypeCodes \cup {None}, chosen \in Rows \cup {None} :
             CreateBranchUser(n, b, type, chosen)
  BY <1>1, CreateBranchUserKeeps
<1>2. CASE \E n \in Niks, b \in Branches, bs \in SUBSET Branches : CreateManager(n, b, bs)
  BY <1>2, CreateManagerKeeps
<1>3. CASE \E n \in Niks, b \in Branches, role \in {"employee", "manager"} : ImportUsersFromExcel(n, b, role)
  BY <1>3, ImportUsersFromExcelKeeps
<1>4. CASE \E n \in Niks, b \in Branches : FindOrCreateEmployee(n, b)
  BY <1>4, FindOrCreateEmployeeKeeps
<1>5. CASE \E u \in Users : UserHandlers(u)
  BY <1>5, UserHandlersKeep
<1>6. CASE \E e \in Rows : FindUserIdForEmployee(e)
  BY <1>6, FindUserIdForEmployeeKeeps
<1>7. CASE \E b \in Branches : BranchHandlers(b)
  BY <1>7, BranchHandlersKeep
<1>8. CASE FactoryReset
  BY <1>8, FactoryResetKeeps
<1>9. CASE RegisterOwner
  BY <1>9, RegisterOwnerKeeps
<1>10. CASE UNCHANGED avars
  BY <1>10 DEF avars, AInv, Core, Living, ExistingRows, RowsAreThere, OneEach, OnePlace, CodesLive,
               Placed, Recorded, Alone
<1> QED
  BY <1>1, <1>2, <1>3, <1>4, <1>5, <1>6, <1>7, <1>8, <1>9, <1>10 DEF AccountsNext

(* The inductive invariant, for any number of accounts, rows, branches and  *)
(* calls, of which any number stop half way: the tables fit together, and   *)
(* each account that no such call has touched is placed and recorded.       *)
THEOREM AccountsFitTogether == AccountsSpec => []AInv
BY AccountsStarts, AccountsStep, PTL DEF AccountsSpec

LEMMA AtMostOne ==
  ASSUME NEW S, \A x, y \in S : x = y
  PROVE  Cardinality(S) <= 1
<1>1. CASE S = {}
  BY <1>1, FS_EmptySet
<1>2. CASE S # {}
  <2>1. PICK x : x \in S
    BY <1>2
  <2>2. S = {x}
    BY <2>1
  <2>3. Cardinality({x}) = 1
    BY FS_Singleton
  <2> QED
    BY <2>2, <2>3
<1> QED
  BY <1>1, <1>2

(* However the handlers interleave with scans and logins, and wherever they *)
(* stop: no row has two accounts, no number two accounts, and no number two *)
(* rows at one branch; the lookups of the handlers are single-valued.       *)
THEOREM AccountsAreTyped == AccountsSpec => []AccountsTypeOK
<1>1. ASSUME AInv PROVE AccountsTypeOK
  <2>1. ASSUME NEW e \in Rows PROVE Cardinality(LinkedTo(db, e)) <= 1
    <3>1. \A u, v \in LinkedTo(db, e) : u = v
      BY <1>1, NoneIsNoRow DEF AInv, Core, OneEach, LinkedTo
    <3> QED
      BY <3>1, AtMostOne
  <2>2. ASSUME NEW n \in Niks PROVE Cardinality(WithNik(db, n)) <= 1
    <3>1. \A u, v \in WithNik(db, n) : u = v
      BY <1>1 DEF AInv, Core, OneEach, WithNik
    <3> QED
      BY <3>1, AtMostOne
  <2>3. ASSUME NEW n \in Niks, NEW b \in Branches PROVE Cardinality(RowsAt(db, n, b)) <= 1
    <3>1. \A e, f \in RowsAt(db, n, b) : e = f
      BY <1>1 DEF AInv, Core, OnePlace, RowsAt, ExistingRows
    <3> QED
      BY <3>1, AtMostOne
  <2> QED
    BY <1>1, <2>1, <2>2, <2>3 DEF AInv, Core, AccountsTypeOK
<1> QED
  BY <1>1, AccountsFitTogether, PTL

(* After any calls, an account that none has left half way is where its row *)
(* is: it sees, is listed at and is expected at one branch, or manages the  *)
(* branches it belongs to.                                                  *)
THEOREM AccountsStayPlaced == AccountsSpec => []AccountsArePlaced
<1>1. ASSUME AInv, NEW u \in Living(db) \ halfway, NEW a, a = db.user[u]
      PROVE  \/ /\ a.role = "employee" /\ a.row # None
                /\ db.emp[a.row].branch = a.branch /\ a.members \subseteq {a.branch}
                /\ GetBranchIdsForUser(db, u) = {a.branch}
                /\ \A b \in Branches :
                     /\ u \in ListBranchUsers(db, b) <=> b = a.branch
                     /\ a.row \in ActiveEmployees(db, b) => b = db.emp[a.row].branch
             \/ /\ a.role = "manager" /\ a.branch \in a.members
                /\ \/ GetBranchIdsForUser(db, u) = a.members
                   \/ a.row # None /\ IsHead(db, a.row)
  <2>1. Core(db) /\ Placed(db, u)
    BY <1>1 DEF AInv
  <2>2. CASE a.role = "manager" /\ a.branch \in a.members
    <3>1. BranchIdsForUser(db, u) = a.members
      BY <1>1, <2>2 DEF BranchIdsForUser
    <3> QED
      BY <1>1, <2>2, <3>1 DEF GetBranchIdsForUser
  <2>3. CASE /\ a.role = "employee" /\ a.row # None
             /\ db.emp[a.row].branch = a.branch /\ a.members \subseteq {a.branch}
    <3>1. a.row \in ExistingRows(db)
      BY <1>1, <2>1, <2>3 DEF Core, RowsAreThere
    <3>2. a.branch \in Branches
      BY <2>1, <2>3, <3>1 DEF Core, Tables, ExistingRows, EmployeeRows
    <3>3. BranchIdsForUser(db, u) = {a.branch}
      BY <1>1, <2>3, <3>2, NoneIsNoRow DEF BranchIdsForUser
    <3>4. GetBranchIdsForUser(db, u) = {a.branch}
      BY <1>1, <2>3 DEF GetBranchIdsForUser
    <3>5. \A b \in Branches : u \in ListBranchUsers(db, b) <=> b = a.branch
      BY <1>1, <2>3, <3>3 DEF ListBranchUsers
    <3>6. ASSUME NEW b \in Branches, a.row \in ActiveEmployees(db, b) PROVE b = a.branch
      <4>1. PICK v \in Living(db) : a.row = db.user[v].row /\ b \in BranchIdsForUser(db, v)
        BY <3>6 DEF ActiveEmployees
      <4>2. v = u
        BY <1>1, <2>1, <2>3, <4>1 DEF Core, OneEach
      <4> QED
        BY <3>3, <4>1, <4>2
    <3> QED
      BY <2>3, <3>4, <3>5, <3>6
  <2> QED
    BY <1>1, <2>1, <2>2, <2>3 DEF Placed
<1>2. AInv => AccountsArePlaced
  BY <1>1 DEF AccountsArePlaced
<1> QED
  BY <1>2, AccountsFitTogether, PTL

(* As long as no call has stopped half way, an account is alive on one row: *)
(* of the rows with its code only the one it is linked to is active.        *)
THEOREM OneRowAlive == AccountsSpec => []OneLiveRow
<1>1. AInv => OneLiveRow
  BY DEF AInv, Alone, OneLiveRow
<1> QED
  BY <1>1, AccountsFitTogether, PTL

(* After any calls, the row an account works with bears its code, whoever   *)
(* had the row before, unless a call has left the account half way or a     *)
(* lookup by number linked them.                                            *)
THEOREM HistoryReachesRow == AccountsSpec => []HistoryIsComplete
<1>1. AInv => HistoryIsComplete
  BY DEF AInv, Recorded, HistoryIsComplete
<1> QED
  BY <1>1, AccountsFitTogether, PTL
=============================================================================
