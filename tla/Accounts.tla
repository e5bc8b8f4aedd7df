------------------------------- MODULE Accounts -------------------------------
(***************************************************************************)
(* Login accounts, employee rows, branches and employee types, with every  *)
(* handler that creates, links, moves, promotes, renames or deletes them   *)
(* (branchUserService, branchMembershipService, employeeAccountService,    *)
(* accountIdentityService, branchAdminService, branchPurgeService,         *)
(* organizationConfigService, userImportService, factoryResetService).     *)
(*                                                                         *)
(* A person has one account (users) and a row per branch where he worked   *)
(* (employees); the account code written on the rows keeps them together.  *)
(* Handlers run one at a time, but few of them run in one transaction: a   *)
(* handler is the sequence of the databases it leaves behind at its        *)
(* awaits, and a fault stops it after any of them.  The caller is the      *)
(* owner, who may do all that managers may.  Names, passwords, e-mails and *)
(* shifts are left out.                                                    *)
(***************************************************************************)
EXTENDS Integers, FiniteSets, Sequences

CONSTANTS
  Users,       \* ids of accounts, numbers
  Rows,        \* ids of employee rows, numbers
  Branches,
  Niks,        \* employee numbers, also the login names
  TypeCodes,   \* codes of employee types
  HeadTypes,   \* those with manager_features_enabled: heads of a branch
  None,
  Gone,        \* the code of an account that was deleted
  MaxCalls,    \* bound: calls of handlers
  MaxFaults    \* bound: calls that stop half way

ASSUME AccountsAssumption ==
  /\ Users \subseteq Nat /\ Rows \subseteq Nat
  /\ HeadTypes \subseteq TypeCodes
  /\ None \notin Users \cup Rows \cup Branches \cup TypeCodes
  /\ Gone \notin Users \cup {None}
  /\ MaxCalls \in Nat /\ MaxFaults \in Nat

VARIABLES
  db,          \* the tables
  halfway,     \* history: accounts with a call that stopped between two writes
  stalled,     \* history: has there been such a call, of any account?
  relinked,    \* history: rows linked to an account by a lookup by number
  calls, faults

avars == <<db, halfway, stalled, relinked, calls, faults>>

Accounts == [nik : Niks, active : BOOLEAN, role : {"employee", "manager", "none"},
             branch : Branches \cup {None}, members : SUBSET Branches,
             row : Rows \cup {None}, code : BOOLEAN]

EmployeeRows == [nik : Niks, branch : Branches, active : BOOLEAN,
                 type : TypeCodes \cup {None}, code : Users \cup {None, Gone}]

Tables == [user : [Users -> Accounts \cup {None}], emp : [Rows -> EmployeeRows \cup {None}],
           branch : [Branches -> {"active", "off", None}],
           types : [Branches -> SUBSET TypeCodes], owner : BOOLEAN]

ASSUME RecordsAssumption == None \notin Accounts \cup EmployeeRows

AccountsInit ==
  /\ db = [user |-> [u \in Users |-> None], emp |-> [e \in Rows |-> None],
           branch |-> [b \in Branches |-> "active"],
           types |-> [b \in Branches |-> TypeCodes], owner |-> TRUE]
  /\ halfway = {} /\ stalled = FALSE /\ relinked = {}
  /\ calls = 0 /\ faults = 0

-----------------------------------------------------------------------------
\* Queries on a database d.

Living(d) == {u \in Users : d.user[u] # None}
ExistingRows(d) == {e \in Rows : d.emp[e] # None}
LinkedTo(d, e) == {u \in Living(d) : d.user[u].row = e}
WithNik(d, n) == {u \in Living(d) : d.user[u].nik = n}
RowsAt(d, n, b) == {e \in Rows : d.emp[e] # None /\ d.emp[e].nik = n /\ d.emp[e].branch = b}
ActiveRowsAt(d, n, b) == {e \in RowsAt(d, n, b) : d.emp[e].active}
Vacant(d, n, b) == RowsAt(d, n, b) = {}
AllActive(d, bs) == \A b \in bs : d.branch[b] = "active"
Fresh(ids) == {i \in ids : \A j \in ids : i <= j}

\* The branches of an account as the user handlers see them.
BranchIdsForUser(d, u) ==
  IF d.user[u].members # {} THEN d.user[u].members ELSE {d.user[u].branch} \ {None}

IsHead(d, e) ==
  /\ d.emp[e].type \in HeadTypes
  /\ d.emp[e].type \in d.types[d.emp[e].branch]

\* The branches an account may look at.
GetBranchIdsForUser(d, u) ==
  LET e == d.user[u].row
  IN  IF e # None /\ (IsHead(d, e) \/ d.user[u].role # "manager")
      THEN {d.emp[e].branch} ELSE BranchIdsForUser(d, u)

\* The employees whose attendance is expected at a branch.
ActiveEmployees(d, b) ==
  {d.user[u].row : u \in {v \in Living(d) :
     /\ d.user[v].active /\ d.user[v].role = "employee" /\ d.user[v].row # None
     /\ d.emp[d.user[v].row].active
     /\ b \in BranchIdsForUser(d, v)}}

\* The employees that the user page of a branch lists.
ListBranchUsers(d, b) ==
  {u \in Living(d) : d.user[u].role = "employee" /\ b \in BranchIdsForUser(d, u)}

-----------------------------------------------------------------------------
\* Writes: what a handler's awaits do to a database d.

EnsureUserAccountCode(d, u) == [d EXCEPT !.user[u].code = TRUE]

AttachUnclaimed(d, u, e) ==  \* a mutant: without overwrite
  [d EXCEPT !.emp[e].code = IF @ = None THEN u ELSE @]
AttachEmployeeToAccount(d, u, e) == [d EXCEPT !.emp[e].code = u]

AttachEmployeeToUserAccount(d, u, e) ==
  LET coded == EnsureUserAccountCode(d, u)
  IN  <<coded, AttachEmployeeToAccount(coded, u, e)>>

AddUserBranches(d, u, bs, primary) ==  \* a mutant: the old memberships stay
  [d EXCEPT !.user[u].members = @ \cup bs, !.user[u].branch = primary]
SetUserBranches(d, u, bs, primary) ==
  [d EXCEPT !.user[u].members = bs, !.user[u].branch = primary]

NewAccount(n, role, b, e) ==
  [nik |-> n, active |-> TRUE, role |-> role, branch |-> b, members |-> {}, row |-> e, code |-> FALSE]

NewRow(n, b, type) == [nik |-> n, branch |-> b, active |-> TRUE, type |-> type, code |-> None]

\* Removes accounts and rows; the codes of the accounts stay on other rows.
Remove(d, us, es) ==
  [d EXCEPT
     !.user = [u \in Users |-> IF u \in us THEN None ELSE d.user[u]],
     !.emp = [e \in Rows |->
       IF e \in es \/ d.emp[e] = None THEN None
       ELSE [d.emp[e] EXCEPT !.code = IF @ \in us THEN Gone ELSE @]]]

\* The row of a new employee: <<database, row>>, or nothing when refused.  An
\* inactive row of the same number and branch violates a unique index.
EnsureEmployeeRecord(d, n, b, type, chosen) ==
  LET known == IF type \in d.types[b] THEN type ELSE None
  IN  IF chosen # None
      THEN {<<d, e>> : e \in {x \in Rows : x = chosen /\ d.emp[x] # None /\ d.emp[x].branch = b
                                /\ d.emp[x].active /\ LinkedTo(d, x) = {}}}
      ELSE {<<IF known = None THEN d ELSE [d EXCEPT !.emp[e].type = known], e>> :
              e \in {x \in ActiveRowsAt(d, n, b) : LinkedTo(d, x) = {}}}
           \cup {<<[d EXCEPT !.emp[e] = NewRow(n, b, known)], e>> :
                   e \in {x \in Fresh({y \in Rows : d.emp[y] = None}) : Vacant(d, n, b)}}

LeftActive(d, e) == d  \* a mutant of Left
Left(d, e) == [d EXCEPT !.emp[e].active = FALSE]

\* The writes that move row e of account u to branch b; none when refused.
MoveEmployeeBranch(d, e, u, b) ==
  LET row == d.emp[e]
      home(t) == [SetUserBranches(d, u, {b}, b) EXCEPT !.user[u].row = t]
      then(x, t) == <<x>> \o AttachEmployeeToUserAccount(x, u, t)
  IN  CASE d.branch[b] # "active" -> <<>>
        [] d.branch[b] = "active" /\ row.branch = b -> then(home(e), e)
        [] d.branch[b] = "active" /\ row.branch # b /\ RowsAt(d, row.nik, b) # {} ->
             LET t == CHOOSE x \in RowsAt(d, row.nik, b) : TRUE
             IN  IF LinkedTo(d, t) \subseteq {u}
                 THEN then(Left(home(t), e), t) ELSE <<>>
        [] OTHER ->  \* the type of the row has to exist at the new branch
             IF row.type \in d.types[b] \cup {None}
             THEN then([home(e) EXCEPT !.emp[e].branch = b], e) ELSE <<>>

\* A handler's writes, and whether it is refused after them.
Outcome(steps, late) == [steps |-> steps, late |-> late]

\* The role rows are deleted and created by two statements.
ChangeRole(d, u, role) ==
  <<[d EXCEPT !.user[u].role = "none"], [d EXCEPT !.user[u].role = role]>>

\* A manager who becomes an employee of branch b.
BecomeEmployee(d, u, b) ==
  LET roles == ChangeRole(d, u, "employee")
      d2 == roles[2]
      settle(x, e) ==  \* link, place and attach
        LET linked == [x EXCEPT !.user[u].row = e, !.user[u].branch = b]
            placed == SetUserBranches(linked, u, {b}, b)
        IN  IF d.branch[b] = "active"
            THEN Outcome(roles \o <<x, linked, placed>> \o AttachEmployeeToUserAccount(placed, u, e), FALSE)
            ELSE Outcome(roles \o <<x, linked>>, TRUE)
      old == d.user[u].row
      again(e) == [d2 EXCEPT !.emp[e].active = TRUE]
  IN  IF old # None
      THEN IF d.emp[old].branch = b THEN {settle(again(old), old)}
           ELSE LET move == MoveEmployeeBranch(again(old), old, u, b)
                IN  {Outcome(roles \o <<again(old)>> \o move, move = <<>>)}
      ELSE {IF LinkedTo(d, e) \subseteq {u} THEN settle(again(e), e) ELSE Outcome(roles, TRUE) :
              e \in RowsAt(d, d.user[u].nik, b)}
           \cup {settle(r[1], r[2]) : r \in {x \in EnsureEmployeeRecord(d2, d.user[u].nik, b, None, None) :
                                               Vacant(d, d.user[u].nik, b)}}

\* An employee who becomes a manager of branches bs.
BecomeManager(d, u, bs, primary) ==
  LET roles == ChangeRole(d, u, "manager")
      old == d.user[u].row
      rested == IF old = None THEN roles[2] ELSE [roles[2] EXCEPT !.emp[old].active = FALSE]
      unlinked == [rested EXCEPT !.user[u].row = None]
      placed == SetUserBranches(unlinked, u, bs, primary)
  IN  Outcome(roles \o <<rested, unlinked, placed, EnsureUserAccountCode(placed, u)>>, FALSE)

\* The account of the person behind a row, when he scans: linked or created.
EnsureUserAccountForEmployee(d, e) ==
  LET row == d.emp[e]
      named == WithNik(d, row.nik)
      then(x, u) == <<x>> \o AttachEmployeeToUserAccount(x, u, e)
  IN  IF LinkedTo(d, e) # {} THEN {}
      ELSE {[user |-> u, steps |-> then([d EXCEPT !.user[u].row = e,
                !.user[u].branch = IF @ = None THEN row.branch ELSE @], u)] :
              u \in {v \in named : d.user[v].row = None}}
           \cup {[user |-> u, steps |-> then([d EXCEPT
                !.user[u] = NewAccount(row.nik, "employee", row.branch, e)], u)] :
              u \in {v \in Fresh(Users \ Living(d)) : named = {}}}

-----------------------------------------------------------------------------
\* A call runs through its writes, or stops after one of them.
Run(u, outcome) ==
  LET steps == outcome.steps
  IN  /\ calls < MaxCalls /\ calls' = calls + 1
      /\ \E k \in 1 .. Len(steps) :
           /\ k < Len(steps) => faults < MaxFaults
           /\ faults' = IF k < Len(steps) THEN faults + 1 ELSE faults
           /\ db' = steps[k]
           /\ LET broken == k < Len(steps) \/ outcome.late
              IN  /\ stalled' = (stalled \/ broken)
                  /\ halfway' = (halfway \cup IF broken THEN {u} ELSE {}) \cap Living(steps[k])
      /\ relinked' = relinked \cap ExistingRows(db')

\* A call that is one transaction.
Commit(d) ==
  /\ calls < MaxCalls /\ calls' = calls + 1
  /\ d # db /\ db' = d
  /\ halfway' = halfway \cap Living(d)
  /\ relinked' = relinked \cap ExistingRows(d)
  /\ UNCHANGED <<stalled, faults>>

CreateBranchUser(n, b, type, chosen) ==
  /\ db.owner /\ db.branch[b] = "active" /\ WithNik(db, n) = {}
  /\ \E u \in Fresh(Users \ Living(db)), r \in EnsureEmployeeRecord(db, n, b, type, chosen) :
       LET e == r[2]
           d2 == [r[1] EXCEPT !.user[u] = NewAccount(n, "employee", b, e)]
           d3 == SetUserBranches(d2, u, {b}, b)
           d4 == [d3 EXCEPT !.emp[e].code = None]  \* with the data of an earlier owner of the row
       IN  Run(u, Outcome(<<r[1], d2, d3, d4>> \o AttachEmployeeToUserAccount(d4, u, e), FALSE))

CreateManager(n, b, bs) ==
  /\ db.owner /\ b \in bs /\ AllActive(db, bs) /\ WithNik(db, n) = {}
  /\ \E u \in Fresh(Users \ Living(db)) :
       LET d1 == [db EXCEPT !.user[u] = NewAccount(n, "manager", b, None)]
           d2 == SetUserBranches(d1, u, bs, b)
       IN  Run(u, Outcome(<<d1, d2, EnsureUserAccountCode(d2, u)>>, FALSE))

\* One row of an uploaded file; the next rows are further calls.
ImportUsersFromExcel(n, b, role) ==
  \/ role = "employee" /\ CreateBranchUser(n, b, None, None)
  \/ role = "manager" /\ CreateManager(n, b, {b})

UpdateUserBranches(u, bs, primary) ==
  /\ db.owner /\ u \in Living(db) /\ primary \in bs /\ AllActive(db, bs)
  /\ \/ /\ db.user[u].role = "employee" /\ bs = {primary} /\ db.user[u].row # None
        /\ Run(u, Outcome(MoveEmployeeBranch(db, db.user[u].row, u, primary), FALSE))
     \/ /\ db.user[u].role = "manager"
        /\ Commit(SetUserBranches(db, u, bs, primary))

UpdateUserRole(u, b, bs) ==
  /\ db.owner /\ u \in Living(db)
  /\ \/ /\ db.user[u].role = "manager" /\ db.branch[b] # None
        /\ \E outcome \in BecomeEmployee(db, u, b) : Run(u, outcome)
     \/ /\ db.user[u].role = "employee" /\ b \in bs /\ AllActive(db, bs)
        /\ Run(u, BecomeManager(db, u, bs, b))

\* The type of an employee; a manager becomes an employee of that type.
UpdateUserAccountRole(u, type, b) ==
  /\ db.owner /\ u \in Living(db) /\ type \in db.types[b] /\ db.branch[b] # None
  /\ \/ /\ db.user[u].role = "manager"
        /\ \E outcome \in BecomeEmployee(db, u, b) :
             LET last == outcome.steps[Len(outcome.steps)]
             IN  Run(u, IF outcome.late \/ ~last.emp[last.user[u].row].active THEN outcome
                        ELSE Outcome(Append(outcome.steps,
                               [last EXCEPT !.emp[last.user[u].row].type = type]), FALSE))
     \/ /\ db.user[u].role = "employee" /\ db.user[u].row # None
        /\ LET e == db.user[u].row
           IN  /\ db.emp[e].branch = b /\ db.emp[e].active
               /\ Commit([db EXCEPT !.emp[e].type = type])
     \/ /\ db.user[u].role = "employee" /\ db.user[u].row = None
        /\ \E r \in EnsureEmployeeRecord(db, db.user[u].nik, b, type, None) :
             LET linked == [r[1] EXCEPT !.user[u].row = r[2], !.user[u].branch = b]
             IN  Run(u, Outcome(<<r[1], linked>> \o AttachEmployeeToUserAccount(linked, u, r[2]), FALSE))

\* A new number, on the account and on its row.
ChangeNik(u, n) ==
  /\ db.owner /\ u \in Living(db) /\ WithNik(db, n) = {}
  /\ LET e == db.user[u].row
         renamed == [db EXCEPT !.user[u].nik = n]
     IN  IF e = None THEN Commit(renamed)
         ELSE Vacant(db, n, db.emp[e].branch) /\ Commit([renamed EXCEPT !.emp[e].nik = n])

\* Deactivates or reactivates an account together with its row.
SetActive(u) ==
  /\ db.owner /\ u \in Living(db)
  /\ LET e == db.user[u].row
         flag == ~db.user[u].active
         done == [db EXCEPT !.user[u].active = flag]
     IN  Commit(IF e = None THEN done ELSE [done EXCEPT !.emp[e].active = flag])

DeleteUserPermanently(u) ==
  /\ db.owner /\ u \in Living(db)
  /\ Commit(Remove(db, {u}, {db.user[u].row} \cap Rows))

-----------------------------------------------------------------------------
\* A login, or a request with a token, links an account without a row; a token's
\* account is looked at only after it (authService.ts:482, 488).
LinkUserToEmployeeByNik(u) ==
  /\ u \in Living(db)
  /\ db.user[u].row = None /\ db.user[u].branch # None
  /\ \E e \in ActiveRowsAt(db, db.user[u].nik, db.user[u].branch) :
       LET linked == [db EXCEPT !.user[u].row = e]
       IN  /\ LinkedTo(db, e) = {}
           /\ Run(u, Outcome(<<linked>> \o AttachEmployeeToUserAccount(linked, u, e), FALSE))

\* Looking for the account to notify links it to the row, whatever its branch.
FindUserIdForEmployee(e) ==
  /\ calls < MaxCalls /\ db.emp[e] # None /\ LinkedTo(db, e) = {}
  /\ \E u \in WithNik(db, db.emp[e].nik) :
       /\ db.user[u].active /\ db.user[u].row = None
       /\ db' = [db EXCEPT !.user[u].row = e]
  /\ relinked' = relinked \cup {e}
  /\ calls' = calls + 1
  /\ UNCHANGED <<halfway, stalled, faults>>

\* A scan finds the row of its number, or creates row and account.
FindOrCreateEmployee(n, b) ==
  /\ db.branch[b] = "active"
  /\ \/ \E e \in ActiveRowsAt(db, n, b) : \E s \in EnsureUserAccountForEmployee(db, e) :
          Run(s.user, Outcome(s.steps, FALSE))
     \/ /\ Vacant(db, n, b)
        /\ \E e \in Fresh({y \in Rows : db.emp[y] = None}) :
             LET d1 == [db EXCEPT !.emp[e] = NewRow(n, b, None)]
                 accounts == EnsureUserAccountForEmployee(d1, e)
             IN  \/ accounts = {} /\ Commit(d1)
                 \/ \E s \in accounts : Run(s.user, Outcome(<<d1>> \o s.steps, FALSE))

-----------------------------------------------------------------------------
CreateBranch(b) ==
  /\ db.owner /\ db.branch[b] = None
  /\ Commit([db EXCEPT !.branch[b] = "active", !.types[b] = TypeCodes])

UpdateBranch(b) ==
  /\ db.owner /\ db.branch[b] # None
  /\ Commit([db EXCEPT !.branch[b] = IF @ = "active" THEN "off" ELSE "active"])

\* Saves the types of a branch: kept codes, and one renamed code if any.
SaveEmployeeTypes(b, kept, from, to) ==
  /\ db.owner /\ db.branch[b] # None
  /\ from \in db.types[b] \cup {None} /\ (from = None) = (to = None)
  /\ to \notin db.types[b]
  /\ LET codes == (kept \cup {to}) \ {from, None}
         renamed == [e \in Rows |->
           IF from # None /\ db.emp[e] # None /\ db.emp[e].branch = b /\ db.emp[e].type = from
           THEN [db.emp[e] EXCEPT !.type = to] ELSE db.emp[e]]
     IN  /\ codes # {}
         /\ \A e \in Rows : renamed[e] # None /\ renamed[e].branch = b =>
              renamed[e].type \in codes \cup {None}
         /\ Commit([db EXCEPT !.types[b] = codes, !.emp = renamed])

EmployeeIdsInBranch(d, b) == {e \in Rows : d.emp[e] # None /\ d.emp[e].branch = b}

\* Accounts that go with the employees of a branch, if it has any.
EmployeeUserIdsInBranch(d, b) ==
  {u \in Living(d) : /\ EmployeeIdsInBranch(d, b) # {}
                     /\ \/ d.user[u].row \in EmployeeIdsInBranch(d, b)
                        \/ b \in d.user[u].members /\ d.user[u].role = "employee"}

AllNonOwnerUserIdsForBranch(d, b) ==
  {u \in Living(d) : \/ d.user[u].branch = b \/ b \in d.user[u].members
                     \/ d.user[u].row \in EmployeeIdsInBranch(d, b)}

PurgeBranchEmployees(b) ==
  /\ db.owner /\ db.branch[b] # None
  /\ Commit(Remove(db, EmployeeUserIdsInBranch(db, b), EmployeeIdsInBranch(db, b)))

PermanentlyDeleteBranch(b) ==
  /\ db.owner /\ db.branch[b] # None
  /\ LET d == Remove(db, AllNonOwnerUserIdsForBranch(db, b), EmployeeIdsInBranch(db, b))
     IN  Commit([d EXCEPT !.branch[b] = None, !.types[b] = {}])

\* The reset of a developer empties every table but the roles.
FactoryReset ==
  Commit([user |-> [u \in Users |-> None], emp |-> [e \in Rows |-> None],
          branch |-> [b \in Branches |-> None], types |-> [b \in Branches |-> {}], owner |-> FALSE])

RegisterOwner == ~db.owner /\ Commit([db EXCEPT !.owner = TRUE])

-----------------------------------------------------------------------------
UserHandlers(u) ==
  \/ \E b \in Branches, bs \in SUBSET Branches : UpdateUserBranches(u, bs, b)
  \/ \E b \in Branches, bs \in SUBSET Branches : UpdateUserRole(u, b, bs)
  \/ \E type \in TypeCodes, b \in Branches : UpdateUserAccountRole(u, type, b)
  \/ \E n \in Niks : ChangeNik(u, n)
  \/ SetActive(u)
  \/ DeleteUserPermanently(u)
  \/ LinkUserToEmployeeByNik(u)

BranchHandlers(b) ==
  \/ CreateBranch(b) \/ UpdateBranch(b)
  \/ PurgeBranchEmployees(b) \/ PermanentlyDeleteBranch(b)
  \/ \E kept \in SUBSET TypeCodes, from, to \in TypeCodes \cup {None} : SaveEmployeeTypes(b, kept, from, to)

AccountsNext ==
  \/ \E n \in Niks, b \in Branches, type \in TypeCodes \cup {None}, chosen \in Rows \cup {None} :
       CreateBranchUser(n, b, type, chosen)
  \/ \E n \in Niks, b \in Branches, bs \in SUBSET Branches : CreateManager(n, b, bs)
  \/ \E n \in Niks, b \in Branches, role \in {"employee", "manager"} : ImportUsersFromExcel(n, b, role)
  \/ \E n \in Niks, b \in Branches : FindOrCreateEmployee(n, b)
  \/ \E u \in Users : UserHandlers(u)
  \/ \E e \in Rows : FindUserIdForEmployee(e)
  \/ \E b \in Branches : BranchHandlers(b)
  \/ FactoryReset \/ RegisterOwner

AccountsSpec == AccountsInit /\ [][AccountsNext]_avars

-----------------------------------------------------------------------------
\* The tables keep their types and the unique indexes of the schema hold.
AccountsTypeOK ==
  /\ db \in Tables /\ halfway \subseteq Living(db) /\ relinked \subseteq ExistingRows(db)
  /\ calls \in 0 .. MaxCalls /\ faults \in 0 .. MaxFaults
  /\ \A e \in Rows : Cardinality(LinkedTo(db, e)) <= 1
  /\ \A n \in Niks : Cardinality(WithNik(db, n)) <= 1
  /\ \A n \in Niks, b \in Branches : Cardinality(RowsAt(db, n, b)) <= 1

\* Whatever calls an account went through, unless one stopped half way: an
\* employee has a row at the branch he belongs to, sees, is listed and is
\* expected at that branch only,
\* a manager belongs to his primary branch, and his branches are what he sees
\* unless he has the row of a branch head (branchMembershipService.ts:47).
AccountsArePlaced ==
  \A u \in Living(db) \ halfway :
    LET a == db.user[u]
    IN  \/ /\ a.role = "employee" /\ a.row # None
           /\ db.emp[a.row].branch = a.branch /\ a.members \subseteq {a.branch}
           /\ GetBranchIdsForUser(db, u) = {a.branch}
           /\ \A b \in Branches :
                /\ u \in ListBranchUsers(db, b) <=> b = a.branch
                /\ a.row \in ActiveEmployees(db, b) => b = db.emp[a.row].branch
        \/ /\ a.role = "manager" /\ a.branch \in a.members
           /\ \/ GetBranchIdsForUser(db, u) = a.members
              \/ a.row # None /\ IsHead(db, a.row)

\* An account checks in on one row: of the rows that bear its code, none is
\* active but the one it is linked to (accountIdentityService.ts:103 looks for
\* attendance of the account on the other rows).  A call that stops half way
\* may wake a row that another account left, and so may the reactivation of an
\* account that a lookup by number has linked to such a row.
OneLiveRow ==
  ~stalled => \A u \in Living(db) : \A e \in ExistingRows(db) \ relinked :
    db.emp[e].code = u /\ db.emp[e].active => e = db.user[u].row

\* The history of an account reaches the row it works with: that row bears its
\* code, whoever had the row before (accountIdentityService.ts:71).
HistoryIsComplete ==
  \A u \in Living(db) \ halfway :
    LET e == db.user[u].row
    IN  e \notin relinked \cup {None} => db.user[u].code /\ db.emp[e].code = u

\* "Hapus semua karyawan + akun login karyawan di cabang" (branchPurgeService.ts:174):
\* purging the employees of a branch takes the accounts of employees only.
PurgeTakesEmployees ==
  \A b \in Branches : \A u \in EmployeeUserIdsInBranch(db, b) \ halfway :
    db.user[u].role = "employee"
=============================================================================
