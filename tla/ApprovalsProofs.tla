----------------------------- MODULE ApprovalsProofs -----------------------------
(***************************************************************************)
(* Proofs about Approvals.  However calls overlap and die: no swap is      *)
(* written to the grid before the colleague has accepted it (IInv), and    *)
(* every pending request is in the inbox of somebody who can act on it     *)
(* (OInv).  When calls do not overlap: what was decided is not decided     *)
(* again (DInv), an employee has one active request a day (UInv) and only  *)
(* what he is offered (FInv), and, if no call dies, the swaps in the grid  *)
(* are approved (MInv) and the days follow the grid (GInv).                *)
(***************************************************************************)
EXTENDS Approvals, TLAPS

Tasks == [who : Employees \cup {None}, shift : Cells]

Args == [id : Ids \cup {None}, ask : Requests \cup {None}, yes : BOOLEAN, todo : Seq(Tasks)]

\* The requests that the colleague has accepted, as they stand.
AcceptedIsConsented ==
  \A i \in Ids : request[i] # None /\ request[i].peer = "accepted" => i \in consented

\* A request that a call is about to create is not accepted.
AskIsOpen(c) ==
  at[c] \in {"ensure", "conflict", "shifts", "create", "excuse"} =>
    arg[c].ask # None /\ arg[c].ask.peer # "accepted"

\* A call that answers, decides or swaps has read a request that exists.
IdIsMade(c) ==
  \/ at[c] \in {"respond", "review", "swap", "mark", "confirm"}
  \/ at[c] = "sync" /\ arg[c].yes
  => arg[c].id \in Made

\* A call that is about to swap has read that the colleague accepted.
SwapIsConsented(c) == at[c] = "swap" => arg[c].id \in consented

\* A call that brings days into line has one to do.
HasTask(c) == at[c] \in {"sync", "confirm"} => arg[c].todo # <<>>

CallInv(c) == AskIsOpen(c) /\ IdIsMade(c) /\ SwapIsConsented(c) /\ HasTask(c)

Labels == {"idle", "ensure", "conflict", "shifts", "create", "excuse", "respond", "review",
           "effect", "swap", "sync", "mark", "confirm"}

Shapes ==
  /\ request \in [Ids -> Requests \cup {None}]
  /\ arg \in [Calls -> Args]
  /\ at \in [Calls -> Labels]
  /\ grid \in [Employees -> Cells]

IInv == Shapes /\ AcceptedIsConsented /\ (\A c \in Calls : CallInv(c)) /\ ConsentBeforeSwap

USE ApprovalsAssumption, RequestsAssumption

\* Writing the status of a request leaves the colleague's answer alone.
LEMMA StatusOnly ==
  ASSUME NEW r \in Requests, NEW s \in {"pending", "approved", "rejected"}
  PROVE  [r EXCEPT !.status = s] \in Requests /\ [r EXCEPT !.status = s].peer = r.peer
BY DEF Requests

\* A call starts with empty hands, a request or the id of one.
LEMMA NoArgShape == NoArg \in Args /\ NoArg.todo = <<>>
BY DEF NoArg, Args

\* A step of one call that leaves the requests and the answers alone is safe
\* when what the call holds after it is.
LEMMA CallKeeps ==
  ASSUME IInv, NEW c \in Calls,
         at' = [at EXCEPT ![c] = at'[c]], arg' = [arg EXCEPT ![c] = arg'[c]],
         at'[c] \in Labels, arg'[c] \in Args, CallInv(c)',
         request' = request, consented' = consented,
         swapped' = swapped \/ swapped' \subseteq consented, grid' \in [Employees -> Cells]
  PROVE  IInv'
<1>1. Shapes' BY DEF IInv, Shapes
<1>2. AcceptedIsConsented' /\ ConsentBeforeSwap' BY DEF IInv, AcceptedIsConsented, ConsentBeforeSwap
<1>3. ASSUME NEW d \in Calls PROVE CallInv(d)'
  <2>1. CASE d # c
    BY <2>1 DEF IInv, Shapes, CallInv, AskIsOpen, IdIsMade, SwapIsConsented, HasTask, Made
  <2> QED BY <2>1
<1> QED BY <1>1, <1>2, <1>3 DEF IInv

\* A step that writes one request keeps what the other calls hold, when it
\* leaves the colleague's answer alone or records it.
LEMMA WriteKeeps ==
  ASSUME IInv, NEW c \in Calls, NEW i \in Ids, NEW r \in Requests,
         request' = [request EXCEPT ![i] = r], r.peer = "accepted" => i \in consented',
         consented \subseteq consented', swapped' = swapped, grid' = grid,
         at' = [at EXCEPT ![c] = at'[c]], arg' = [arg EXCEPT ![c] = arg'[c]],
         at'[c] \in Labels, arg'[c] \in Args, CallInv(c)'
  PROVE  IInv'
<1>1. request' \in [Ids -> Requests \cup {None}] /\ request'[i] = r
      /\ (\A j \in Ids \ {i} : request'[j] = request[j])
  BY DEF IInv, Shapes
<1>2. Made' = Made \cup {i} BY <1>1 DEF Made
<1>3. Shapes' BY <1>1 DEF IInv, Shapes
<1>4. AcceptedIsConsented' BY <1>1 DEF IInv, AcceptedIsConsented
<1>5. ConsentBeforeSwap' BY DEF IInv, ConsentBeforeSwap
<1>6. ASSUME NEW d \in Calls PROVE CallInv(d)'
  <2>1. CASE d = c BY <2>1
  <2>2. CASE d # c
    <3>1. at'[d] = at[d] /\ arg'[d] = arg[d] /\ CallInv(d) BY <2>2 DEF IInv, Shapes
    <3> QED BY <1>2, <3>1 DEF CallInv, AskIsOpen, IdIsMade, SwapIsConsented, HasTask
  <2> QED BY <2>1, <2>2
<1> QED BY <1>3, <1>4, <1>5, <1>6 DEF IInv

\* A call that starts with a new request in its hands is safe.
LEMMA AskKeeps ==
  ASSUME IInv, NEW c \in Calls, NEW e \in Employees, NEW type \in Types,
         NEW other \in Employees \cup {None}, NEW next \in {"ensure", "excuse"},
         Start(c, next, [NoArg EXCEPT !.ask = Asked(e, type, other)]),
         UNCHANGED <<grid, row, request, consented, swapped>>
  PROVE  IInv'
<1> DEFINE ask == Asked(e, type, other)
           args == [NoArg EXCEPT !.ask = ask]
<1>1. ask \in Requests /\ ask.peer # "accepted" BY DEF Asked, Requests, Cells
<1>2. args \in Args /\ args.ask = ask BY <1>1, NoArgShape DEF Args
<1>3. at' = [at EXCEPT ![c] = next] /\ arg' = [arg EXCEPT ![c] = args] BY DEF Start
<1> HIDE DEF ask, args
<1>4. at'[c] = next /\ arg'[c] = args BY <1>3 DEF IInv, Shapes
<1>5. CallInv(c)' BY <1>1, <1>2, <1>4 DEF CallInv, AskIsOpen, IdIsMade, SwapIsConsented, HasTask
<1>6. at' = [at EXCEPT ![c] = at'[c]] /\ arg' = [arg EXCEPT ![c] = arg'[c]] BY <1>3, <1>4
<1>7. at'[c] \in Labels /\ arg'[c] \in Args /\ grid' \in [Employees -> Cells]
  BY <1>2, <1>4 DEF IInv, Shapes, Labels
<1> QED BY <1>5, <1>6, <1>7, CallKeeps

LEMMA SubmitKeeps ==
  ASSUME IInv, NEW c \in Calls, NEW e \in Employees, NEW type \in Types \ {"late_excuse"},
         NEW other \in Employees \cup {None}, Submit(c, e, type, other)
  PROVE  IInv'
BY AskKeeps DEF Submit

LEMMA SubmitExcuseKeeps ==
  ASSUME IInv, NEW c \in Calls, NEW e \in Employees, SubmitExcuse(c, e)
  PROVE  IInv'
BY AskKeeps DEF SubmitExcuse, Types

LEMMA RespondReadKeeps ==
  ASSUME IInv, NEW c \in Calls, NEW i \in Ids, NEW yes \in BOOLEAN,
         RespondRead(c, i, yes)
  PROVE  IInv'
<1> DEFINE args == [NoArg EXCEPT !.id = i, !.yes = yes]
<1>1. args \in Args /\ args.id = i /\ i \in Made BY NoArgShape DEF Args, RespondRead, Pending, Made
<1>2. at' = [at EXCEPT ![c] = "respond"] /\ arg' = [arg EXCEPT ![c] = args]
  BY DEF RespondRead, Start
<1>3. request' = request /\ consented' = consented /\ swapped' = swapped /\ grid' = grid
  BY DEF RespondRead
<1> HIDE DEF args
<1>4. at'[c] = "respond" /\ arg'[c] = args BY <1>2 DEF IInv, Shapes
<1>5. CallInv(c)' BY <1>1, <1>3, <1>4 DEF CallInv, AskIsOpen, IdIsMade, SwapIsConsented, HasTask, Made
<1>6. at' = [at EXCEPT ![c] = at'[c]] /\ arg' = [arg EXCEPT ![c] = arg'[c]] BY <1>2, <1>4
<1>7. at'[c] \in Labels /\ arg'[c] \in Args /\ grid' \in [Employees -> Cells]
  BY <1>1, <1>3, <1>4 DEF IInv, Shapes, Labels
<1> QED BY <1>3, <1>5, <1>6, <1>7, CallKeeps
\* A call that starts with a decision on a request that exists is safe.
LEMMA DecideKeeps ==
  ASSUME IInv, NEW c \in Calls, NEW i \in Made, NEW yes \in BOOLEAN,
         Start(c, "review", [NoArg EXCEPT !.id = i, !.yes = yes]),
         UNCHANGED <<grid, row, request, consented, swapped>>
  PROVE  IInv'
<1> DEFINE args == [NoArg EXCEPT !.id = i, !.yes = yes]
<1>1. args \in Args /\ args.id = i BY NoArgShape DEF Args, Made
<1>2. at' = [at EXCEPT ![c] = "review"] /\ arg' = [arg EXCEPT ![c] = args] BY DEF Start
<1> HIDE DEF args
<1>3. at'[c] = "review" /\ arg'[c] = args BY <1>2 DEF IInv, Shapes
<1>4. CallInv(c)' BY <1>1, <1>3 DEF CallInv, AskIsOpen, IdIsMade, SwapIsConsented, HasTask, Made
<1>5. at' = [at EXCEPT ![c] = at'[c]] /\ arg' = [arg EXCEPT ![c] = arg'[c]] BY <1>2, <1>3
<1>6. at'[c] \in Labels /\ arg'[c] \in Args /\ grid' \in [Employees -> Cells]
  BY <1>1, <1>3 DEF IInv, Shapes, Labels
<1> QED BY <1>4, <1>5, <1>6, CallKeeps

LEMMA ReviewReadKeeps ==
  ASSUME IInv, NEW c \in Calls, NEW m \in Managers, NEW i \in Ids, NEW yes \in BOOLEAN,
         ReviewRead(c, m, i, yes)
  PROVE  IInv'
<1>1. i \in Made BY DEF ReviewRead, Pending, Made
<1> QED BY <1>1, DecideKeeps DEF ReviewRead

LEMMA ReviewExcuseKeeps ==
  ASSUME IInv, NEW c \in Calls, NEW m \in Managers, NEW i \in Ids, NEW yes \in BOOLEAN,
         ReviewExcuse(c, m, i, yes)
  PROVE  IInv'
<1>1. i \in Made BY DEF ReviewExcuse, Pending, Made
<1> QED BY <1>1, DecideKeeps DEF ReviewExcuse

\* The one place where the colleague's answer is read for a swap.
LEMMA ApplyReadKeeps ==
  ASSUME IInv, NEW c \in Calls, NEW m \in Managers, NEW i \in Ids,
         ApplyRead(c, m, i)
  PROVE  IInv'
<1> DEFINE args == [NoArg EXCEPT !.id = i, !.yes = TRUE]
<1>0. i \in consented BY DEF ApplyRead, Pending, IInv, AcceptedIsConsented
<1>1. args \in Args /\ args.id = i /\ i \in Made BY NoArgShape DEF Args, ApplyRead, Pending, Made
<1>2. at' = [at EXCEPT ![c] = "swap"] /\ arg' = [arg EXCEPT ![c] = args]
  BY DEF ApplyRead, Start
<1>3. request' = request /\ consented' = consented /\ swapped' = swapped /\ grid' = grid
  BY DEF ApplyRead
<1> HIDE DEF args
<1>4. at'[c] = "swap" /\ arg'[c] = args BY <1>2 DEF IInv, Shapes
<1>5. CallInv(c)' BY <1>1, <1>3, <1>4, <1>0 DEF CallInv, AskIsOpen, IdIsMade, SwapIsConsented, HasTask, Made
<1>6. at' = [at EXCEPT ![c] = at'[c]] /\ arg' = [arg EXCEPT ![c] = arg'[c]] BY <1>2, <1>4
<1>7. at'[c] \in Labels /\ arg'[c] \in Args /\ grid' \in [Employees -> Cells]
  BY <1>1, <1>3, <1>4 DEF IInv, Shapes, Labels
<1> QED BY <1>3, <1>5, <1>6, <1>7, CallKeeps

LEMMA ConfirmReadKeeps ==
  ASSUME IInv, NEW c \in Calls, NEW m \in Managers, NEW i \in Ids,
         ConfirmRead(c, m, i)
  PROVE  IInv'
<1> DEFINE todo == <<[who |-> request[i].by, shift |-> request[i].to]>>
           args == [NoArg EXCEPT !.id = i, !.todo = todo]
<1>1. i \in Made BY DEF ConfirmRead, Pending, Made
<1>2. request[i].by \in Employees /\ request[i].to \in Cells
  BY <1>1 DEF Made, IInv, Shapes, Requests
<1>3. todo \in Seq(Tasks) /\ todo # <<>> BY <1>2 DEF Tasks
<1>4. at' = [at EXCEPT ![c] = "confirm"] /\ arg' = [arg EXCEPT ![c] = args]
  BY DEF ConfirmRead, Start
<1>5. request' = request /\ consented' = consented /\ swapped' = swapped /\ grid' = grid
  BY DEF ConfirmRead
<1> HIDE DEF todo
<1>6. args \in Args /\ args.id = i /\ args.todo = todo BY <1>3, NoArgShape DEF Args
<1> HIDE DEF args
<1>7. at'[c] = "confirm" /\ arg'[c] = args BY <1>4 DEF IInv, Shapes
<1>8. CallInv(c)' BY <1>1, <1>3, <1>5, <1>6, <1>7 DEF CallInv, AskIsOpen, IdIsMade, SwapIsConsented, HasTask, Made
<1>9. at' = [at EXCEPT ![c] = at'[c]] /\ arg' = [arg EXCEPT ![c] = arg'[c]] BY <1>4, <1>7
<1>10. at'[c] \in Labels /\ arg'[c] \in Args /\ grid' \in [Employees -> Cells]
  BY <1>5, <1>6, <1>7 DEF IInv, Shapes, Labels
<1> QED BY <1>5, <1>8, <1>9, <1>10, CallKeeps

LEMMA SaveGridKeeps ==
  ASSUME IInv, NEW c \in Calls, NEW e \in Employees, NEW cell \in Cells,
         SaveGrid(c, e, cell)
  PROVE  IInv'
<1> DEFINE todo == IF cell = None THEN <<>> ELSE <<[who |-> e, shift |-> cell]>>
           args == [NoArg EXCEPT !.todo = todo]
           next == IF cell = None THEN "idle" ELSE "sync"
<1>1. todo \in Seq(Tasks) /\ (next = "sync" => todo # <<>>)
  <2>1. <<>> \in Seq(Tasks) OBVIOUS
  <2>2. <<[who |-> e, shift |-> cell]>> \in Seq(Tasks) /\ <<[who |-> e, shift |-> cell]>> # <<>>
    BY DEF Tasks
  <2> QED BY <2>1, <2>2
<1>2. at' = [at EXCEPT ![c] = next] /\ arg' = [arg EXCEPT ![c] = args] BY DEF SaveGrid, Start
<1>3. request' = request /\ consented' = consented /\ swapped' = swapped BY DEF SaveGrid
<1>4. grid' \in [Employees -> Cells] BY DEF IInv, Shapes, SaveGrid
<1>5. next \in {"idle", "sync"} OBVIOUS
<1> HIDE DEF todo, next
<1>6. args \in Args /\ args.todo = todo /\ ~args.yes BY <1>1, NoArgShape DEF Args, NoArg
<1> HIDE DEF args
<1>7. at'[c] = next /\ arg'[c] = args BY <1>2 DEF IInv, Shapes
<1>8. CallInv(c)' BY <1>1, <1>5, <1>6, <1>7 DEF CallInv, AskIsOpen, IdIsMade, SwapIsConsented, HasTask
<1>9. at' = [at EXCEPT ![c] = at'[c]] /\ arg' = [arg EXCEPT ![c] = arg'[c]] BY <1>2, <1>7
<1>10. at'[c] \in Labels /\ arg'[c] \in Args /\ grid' \in [Employees -> Cells]
  BY <1>4, <1>5, <1>6, <1>7 DEF IInv, Shapes, Labels
<1> QED BY <1>3, <1>8, <1>9, <1>10, CallKeeps

LEMMA EnsureKeeps ==
  ASSUME IInv, NEW c \in Calls,
         Ensure(c)
  PROVE  IInv'
<1>1. request' = request /\ consented' = consented /\ swapped' = swapped
        /\ grid' = grid
  BY DEF Ensure, GoOn, Return
<1>2. /\ at' = [at EXCEPT ![c] = at'[c]] /\ at'[c] \in {"idle", "conflict", "create"}
      /\ arg' = [arg EXCEPT ![c] = arg'[c]]
      /\ arg'[c] \in {arg[c], NoArg} /\ (at'[c] # "idle" => arg'[c] = arg[c])
  BY DEF Ensure, GoOn, Return, IInv, Shapes
<1>3. at'[c] \in Labels /\ arg'[c] \in Args BY <1>2, NoArgShape DEF IInv, Shapes, Labels
<1>4. grid' \in [Employees -> Cells] BY <1>1 DEF IInv, Shapes
<1>5. CallInv(c)' BY <1>1, <1>2 DEF Ensure, IInv, CallInv, AskIsOpen, IdIsMade, SwapIsConsented, HasTask, Made
<1> QED BY <1>1, <1>2, <1>3, <1>4, <1>5, CallKeeps

LEMMA ConflictKeeps ==
  ASSUME IInv, NEW c \in Calls,
         Conflict(c)
  PROVE  IInv'
<1>1. request' = request /\ consented' = consented /\ swapped' = swapped
        /\ grid' = grid
  BY DEF Conflict, GoOn, Return
<1>2. /\ at' = [at EXCEPT ![c] = at'[c]] /\ at'[c] \in {"idle", "shifts"}
      /\ arg' = [arg EXCEPT ![c] = arg'[c]]
      /\ arg'[c] \in {arg[c], NoArg} /\ (at'[c] # "idle" => arg'[c] = arg[c])
  BY DEF Conflict, GoOn, Return, IInv, Shapes
<1>3. at'[c] \in Labels /\ arg'[c] \in Args BY <1>2, NoArgShape DEF IInv, Shapes, Labels
<1>4. grid' \in [Employees -> Cells] BY <1>1 DEF IInv, Shapes
<1>5. CallInv(c)' BY <1>1, <1>2 DEF Conflict, IInv, CallInv, AskIsOpen, IdIsMade, SwapIsConsented, HasTask, Made
<1> QED BY <1>1, <1>2, <1>3, <1>4, <1>5, CallKeeps

LEMMA EffectKeeps ==
  ASSUME IInv, NEW c \in Calls,
         Effect(c)
  PROVE  IInv'
<1>1. request' = request /\ consented' = consented /\ swapped' = swapped
        /\ grid' = grid
  BY DEF Effect, GoOn, Return
<1>2. /\ at' = [at EXCEPT ![c] = at'[c]] /\ at'[c] \in {"idle"}
      /\ arg' = [arg EXCEPT ![c] = arg'[c]]
      /\ arg'[c] \in {arg[c], NoArg} /\ (at'[c] # "idle" => arg'[c] = arg[c])
  BY DEF Effect, GoOn, Return, IInv, Shapes
<1>3. at'[c] \in Labels /\ arg'[c] \in Args BY <1>2, NoArgShape DEF IInv, Shapes, Labels
<1>4. grid' \in [Employees -> Cells] BY <1>1 DEF IInv, Shapes
<1>5. CallInv(c)' BY <1>1, <1>2 DEF Effect, IInv, CallInv, AskIsOpen, IdIsMade, SwapIsConsented, HasTask, Made
<1> QED BY <1>1, <1>2, <1>3, <1>4, <1>5, CallKeeps

LEMMA CrashKeeps ==
  ASSUME IInv, NEW c \in Calls,
         Crash(c)
  PROVE  IInv'
<1>1. request' = request /\ consented' = consented /\ swapped' = swapped
        /\ grid' = grid
  BY DEF Crash, GoOn, Return
<1>2. /\ at' = [at EXCEPT ![c] = at'[c]] /\ at'[c] \in {"idle"}
      /\ arg' = [arg EXCEPT ![c] = arg'[c]]
      /\ arg'[c] \in {arg[c], NoArg} /\ (at'[c] # "idle" => arg'[c] = arg[c])
  BY DEF Crash, GoOn, Return, IInv, Shapes
<1>3. at'[c] \in Labels /\ arg'[c] \in Args BY <1>2, NoArgShape DEF IInv, Shapes, Labels
<1>4. grid' \in [Employees -> Cells] BY <1>1 DEF IInv, Shapes
<1>5. CallInv(c)' BY <1>1, <1>2 DEF Crash, IInv, CallInv, AskIsOpen, IdIsMade, SwapIsConsented, HasTask, Made
<1> QED BY <1>1, <1>2, <1>3, <1>4, <1>5, CallKeeps

LEMMA ReadShiftsKeeps ==
  ASSUME IInv, NEW c \in Calls,
         ReadShifts(c)
  PROVE  IInv'
<1> DEFINE ask == [arg[c].ask EXCEPT !.from = grid[arg[c].ask.by],
                                !.to = grid[arg[c].ask.other]]
<1>1. request' = request /\ consented' = consented /\ swapped' = swapped /\ grid' = grid
  BY DEF ReadShifts, GoOn, Return
<1>2. CASE at' = [at EXCEPT ![c] = "idle"] /\ arg' = [arg EXCEPT ![c] = NoArg]
  <2>1. at'[c] = "idle" /\ arg'[c] = NoArg BY <1>2 DEF IInv, Shapes
  <2>2. CallInv(c)' BY <2>1 DEF CallInv, AskIsOpen, IdIsMade, SwapIsConsented, HasTask
  <2>3. at' = [at EXCEPT ![c] = at'[c]] /\ arg' = [arg EXCEPT ![c] = arg'[c]] BY <1>2, <2>1
  <2>4. grid' \in [Employees -> Cells] BY <1>1 DEF IInv, Shapes
  <2>5. at'[c] \in Labels /\ arg'[c] \in Args BY <2>1, NoArgShape DEF Labels
  <2> QED BY <1>1, <2>2, <2>3, <2>4, <2>5, CallKeeps
<1>3. CASE /\ at' = [at EXCEPT ![c] = "create"]
           /\ arg' = [arg EXCEPT ![c].ask.from = grid[arg[c].ask.by],
                                 ![c].ask.to = grid[arg[c].ask.other]]
           /\ {grid[arg[c].ask.by], grid[arg[c].ask.other]} \subseteq Shifts
  <2>1. at[c] = "shifts" /\ arg[c] \in Args /\ arg[c].ask \in Requests /\ arg[c].ask.peer # "accepted"
    BY DEF ReadShifts, IInv, Shapes, CallInv, AskIsOpen, Args
  <2>2. ask \in Requests /\ ask.peer = arg[c].ask.peer BY <1>3, <2>1 DEF Requests, Cells
  <2>3. [arg[c] EXCEPT !.ask = ask] \in Args /\ [arg[c] EXCEPT !.ask = ask].ask = ask
    BY <2>1, <2>2 DEF Args
  <2>4. at'[c] = "create" /\ arg'[c] = [arg[c] EXCEPT !.ask = ask]
    BY <1>3, <2>1 DEF IInv, Shapes, Args, Requests
  <2>5. at' = [at EXCEPT ![c] = at'[c]] /\ arg' = [arg EXCEPT ![c] = arg'[c]]
    BY <1>3, <2>4 DEF IInv, Shapes
  <2> HIDE DEF ask
  <2>6. CallInv(c)' BY <2>1, <2>2, <2>3, <2>4 DEF CallInv, AskIsOpen, IdIsMade, SwapIsConsented, HasTask
  <2>7. grid' \in [Employees -> Cells] BY <1>1 DEF IInv, Shapes
  <2>8. at'[c] \in Labels /\ arg'[c] \in Args BY <2>3, <2>4 DEF Labels
  <2> QED BY <1>1, <2>5, <2>6, <2>7, <2>8, CallKeeps
<1> QED BY <1>2, <1>3 DEF ReadShifts, GoOn, Return

LEMMA SwapKeeps ==
  ASSUME IInv, NEW c \in Calls,
         Swap(c)
  PROVE  IInv'
<1> DEFINE r == request[arg[c].id]
           todo == <<[who |-> r.by, shift |-> r.to], [who |-> r.other, shift |-> r.from]>>
<1>1. arg[c] \in Args /\ r \in Requests /\ arg[c].id \in consented /\ arg[c].id \in Made
  BY DEF Swap, IInv, Shapes, CallInv, IdIsMade, SwapIsConsented, Made
<1>2. todo \in Seq(Tasks) /\ todo # <<>> BY <1>1 DEF Tasks, Requests
<1>3. at' = [at EXCEPT ![c] = "sync"] /\ arg' = [arg EXCEPT ![c].todo = todo]
  BY DEF Swap, GoOn
<1>4. request' = request /\ consented' = consented BY DEF Swap
<1>5. swapped' \subseteq consented BY <1>1 DEF Swap, IInv, ConsentBeforeSwap
<1>6. grid' \in [Employees -> Cells] BY <1>1 DEF Swap, IInv, Shapes, Requests
<1> HIDE DEF r, todo
<1>7. at'[c] = "sync" /\ arg'[c] = [arg[c] EXCEPT !.todo = todo] BY <1>3 DEF IInv, Shapes
<1>8. arg'[c] \in Args /\ arg'[c].todo = todo /\ arg'[c].id = arg[c].id BY <1>1, <1>2, <1>7 DEF Args
<1>9. CallInv(c)' BY <1>1, <1>2, <1>4, <1>7, <1>8 DEF CallInv, AskIsOpen, IdIsMade, SwapIsConsented, HasTask, Made
<1>10. at' = [at EXCEPT ![c] = at'[c]] /\ arg' = [arg EXCEPT ![c] = arg'[c]]
  BY <1>3, <1>7 DEF IInv, Shapes
<1>11. at'[c] \in Labels BY <1>7 DEF Labels
<1> QED BY <1>4, <1>5, <1>6, <1>8, <1>9, <1>10, <1>11, CallKeeps

LEMMA SyncKeeps ==
  ASSUME IInv, NEW c \in Calls,
         Sync(c)
  PROVE  IInv'
<1> DEFINE rest == Tail(arg[c].todo)
<1>1. /\ at[c] = "sync" /\ arg[c] \in Args /\ rest \in Seq(Tasks)
      /\ arg[c].yes => arg[c].id \in Made
  BY DEF Sync, IInv, Shapes, CallInv, HasTask, IdIsMade, Args
<1>2. request' = request /\ consented' = consented /\ swapped' = swapped /\ grid' = grid
  BY DEF Sync
<1> DEFINE Moved ==
             /\ at' = [at EXCEPT ![c] = at'[c]] /\ at'[c] \in {"idle", "sync", "mark"}
             /\ arg' = [arg EXCEPT ![c] = arg'[c]]
             /\ at'[c] = "sync" => rest # <<>> /\ arg'[c] = [arg[c] EXCEPT !.todo = rest]
             /\ at'[c] = "mark" => arg'[c] = arg[c] /\ arg[c].yes
             /\ at'[c] = "idle" => arg'[c] = NoArg
<1>3. Moved
  <2>1. IF rest # <<>> THEN GoOn(c, "sync") /\ arg' = [arg EXCEPT ![c].todo = rest]
        ELSE IF arg[c].yes THEN GoOn(c, "mark") /\ UNCHANGED arg ELSE Return(c)
    BY DEF Sync
  <2>2. at \in [Calls -> Labels] /\ arg \in [Calls -> Args] BY DEF IInv, Shapes
  <2> HIDE DEF rest
  <2>3. CASE rest # <<>>
    <3>1. at' = [at EXCEPT ![c] = "sync"] /\ arg' = [arg EXCEPT ![c].todo = rest]
      BY <2>1, <2>3 DEF GoOn
    <3>2. at'[c] = "sync" /\ arg'[c] = [arg[c] EXCEPT !.todo = rest] BY <2>2, <3>1
    <3>3. arg' = [arg EXCEPT ![c] = arg'[c]] BY <2>2, <3>1, <3>2
    <3> QED BY <2>3, <3>1, <3>2, <3>3
  <2>4. CASE rest = <<>> /\ arg[c].yes
    <3>1. at' = [at EXCEPT ![c] = "mark"] /\ arg' = arg BY <2>1, <2>4 DEF GoOn
    <3> QED BY <2>2, <2>4, <3>1
  <2>5. CASE rest = <<>> /\ ~arg[c].yes
    <3>1. at' = [at EXCEPT ![c] = "idle"] /\ arg' = [arg EXCEPT ![c] = NoArg]
      BY <2>1, <2>5 DEF Return, GoOn
    <3> QED BY <2>2, <3>1
  <2> QED BY <2>3, <2>4, <2>5
<1> HIDE DEF rest
<1>4. [arg[c] EXCEPT !.todo = rest] \in Args /\ [arg[c] EXCEPT !.todo = rest].todo = rest
      /\ [arg[c] EXCEPT !.todo = rest].id = arg[c].id
      /\ [arg[c] EXCEPT !.todo = rest].yes = arg[c].yes
  BY <1>1 DEF Args
<1>5. arg'[c] \in Args /\ at'[c] \in Labels BY <1>1, <1>3, <1>4, NoArgShape DEF Labels
<1>6. CallInv(c)' BY <1>1, <1>2, <1>3, <1>4 DEF CallInv, AskIsOpen, IdIsMade, SwapIsConsented, HasTask, Made
<1>7. grid' \in [Employees -> Cells] BY <1>2 DEF IInv, Shapes
<1> QED BY <1>2, <1>3, <1>5, <1>6, <1>7, CallKeeps
\* Both kinds of request are created in the same way.
LEMMA CreationKeeps ==
  ASSUME IInv, NEW c \in Calls, at[c] \in {"create", "excuse"},
         \E i \in Ids \ Made : request' = [request EXCEPT ![i] = arg[c].ask],
         Return(c), UNCHANGED <<grid, row, consented, swapped>>
  PROVE  IInv'
<1>1. PICK i \in Ids \ Made : request' = [request EXCEPT ![i] = arg[c].ask] OBVIOUS
<1>2. arg[c].ask \in Requests /\ arg[c].ask.peer # "accepted"
  BY DEF IInv, Shapes, Args, CallInv, AskIsOpen
<1>3. at' = [at EXCEPT ![c] = "idle"] /\ arg' = [arg EXCEPT ![c] = NoArg]
  BY DEF Return, GoOn
<1>4. at'[c] = "idle" /\ arg'[c] = NoArg BY <1>3 DEF IInv, Shapes
<1>5. CallInv(c)' BY <1>4 DEF CallInv, AskIsOpen, IdIsMade, SwapIsConsented, HasTask
<1>6. at' = [at EXCEPT ![c] = at'[c]] /\ arg' = [arg EXCEPT ![c] = arg'[c]] BY <1>3, <1>4
<1>7. at'[c] \in Labels /\ arg'[c] \in Args BY <1>4, NoArgShape DEF Labels
<1>8. PICK r \in Requests : r = arg[c].ask BY <1>2
<1> QED BY <1>1, <1>2, <1>5, <1>6, <1>7, <1>8, WriteKeeps

LEMMA CreateKeeps ==
  ASSUME IInv, NEW c \in Calls, Create(c) \/ CreateExcuse(c)
  PROVE  IInv'
BY CreationKeeps DEF Create, CreateExcuse

LEMMA ReviewWriteKeeps ==
  ASSUME IInv, NEW c \in Calls,
         ReviewWrite(c)
  PROVE  IInv'
<1> DEFINE i == arg[c].id
           r == [request[i] EXCEPT !.status = IF arg[c].yes THEN "approved" ELSE "rejected"]
<1>1. i \in Ids /\ request[i] \in Requests BY DEF ReviewWrite, IInv, Shapes, CallInv, IdIsMade, Made
<1>2. r \in Requests /\ r.peer = request[i].peer BY <1>1, StatusOnly
<1>3. request' = [request EXCEPT ![i] = r] BY DEF ReviewWrite
<1>4. r.peer = "accepted" => i \in consented BY <1>1, <1>2, RequestsAssumption DEF IInv, AcceptedIsConsented
<1>5. consented' = consented /\ swapped' = swapped /\ grid' = grid BY DEF ReviewWrite
<1>6. /\ at' = [at EXCEPT ![c] = at'[c]] /\ arg' = [arg EXCEPT ![c] = arg'[c]]
      /\ at'[c] \in {"idle", "effect"} /\ arg'[c] \in {arg[c], NoArg}
  BY DEF ReviewWrite, Return, GoOn, IInv, Shapes
<1>7. at'[c] \in Labels /\ arg'[c] \in Args BY <1>6, NoArgShape DEF Labels, IInv, Shapes
<1>11. i \in Made' BY <1>1, <1>2, <1>3 DEF IInv, Shapes, Made
<1>8. CallInv(c)' BY <1>6, <1>11 DEF ReviewWrite, IInv, Shapes, Args, CallInv, AskIsOpen, IdIsMade, SwapIsConsented, HasTask
<1>9. PICK x \in Requests : x = r BY <1>2
<1>10. PICK j \in Ids : j = i BY <1>1
<1> HIDE DEF i, r
<1> QED BY <1>3, <1>4, <1>5, <1>6, <1>7, <1>8, <1>9, <1>10, WriteKeeps

LEMMA MarkKeeps ==
  ASSUME IInv, NEW c \in Calls,
         Mark(c)
  PROVE  IInv'
<1> DEFINE i == arg[c].id
           r == [request[i] EXCEPT !.status = "approved"]
<1>1. i \in Ids /\ request[i] \in Requests BY DEF Mark, IInv, Shapes, CallInv, IdIsMade, Made
<1>2. r \in Requests /\ r.peer = request[i].peer BY <1>1, StatusOnly
<1>3. request' = [request EXCEPT ![i] = r] BY DEF Mark
<1>4. r.peer = "accepted" => i \in consented BY <1>1, <1>2, RequestsAssumption DEF IInv, AcceptedIsConsented
<1>5. consented' = consented /\ swapped' = swapped /\ grid' = grid BY DEF Mark
<1>6. /\ at' = [at EXCEPT ![c] = at'[c]] /\ arg' = [arg EXCEPT ![c] = arg'[c]]
      /\ at'[c] = "idle" /\ arg'[c] = NoArg
  BY DEF Mark, Return, GoOn, IInv, Shapes
<1>7. at'[c] \in Labels /\ arg'[c] \in Args BY <1>6, NoArgShape DEF Labels, IInv, Shapes
<1>11. i \in Made' BY <1>1, <1>2, <1>3 DEF IInv, Shapes, Made
<1>8. CallInv(c)' BY <1>6, <1>11 DEF Mark, IInv, Shapes, Args, CallInv, AskIsOpen, IdIsMade, SwapIsConsented, HasTask
<1>9. PICK x \in Requests : x = r BY <1>2
<1>10. PICK j \in Ids : j = i BY <1>1
<1> HIDE DEF i, r
<1> QED BY <1>3, <1>4, <1>5, <1>6, <1>7, <1>8, <1>9, <1>10, WriteKeeps

LEMMA ConfirmWriteKeeps ==
  ASSUME IInv, NEW c \in Calls,
         ConfirmWrite(c)
  PROVE  IInv'
<1> DEFINE i == arg[c].id
           r == [request[i] EXCEPT !.status = "approved"]
<1>1. i \in Ids /\ request[i] \in Requests BY DEF ConfirmWrite, IInv, Shapes, CallInv, IdIsMade, Made
<1>2. r \in Requests /\ r.peer = request[i].peer BY <1>1, StatusOnly
<1>3. request' = [request EXCEPT ![i] = r] BY DEF ConfirmWrite
<1>4. r.peer = "accepted" => i \in consented BY <1>1, <1>2, RequestsAssumption DEF IInv, AcceptedIsConsented
<1>5. consented' = consented /\ swapped' = swapped /\ grid' = grid BY DEF ConfirmWrite
<1>6. /\ at' = [at EXCEPT ![c] = at'[c]] /\ arg' = [arg EXCEPT ![c] = arg'[c]]
      /\ at'[c] = "sync" /\ arg'[c] = arg[c]
  BY DEF ConfirmWrite, Return, GoOn, IInv, Shapes
<1>7. at'[c] \in Labels /\ arg'[c] \in Args BY <1>6, NoArgShape DEF Labels, IInv, Shapes
<1>11. i \in Made' BY <1>1, <1>2, <1>3 DEF IInv, Shapes, Made
<1>8. CallInv(c)' BY <1>6, <1>11 DEF ConfirmWrite, IInv, Shapes, Args, CallInv, AskIsOpen, IdIsMade, SwapIsConsented, HasTask
<1>9. PICK x \in Requests : x = r BY <1>2
<1>10. PICK j \in Ids : j = i BY <1>1
<1> HIDE DEF i, r
<1> QED BY <1>3, <1>4, <1>5, <1>6, <1>7, <1>8, <1>9, <1>10, WriteKeeps

LEMMA RespondWriteKeeps ==
  ASSUME IInv, NEW c \in Calls,
         RespondWrite(c)
  PROVE  IInv'
<1> DEFINE i == arg[c].id
           r == IF arg[c].yes THEN [request[i] EXCEPT !.peer = "accepted"]
                ELSE [request[i] EXCEPT !.peer = "rejected", !.status = "rejected"]
<1>1. i \in Ids /\ request[i] \in Requests BY DEF RespondWrite, IInv, Shapes, CallInv, IdIsMade, Made
<1>2. r \in Requests /\ (r.peer = "accepted" => arg[c].yes) BY <1>1 DEF Requests
<1>3. request' = [request EXCEPT ![i] = r] BY DEF RespondWrite
<1>4. consented \subseteq consented' /\ (r.peer = "accepted" => i \in consented')
      /\ swapped' = swapped /\ grid' = grid
  BY <1>2 DEF RespondWrite
<1>5. at' = [at EXCEPT ![c] = "idle"] /\ arg' = [arg EXCEPT ![c] = NoArg]
  BY DEF RespondWrite, Return, GoOn
<1>6. at'[c] = "idle" /\ arg'[c] = NoArg BY <1>5 DEF IInv, Shapes
<1>7. at'[c] \in Labels /\ arg'[c] \in Args BY <1>6, NoArgShape DEF Labels
<1>8. CallInv(c)' BY <1>6 DEF CallInv, AskIsOpen, IdIsMade, SwapIsConsented, HasTask
<1>9. PICK x \in Requests : x = r BY <1>2
<1>10. PICK j \in Ids : j = i BY <1>1
<1>11. at' = [at EXCEPT ![c] = at'[c]] /\ arg' = [arg EXCEPT ![c] = arg'[c]] BY <1>5, <1>6
<1> HIDE DEF i, r
<1> QED BY <1>3, <1>4, <1>7, <1>8, <1>9, <1>10, <1>11, WriteKeeps

\* The scans, the nightly job and midnight touch nothing of it.
LEMMA OthersKeep ==
  ASSUME IInv, UNCHANGED <<grid, request, at, arg, consented, swapped>>
  PROVE  IInv'
BY DEF IInv, Shapes, AcceptedIsConsented, ConsentBeforeSwap, CallInv, AskIsOpen, IdIsMade, SwapIsConsented, HasTask, Made

LEMMA StepKeeps == ASSUME IInv, [Next]_vars PROVE IInv'
<1>1. ASSUME NEW c \in Calls, Begin(c) PROVE IInv'
  BY <1>1, SubmitKeeps, SubmitExcuseKeeps, RespondReadKeeps, ReviewReadKeeps, ReviewExcuseKeeps,
     ApplyReadKeeps, ConfirmReadKeeps, SaveGridKeeps DEF Begin, Types
<1>2. ASSUME NEW c \in Calls, Step(c) PROVE IInv'
  BY <1>2, EnsureKeeps, ConflictKeeps, ReadShiftsKeeps, CreateKeeps, RespondWriteKeeps,
     ReviewWriteKeeps, EffectKeeps, SwapKeeps, SyncKeeps, MarkKeeps, ConfirmWriteKeeps DEF Step
<1>3. ASSUME NEW e \in Employees, CheckIn(e) \/ CheckOut(e) \/ Forgotten(e) PROVE IInv'
  BY <1>3, OthersKeep DEF CheckIn, CheckOut, Forgotten, Others
<1>4. CASE Midnight BY <1>4, OthersKeep DEF Midnight, Others
<1>5. CASE UNCHANGED vars BY <1>5, OthersKeep DEF vars
<1> QED BY <1>1, <1>2, <1>3, <1>4, <1>5, CrashKeeps DEF Next

LEMMA InitIInv == Init => IInv
<1> SUFFICES ASSUME Init PROVE IInv OBVIOUS
<1>1. Shapes BY NoArgShape DEF Init, Shapes, Labels, Cells
<1>2. AcceptedIsConsented /\ ConsentBeforeSwap
  BY DEF Init, AcceptedIsConsented, ConsentBeforeSwap
<1>3. \A c \in Calls : CallInv(c) BY DEF Init, CallInv, AskIsOpen, IdIsMade, SwapIsConsented, HasTask
<1> QED BY <1>1, <1>2, <1>3 DEF IInv

(* For any number of calls, employees, managers and requests, and however  *)
(* calls overlap or die: no swap is written to the grid before the         *)
(* colleague has accepted it.                                              *)
THEOREM ConsentFirst == Spec => []ConsentBeforeSwap
<1>1. IInv /\ [Next]_vars => IInv' BY StepKeeps
<1>2. IInv => ConsentBeforeSwap BY DEF IInv
<1> QED BY InitIInv, <1>1, <1>2, PTL DEF Spec
------------------------------------------------------------------------------
(* However calls overlap and die, every pending request is in the inbox of *)
(* somebody who can act on it; and when calls do not overlap, what was     *)
(* decided is not decided again.                                           *)

\* A swap names a colleague, who has been asked; one that he declined is decided.
WellFormed(r) ==
  r.type = "shift_swap" =>
    r.other \in Employees /\ r.peer # "none" /\ (r.peer = "rejected" => r.status # "pending")

Asking(c) == at[c] \in {"ensure", "conflict", "shifts", "create", "excuse"}

OInv ==
  /\ \A i \in Ids : request[i] # None => WellFormed(request[i])
  /\ \A c \in Calls : Asking(c) => WellFormed(arg[c].ask)

\* The calls that are about to write the status of a request, or to come there.
Deciding(c) ==
  \/ at[c] \in {"respond", "review", "swap", "mark", "confirm"}
  \/ at[c] = "sync" /\ arg[c].yes

Alone == \A c, d \in Calls : at[c] # "idle" /\ at[d] # "idle" => c = d

\* One call at a time: what the running call has read of the request it is about
\* to decide still holds.
DInv ==
  /\ ~overlap => Alone /\ \A c \in Calls : Deciding(c) => Pending(arg[c].id)
  /\ \A c \in Calls : at[c] = "confirm" => ~arg[c].yes

USE ApprovalsAssumption, RequestsAssumption

\* A step of one call touches what that call holds, and nobody else's.
LEMMA OneCallMoves ==
  ASSUME IInv, NEW c \in Calls, Begin(c) \/ Step(c) \/ Crash(c)
  PROVE  /\ overlap' = overlap
         /\ \A d \in Calls \ {c} : at'[d] = at[d] /\ arg'[d] = arg[d]
<1>1. at \in [Calls -> Labels] /\ arg \in [Calls -> Args] BY DEF IInv, Shapes
<1>2. CASE Begin(c)
  BY <1>1, <1>2 DEF Begin, Submit, SubmitExcuse, RespondRead, ReviewRead, ReviewExcuse,
                    ApplyRead, ConfirmRead, SaveGrid, Start
<1>3. CASE Step(c)
  <2>1. CASE Ensure(c) \/ Conflict(c) \/ Create(c) \/ CreateExcuse(c)
    BY <1>1, <2>1 DEF Ensure, Conflict, Create, CreateExcuse, GoOn, Return
  <2>2. CASE ReadShifts(c) \/ Swap(c) \/ Sync(c)
    BY <1>1, <2>2 DEF ReadShifts, Swap, Sync, GoOn, Return
  <2>3. CASE RespondWrite(c) \/ ReviewWrite(c) \/ Effect(c) \/ Mark(c) \/ ConfirmWrite(c)
    BY <1>1, <2>3 DEF RespondWrite, ReviewWrite, Effect, Mark, ConfirmWrite, GoOn, Return
  <2> QED BY <1>3, <2>1, <2>2, <2>3 DEF Step
<1>4. CASE Crash(c) BY <1>1, <1>4 DEF Crash
<1> QED BY <1>2, <1>3, <1>4

-------------------------------------------------------------------------------
(* Nobody's inbox is missed.                                               *)

\* A call that begins asks for a well-formed request, or for none.
LEMMA BeginOwned ==
  ASSUME IInv, OInv, NEW c \in Calls, Begin(c)
  PROVE  request' = request /\ (Asking(c)' => WellFormed(arg'[c].ask))
<1>1. at \in [Calls -> Labels] /\ arg \in [Calls -> Args] BY DEF IInv, Shapes
<1>2. ASSUME NEW e \in Employees, NEW type \in Types \ {"late_excuse"},
             NEW other \in Employees \cup {None}, Submit(c, e, type, other)
      PROVE  request' = request /\ WellFormed(arg'[c].ask)
  <2>1. WellFormed(Asked(e, type, other)) BY <1>2 DEF Submit, WellFormed, Asked
  <2>2. arg'[c].ask = Asked(e, type, other) BY <1>1, <1>2 DEF Submit, Start, NoArg
  <2> QED BY <1>2, <2>1, <2>2 DEF Submit
<1>3. ASSUME NEW e \in Employees, SubmitExcuse(c, e)
      PROVE  request' = request /\ WellFormed(arg'[c].ask)
  <2>1. WellFormed(Asked(e, "late_excuse", None)) BY DEF WellFormed, Asked
  <2>2. arg'[c].ask = Asked(e, "late_excuse", None) BY <1>1, <1>3 DEF SubmitExcuse, Start, NoArg
  <2> QED BY <1>3, <2>1, <2>2 DEF SubmitExcuse
<1>4. ASSUME NEW i \in Ids, NEW m \in Managers, NEW yes \in BOOLEAN,
             ReviewRead(c, m, i, yes) \/ ReviewExcuse(c, m, i, yes)
             \/ ApplyRead(c, m, i) \/ ConfirmRead(c, m, i)
      PROVE  request' = request /\ ~Asking(c)'
  BY <1>1, <1>4 DEF ReviewRead, ReviewExcuse, ApplyRead, ConfirmRead, Start, Asking
<1>5. ASSUME NEW i \in Ids, NEW yes \in BOOLEAN, RespondRead(c, i, yes)
      PROVE  request' = request /\ ~Asking(c)'
  BY <1>1, <1>5 DEF RespondRead, Start, Asking
<1>6. ASSUME NEW e \in Employees, NEW cell \in Cells, SaveGrid(c, e, cell)
      PROVE  request' = request /\ ~Asking(c)'
  BY <1>1, <1>6 DEF SaveGrid, Start, Asking
<1>7. CASE \E e \in Employees, type \in Types \ {"late_excuse"}, other \in Employees \cup {None} :
             Submit(c, e, type, other)
  BY <1>2, <1>7
<1>8. CASE \E i \in Ids, m \in Managers : ApplyRead(c, m, i) \/ ConfirmRead(c, m, i)
  <2>1. TRUE \in BOOLEAN OBVIOUS
  <2> QED BY <1>4, <1>8, <2>1
<1>9. CASE \E i \in Ids, yes \in BOOLEAN :
             \/ RespondRead(c, i, yes)
             \/ \E m \in Managers : ReviewRead(c, m, i, yes) \/ ReviewExcuse(c, m, i, yes)
  BY <1>4, <1>5, <1>9
<1> QED BY <1>3, <1>6, <1>7, <1>8, <1>9 DEF Begin

\* So does a call on its way to creating one.
LEMMA AskStaysOwned ==
  ASSUME IInv, OInv, NEW c \in Calls, Step(c) \/ Crash(c)
  PROVE  Asking(c)' => WellFormed(arg'[c].ask)
<1>1. at \in [Calls -> Labels] /\ arg \in [Calls -> Args] BY DEF IInv, Shapes
<1>2. CASE Ensure(c) \/ Conflict(c)
  BY <1>1, <1>2 DEF Ensure, Conflict, GoOn, Return, OInv, Asking
<1>3. CASE ReadShifts(c)
  <2>1. arg[c].ask \in Requests /\ WellFormed(arg[c].ask)
    BY <1>1, <1>3 DEF ReadShifts, IInv, CallInv, AskIsOpen, Args, OInv, Asking
  <2>2. CASE at'[c] = "create"
    <3>1. arg' = [arg EXCEPT ![c].ask.from = grid[arg[c].ask.by],
                             ![c].ask.to = grid[arg[c].ask.other]]
      BY <1>1, <1>3, <2>2 DEF ReadShifts, GoOn, Return
    <3>2. arg'[c].ask = [arg[c].ask EXCEPT !.from = grid[arg[c].ask.by],
                                           !.to = grid[arg[c].ask.other]]
      BY <1>1, <2>1, <3>1 DEF Args, Requests
    <3> QED BY <2>1, <3>2 DEF WellFormed, Requests
  <2>3. CASE at'[c] = "idle" BY <2>3 DEF Asking
  <2> QED BY <1>1, <1>3, <2>2, <2>3 DEF ReadShifts, GoOn, Return
<1>4. CASE Create(c) \/ CreateExcuse(c) \/ Swap(c) \/ Sync(c)
  BY <1>1, <1>4 DEF Create, CreateExcuse, Swap, Sync, GoOn, Return, Asking
<1>5. CASE RespondWrite(c) \/ ReviewWrite(c) \/ Effect(c) \/ Mark(c) \/ ConfirmWrite(c)
  BY <1>1, <1>5 DEF RespondWrite, ReviewWrite, Effect, Mark, ConfirmWrite, GoOn, Return, Asking
<1>6. CASE Crash(c) BY <1>1, <1>6 DEF Crash, Asking
<1> QED BY <1>2, <1>3, <1>4, <1>5, <1>6 DEF Step

\* What a call creates, answers or decides stays well formed.
LEMMA RequestStaysOwned ==
  ASSUME IInv, OInv, NEW c \in Calls, Step(c) \/ Crash(c), NEW i \in Ids, request'[i] # None
  PROVE  WellFormed(request'[i])
<1>1. arg \in [Calls -> Args] /\ request \in [Ids -> Requests \cup {None}] BY DEF IInv, Shapes
<1>2. CASE request' = request BY <1>2 DEF OInv
<1>3. CASE Create(c) \/ CreateExcuse(c)
  <2>1. WellFormed(arg[c].ask) BY <1>3 DEF Create, CreateExcuse, OInv, Asking
  <2>2. request'[i] = arg[c].ask \/ request'[i] = request[i]
    BY <1>1, <1>3 DEF Create, CreateExcuse
  <2> QED BY <2>1, <2>2 DEF OInv
<1>4. ASSUME NEW s \in {"approved", "rejected"}, arg[c].id \in Made,
             request' = [request EXCEPT ![arg[c].id].status = s]
      PROVE  WellFormed(request'[i])
  <2>1. CASE i = arg[c].id
    <3>1. request[i] \in Requests /\ WellFormed(request[i]) BY <1>1, <1>4, <2>1 DEF Made, OInv
    <3>2. request'[i] = [request[i] EXCEPT !.status = s] BY <1>1, <1>4, <2>1
    <3> QED BY <3>1, <3>2 DEF WellFormed, Requests
  <2>2. CASE i # arg[c].id BY <1>1, <1>4, <2>2 DEF OInv
  <2> QED BY <2>1, <2>2
<1>5. CASE ReviewWrite(c) \/ Mark(c) \/ ConfirmWrite(c)
  BY <1>4, <1>5 DEF ReviewWrite, Mark, ConfirmWrite, IInv, CallInv, IdIsMade
<1>6. CASE RespondWrite(c)
  <2>1. arg[c].id \in Made BY <1>6 DEF RespondWrite, IInv, CallInv, IdIsMade
  <2>2. CASE i = arg[c].id
    <3>1. request[i] \in Requests /\ WellFormed(request[i]) BY <1>1, <2>1, <2>2 DEF Made, OInv
    <3>2. request'[i] = IF arg[c].yes THEN [request[i] EXCEPT !.peer = "accepted"]
                        ELSE [request[i] EXCEPT !.peer = "rejected", !.status = "rejected"]
      BY <1>1, <1>6, <2>2 DEF RespondWrite
    <3> QED BY <3>1, <3>2 DEF WellFormed, Requests
  <2>3. CASE i # arg[c].id BY <1>1, <1>6, <2>3 DEF RespondWrite, OInv
  <2> QED BY <2>2, <2>3
<1> QED BY <1>2, <1>3, <1>5, <1>6 DEF Step, Ensure, Conflict, ReadShifts, Effect, Swap, Sync, Crash

LEMMA OwnedStep == ASSUME IInv, OInv, [Next]_vars PROVE OInv'
<1>1. ASSUME NEW c \in Calls, Begin(c) \/ Step(c) \/ Crash(c) PROVE OInv'
  <2>1. ASSUME NEW i \in Ids, request'[i] # None PROVE WellFormed(request'[i])
    BY <1>1, <2>1, BeginOwned, RequestStaysOwned DEF OInv
  <2>2. ASSUME NEW d \in Calls, Asking(d)' PROVE WellFormed(arg'[d].ask)
    <3>1. CASE d = c BY <1>1, <2>2, <3>1, BeginOwned, AskStaysOwned
    <3>2. CASE d # c BY <1>1, <2>2, <3>2, OneCallMoves DEF OInv, Asking
    <3> QED BY <3>1, <3>2
  <2> QED BY <2>1, <2>2 DEF OInv, WellFormed
<1>2. ASSUME UNCHANGED <<request, at, arg>> PROVE OInv' BY <1>2 DEF OInv, Asking, WellFormed
<1> QED BY <1>1, <1>2 DEF Next, CheckIn, CheckOut, Forgotten, Midnight, Others, vars

\* A well-formed pending request is in one of the inboxes.
LEMMA OwnedIsSeen == ASSUME IInv, OInv PROVE PendingHasOwner
<1> SUFFICES ASSUME NEW i \in Made, Pending(i)
             PROVE  \/ \E e \in Employees : i \in Incoming(e)
                    \/ i \in BranchInbox /\ (IsSwap(i) => Actionable(i))
                    \/ i \in ExcuseInbox
  BY DEF PendingHasOwner
<1>1. request[i] \in Requests /\ WellFormed(request[i]) BY DEF Made, OInv, IInv, Shapes
<1>2. CASE IsSwap(i)
  <2>1. request[i].other \in Employees /\ request[i].peer \in {"pending", "accepted"}
    BY <1>1, <1>2 DEF IsSwap, WellFormed, Pending, Requests
  <2>2. CASE request[i].peer = "pending" BY <1>2, <2>1, <2>2 DEF Incoming
  <2>3. CASE request[i].peer = "accepted" BY <1>2, <2>3 DEF BranchInbox, Actionable, IsSwap
  <2> QED BY <2>1, <2>2, <2>3
<1>3. CASE ~IsSwap(i) BY <1>3 DEF BranchInbox, ExcuseInbox
<1> QED BY <1>2, <1>3

(* For any number of calls, employees, managers and requests, and however  *)
(* calls overlap or die: a pending request is in the inbox of the          *)
(* colleague who may answer it or of the reviewers who may decide it.      *)
THEOREM NoRequestIsLost == Spec => []PendingHasOwner
<1>1. Init => IInv /\ OInv BY InitIInv DEF Init, OInv, Asking
<1>2. IInv /\ OInv /\ [Next]_vars => (IInv /\ OInv)' BY StepKeeps, OwnedStep
<1>3. IInv /\ OInv => PendingHasOwner BY OwnedIsSeen
<1> QED BY <1>1, <1>2, <1>3, PTL DEF Spec

-------------------------------------------------------------------------------
(* Decided once.                                                           *)

\* A call begins when no other runs, and has just read that the request is
\* pending.
LEMMA BeginDecides ==
  ASSUME IInv, DInv, NEW c \in Calls, Begin(c)
  PROVE  /\ request' = request /\ at[c] = "idle" /\ (overlap \/ \A d \in Calls : at[d] = "idle")
         /\ Deciding(c)' => Pending(arg'[c].id)
         /\ at'[c] = "confirm" => ~arg'[c].yes
<1>1. at \in [Calls -> Labels] /\ arg \in [Calls -> Args] BY DEF IInv, Shapes
<1>2. ASSUME NEW e \in Employees, NEW type, NEW other,
             Submit(c, e, type, other) \/ SubmitExcuse(c, e)
      PROVE  /\ request' = request /\ at[c] = "idle" /\ MayStart
             /\ ~Deciding(c)' /\ at'[c] # "confirm"
  BY <1>1, <1>2 DEF Submit, SubmitExcuse, Start, Deciding
<1>3. ASSUME NEW i \in Ids, NEW m \in Managers, NEW yes \in BOOLEAN,
             ReviewRead(c, m, i, yes) \/ ReviewExcuse(c, m, i, yes) \/ ApplyRead(c, m, i)
      PROVE  /\ request' = request /\ at[c] = "idle" /\ MayStart
             /\ Pending(arg'[c].id) /\ at'[c] # "confirm"
  <2>1. CASE ReviewRead(c, m, i, yes) BY <1>1, <2>1 DEF ReviewRead, Start, NoArg
  <2>2. CASE ReviewExcuse(c, m, i, yes) BY <1>1, <2>2 DEF ReviewExcuse, Start, NoArg
  <2>3. CASE ApplyRead(c, m, i) BY <1>1, <2>3 DEF ApplyRead, Start, NoArg
  <2> QED BY <1>3, <2>1, <2>2, <2>3
<1>4. ASSUME NEW i \in Ids, NEW m \in Managers, ConfirmRead(c, m, i)
      PROVE  /\ request' = request /\ at[c] = "idle" /\ MayStart
             /\ Pending(arg'[c].id) /\ ~arg'[c].yes
  BY <1>1, <1>4 DEF ConfirmRead, Start, NoArg
<1>5. ASSUME NEW i \in Ids, NEW yes \in BOOLEAN, RespondRead(c, i, yes)
      PROVE  /\ request' = request /\ at[c] = "idle" /\ MayStart
             /\ Pending(arg'[c].id) /\ at'[c] # "confirm"
  BY <1>1, <1>5 DEF RespondRead, Start, NoArg
<1>6. ASSUME NEW e \in Employees, NEW cell \in Cells, SaveGrid(c, e, cell)
      PROVE  /\ request' = request /\ at[c] = "idle" /\ MayStart
             /\ ~Deciding(c)' /\ at'[c] # "confirm"
  BY <1>1, <1>6 DEF SaveGrid, Start, NoArg, Deciding
<1>7. CASE \E e \in Employees, type \in Types \ {"late_excuse"}, other \in Employees \cup {None} :
             Submit(c, e, type, other)
  BY <1>2, <1>7 DEF MayStart
<1>8. CASE \E e \in Employees : SubmitExcuse(c, e) BY <1>2, <1>8 DEF MayStart
<1>9. CASE \E i \in Ids, m \in Managers : ApplyRead(c, m, i) \/ ConfirmRead(c, m, i)
  <2>1. TRUE \in BOOLEAN OBVIOUS
  <2> QED BY <1>3, <1>4, <1>9, <2>1 DEF MayStart
<1>10. CASE \E i \in Ids, yes \in BOOLEAN :
              \/ RespondRead(c, i, yes)
              \/ \E m \in Managers : ReviewRead(c, m, i, yes) \/ ReviewExcuse(c, m, i, yes)
  BY <1>3, <1>5, <1>10 DEF MayStart
<1>11. CASE \E e \in Employees, cell \in Cells : SaveGrid(c, e, cell) BY <1>6, <1>11 DEF MayStart
<1> QED BY <1>7, <1>8, <1>9, <1>10, <1>11 DEF Begin

\* A running call that goes on to decide has not decided yet.
LEMMA StepDecides ==
  ASSUME IInv, DInv, NEW c \in Calls, Step(c) \/ Crash(c)
  PROVE  /\ at[c] # "idle"
         /\ Deciding(c)' => Deciding(c) /\ arg'[c].id = arg[c].id /\ request' = request
         /\ at'[c] # "confirm"
<1>1. at \in [Calls -> Labels] /\ arg \in [Calls -> Args] BY DEF IInv, Shapes
<1>2. CASE Ensure(c) \/ Conflict(c) \/ ReadShifts(c) \/ Create(c) \/ CreateExcuse(c)
  BY <1>1, <1>2 DEF Ensure, Conflict, ReadShifts, Create, CreateExcuse, GoOn, Return, Deciding
<1>3. CASE RespondWrite(c) \/ ReviewWrite(c) \/ Effect(c) \/ Mark(c)
  BY <1>1, <1>3 DEF RespondWrite, ReviewWrite, Effect, Mark, GoOn, Return, Deciding
<1>4. CASE ConfirmWrite(c)
  BY <1>1, <1>4 DEF ConfirmWrite, GoOn, Deciding, DInv
<1>5. CASE Swap(c)
  <2>1. arg'[c].id = arg[c].id BY <1>1, <1>5 DEF Swap, Args
  <2> QED BY <1>1, <1>5, <2>1 DEF Swap, GoOn, Deciding
<1>6. CASE Sync(c)
  <2>1. CASE at'[c] = "idle" BY <1>6, <2>1 DEF Sync, Deciding
  <2>2. CASE at'[c] # "idle"
    <3>1. arg'[c].id = arg[c].id /\ arg'[c].yes = arg[c].yes
      BY <1>1, <1>6, <2>2 DEF Sync, GoOn, Return, Args
    <3>2. at'[c] = "sync" \/ (at'[c] = "mark" /\ arg[c].yes)
      BY <1>1, <1>6, <2>2 DEF Sync, GoOn, Return
    <3> QED BY <1>6, <3>1, <3>2 DEF Sync, Deciding
  <2> QED BY <2>1, <2>2
<1>7. CASE Crash(c) BY <1>1, <1>7 DEF Crash, Deciding
<1> QED BY <1>2, <1>3, <1>4, <1>5, <1>6, <1>7 DEF Step

LEMMA DecidesStep == ASSUME IInv, DInv, [Next]_vars PROVE DInv'
<1>1. ASSUME NEW c \in Calls, Begin(c) \/ Step(c) \/ Crash(c) PROVE DInv'
  <2>1. /\ overlap' = overlap
        /\ \A d \in Calls \ {c} : at'[d] = at[d] /\ arg'[d] = arg[d]
    BY <1>1, OneCallMoves
  <2>2. ASSUME NEW d \in Calls, at'[d] = "confirm" PROVE ~arg'[d].yes
    <3>1. CASE d = c BY <1>1, <2>2, <3>1, BeginDecides, StepDecides
    <3>2. CASE d # c BY <2>1, <2>2, <3>2 DEF DInv
    <3> QED BY <3>1, <3>2
  <2>3. ASSUME ~overlap PROVE \A d \in Calls \ {c} : at[d] = "idle" /\ at'[d] = "idle"
    BY <1>1, <2>1, <2>3, BeginDecides, StepDecides DEF DInv, Alone
  <2>4. ASSUME ~overlap, Deciding(c)' PROVE Pending(arg[c].id)'
    <3>1. CASE Begin(c) BY <2>4, <3>1, BeginDecides DEF Pending
    <3>2. CASE Step(c) \/ Crash(c) BY <2>4, <3>2, StepDecides DEF Pending, DInv
    <3> QED BY <1>1, <3>1, <3>2
  <2>5. ASSUME ~overlap, NEW d \in Calls, Deciding(d)' PROVE d = c
    BY <2>3, <2>5 DEF Deciding
  <2>6. ASSUME ~overlap PROVE Alone' BY <2>3, <2>6 DEF Alone
  <2> QED BY <2>1, <2>2, <2>4, <2>5, <2>6 DEF DInv
<1>2. ASSUME UNCHANGED <<overlap, request, at, arg>> PROVE DInv'
  BY <1>2 DEF DInv, Alone, Deciding, Pending
<1> QED BY <1>1, <1>2 DEF Next, CheckIn, CheckOut, Forgotten, Midnight, Others, vars

\* The status of a request that exists is written by a call that is deciding
\* about it, and by nothing else.
LEMMA OnlyDecidersWrite ==
  ASSUME IInv, [Next]_vars, NEW i \in Made, request'[i].status # request[i].status
  PROVE  \E c \in Calls : Deciding(c) /\ arg[c].id = i
<1>1. arg \in [Calls -> Args] /\ request \in [Ids -> Requests \cup {None}] BY DEF IInv, Shapes
<1>2. request' # request OBVIOUS
<1>3. ASSUME NEW c \in Calls, Begin(c) PROVE FALSE
  BY <1>2, <1>3 DEF Begin, Submit, SubmitExcuse, RespondRead, ReviewRead, ReviewExcuse,
                    ApplyRead, ConfirmRead, SaveGrid
<1>4. ASSUME NEW c \in Calls, Create(c) \/ CreateExcuse(c) PROVE FALSE
  BY <1>1, <1>4 DEF Create, CreateExcuse, Made
<1>5. ASSUME NEW c \in Calls, RespondWrite(c) \/ ReviewWrite(c) \/ Mark(c) \/ ConfirmWrite(c)
      PROVE  Deciding(c) /\ arg[c].id = i
  BY <1>1, <1>5 DEF RespondWrite, ReviewWrite, Mark, ConfirmWrite, Deciding, Made
<1> QED
  BY <1>2, <1>3, <1>4, <1>5 DEF Next, Step, Crash, Ensure, Conflict, ReadShifts, Effect, Swap, Sync,
     CheckIn, CheckOut, Forgotten, Midnight, Others, vars

(* For any number of calls, employees, managers and requests, with calls   *)
(* that die: when calls do not overlap, the status of a decided request    *)
(* never changes again, whether the colleague or a reviewer decided it.    *)
THEOREM DecidedOnce == Spec => DecisionIsFinal
<1>1. Init => IInv /\ DInv BY InitIInv DEF Init, DInv, Alone, Deciding
<1>2. IInv /\ DInv /\ [Next]_vars => (IInv /\ DInv)' BY StepKeeps, DecidesStep
<1>3. IInv /\ DInv /\ [Next]_vars =>
        [~overlap => \A i \in Made : ~Pending(i) => request'[i].status = request[i].status]_vars
  BY OnlyDecidersWrite DEF DInv
<1> QED BY <1>1, <1>2, <1>3, PTL DEF Spec, DecisionIsFinal
-------------------------------------------------------------------------------
(* One at a time.                                                          *)

Unique(i, j) ==
  \/ /\ request[i].by = request[j].by /\ request[i].type = request[j].type
     /\ "rejected" \notin {request[i].status, request[j].status}
  \/ /\ Pending(i) /\ Pending(j) /\ IsSwap(i) /\ IsSwap(j)
     /\ {request[i].by, request[i].other} \cap {request[j].by, request[j].other} # {}
  => i = j

\* What a call that asks has found out still holds: there is no active request,
\* and from "shifts" on no pending swap.
StillFree(c) ==
  LET ask == arg[c].ask IN
  /\ Asking(c) => ~Active(ask.by, ask.type)
  /\ at[c] \in {"shifts", "create"} /\ ask.type = "shift_swap" =>
       ~SwapPending(ask.by) /\ ~SwapPending(ask.other)
  /\ at[c] = "excuse" => ask.type # "shift_swap"

UInv == ~overlap => /\ \A i, j \in Made : Unique(i, j)
                    /\ \A c \in Calls : StillFree(c)

\* A request keeps who asks for what with whom, and one that is decided stays so.
LEMMA RequestsStand ==
  ASSUME IInv, DInv, [Next]_vars, ~overlap, NEW i \in Made
  PROVE  /\ request'[i] # None /\ request'[i].by = request[i].by
         /\ request'[i].type = request[i].type /\ request'[i].other = request[i].other
         /\ request'[i].status = "pending" => request[i].status = "pending"
         /\ request'[i].status # "rejected" => request[i].status # "rejected"
<1>1. /\ arg \in [Calls -> Args] /\ request \in [Ids -> Requests \cup {None}]
      /\ i \in Ids /\ request[i] \in Requests
  BY DEF IInv, Shapes, Made
<1>2. request'[i].status = request[i].status \/ request[i].status = "pending"
  BY OnlyDecidersWrite DEF DInv, Pending
<1>3. request'[i] # None /\ request'[i].by = request[i].by
      /\ request'[i].type = request[i].type /\ request'[i].other = request[i].other
  <2>1. CASE request' = request BY <1>1, <2>1
  <2>2. ASSUME NEW c \in Calls, Create(c) \/ CreateExcuse(c) PROVE request'[i] = request[i]
    BY <1>1, <2>2 DEF Create, CreateExcuse, Made
  <2>3. ASSUME NEW c \in Calls, ReviewWrite(c) \/ Mark(c) \/ ConfirmWrite(c)
        PROVE  request'[i] = request[i] \/ \E s \in {"approved", "rejected"} :
                                              request'[i] = [request[i] EXCEPT !.status = s]
    BY <1>1, <2>3 DEF ReviewWrite, Mark, ConfirmWrite
  <2>4. ASSUME NEW c \in Calls, RespondWrite(c)
        PROVE  \/ request'[i] = request[i]
               \/ request'[i] = [request[i] EXCEPT !.peer = "accepted"]
               \/ request'[i] = [request[i] EXCEPT !.peer = "rejected", !.status = "rejected"]
    <3>1. CASE arg[c].yes
      <4>1. request' = [request EXCEPT ![arg[c].id].peer = "accepted"]
        BY <2>4, <3>1 DEF RespondWrite
      <4> QED BY <1>1, <4>1
    <3>2. CASE ~arg[c].yes
      <4>1. request' = [request EXCEPT ![arg[c].id].peer = "rejected",
                                       ![arg[c].id].status = "rejected"]
        BY <2>4, <3>2 DEF RespondWrite
      <4> QED BY <1>1, <4>1
    <3> QED BY <3>1, <3>2
  <2>5. ASSUME NEW c \in Calls, Begin(c) PROVE request' = request
    BY <2>5 DEF Begin, Submit, SubmitExcuse, RespondRead, ReviewRead, ReviewExcuse,
                ApplyRead, ConfirmRead, SaveGrid
  <2>6. \/ request' = request
        \/ \E c \in Calls : \/ Create(c) \/ CreateExcuse(c) \/ RespondWrite(c)
                            \/ ReviewWrite(c) \/ Mark(c) \/ ConfirmWrite(c)
    BY <2>5 DEF Next, Step, Crash, Ensure, Conflict, ReadShifts, Effect, Swap, Sync,
       CheckIn, CheckOut, Forgotten, Midnight, Others, vars
  <2>7. /\ request'[i] \in Requests
        /\ request'[i].by = request[i].by /\ request'[i].type = request[i].type
        /\ request'[i].other = request[i].other
    <3> DEFINE Same(r) == /\ r \in Requests /\ r.by = request[i].by
                          /\ r.type = request[i].type /\ r.other = request[i].other
    <3>1. Same(request[i]) BY <1>1
    <3>2. ASSUME NEW s \in {"approved", "rejected"}
          PROVE  Same([request[i] EXCEPT !.status = s])
      BY <1>1 DEF Requests
    <3>3. Same([request[i] EXCEPT !.peer = "accepted"]) BY <1>1 DEF Requests
    <3>4. Same([request[i] EXCEPT !.peer = "rejected", !.status = "rejected"])
      BY <1>1 DEF Requests
    <3>5. ASSUME request' = request PROVE Same(request'[i]) BY <3>1, <3>5
    <3>6. ASSUME NEW c \in Calls, Create(c) \/ CreateExcuse(c) PROVE Same(request'[i])
      BY <2>2, <3>1, <3>6
    <3>7. ASSUME NEW c \in Calls, ReviewWrite(c) \/ Mark(c) \/ ConfirmWrite(c)
          PROVE  Same(request'[i])
      BY <2>3, <3>1, <3>2, <3>7
    <3>8. ASSUME NEW c \in Calls, RespondWrite(c) PROVE Same(request'[i])
      BY <2>4, <3>1, <3>3, <3>4, <3>8
    <3> HIDE DEF Same
    <3>9. Same(request'[i]) BY <2>6, <3>5, <3>6, <3>7, <3>8
    <3> QED BY <3>9 DEF Same
  <2> QED BY <1>1, <2>7
<1> QED BY <1>2, <1>3

\* So nothing becomes active or pending but what is created.
LEMMA NothingAwakes ==
  ASSUME IInv, DInv, [Next]_vars, ~overlap, Made' = Made
  PROVE  /\ \A e, type : Active(e, type)' => Active(e, type)
         /\ \A e : SwapPending(e)' => SwapPending(e)
         /\ \A i, j \in Made : Unique(i, j) => Unique(i, j)'
BY RequestsStand DEF Active, SwapPending, Pending, IsSwap, Unique, Made

\* A call begins to ask when there is no active request of the type.
LEMMA BeginFree ==
  ASSUME IInv, NEW c \in Calls, Begin(c)
  PROVE  request' = request /\ StillFree(c)'
<1>1. at \in [Calls -> Labels] /\ arg \in [Calls -> Args] BY DEF IInv, Shapes
<1>2. ASSUME NEW e \in Employees, NEW type, NEW other, Submit(c, e, type, other)
      PROVE  request' = request /\ StillFree(c)'
  <2>1. request' = request /\ ~Active(e, type) /\ at'[c] = "ensure"
        /\ arg'[c].ask = Asked(e, type, other)
    BY <1>1, <1>2 DEF Submit, Start, NoArg
  <2>2. arg'[c].ask.by = e /\ arg'[c].ask.type = type BY <2>1 DEF Asked
  <2> QED BY <2>1, <2>2 DEF StillFree, Active, Made
<1>3. ASSUME NEW e \in Employees, SubmitExcuse(c, e)
      PROVE  request' = request /\ StillFree(c)'
  <2>1. request' = request /\ ~Active(e, "late_excuse") /\ at'[c] = "excuse"
        /\ arg'[c].ask = Asked(e, "late_excuse", None)
    BY <1>1, <1>3 DEF SubmitExcuse, Start, NoArg
  <2>2. arg'[c].ask.by = e /\ arg'[c].ask.type = "late_excuse" BY <2>1 DEF Asked
  <2> QED BY <2>1, <2>2 DEF StillFree, Active, Made
<1>4. CASE ~Asking(c)' /\ request' = request BY <1>4 DEF StillFree, Asking
<1>5. ASSUME NEW next \in {"respond", "review", "swap", "confirm", "sync", "idle"}, NEW args,
             Start(c, next, args), request' = request
      PROVE  ~Asking(c)'
  <2>1. at'[c] = next BY <1>1, <1>5 DEF Start
  <2> QED BY <2>1 DEF Asking
<1>6. CASE \E i \in Ids, yes \in BOOLEAN :
             \/ RespondRead(c, i, yes)
             \/ \E m \in Managers : ReviewRead(c, m, i, yes) \/ ReviewExcuse(c, m, i, yes)
  BY <1>4, <1>5, <1>6 DEF RespondRead, ReviewRead, ReviewExcuse
<1>7. CASE \E i \in Ids, m \in Managers : ApplyRead(c, m, i) \/ ConfirmRead(c, m, i)
  BY <1>4, <1>5, <1>7 DEF ApplyRead, ConfirmRead
<1>8. CASE \E e \in Employees, cell \in Cells : SaveGrid(c, e, cell)
  BY <1>4, <1>5, <1>8 DEF SaveGrid
<1> QED BY <1>2, <1>3, <1>6, <1>7, <1>8 DEF Begin

\* A call that goes on asking asks for the same, and has looked for pending swaps.
LEMMA AskGoesOn ==
  ASSUME IInv, NEW c \in Calls, Step(c) \/ Crash(c), Asking(c)'
  PROVE  /\ Asking(c) /\ request' = request /\ at'[c] # "excuse"
         /\ arg'[c].ask.by = arg[c].ask.by /\ arg'[c].ask.type = arg[c].ask.type
         /\ arg'[c].ask.other = arg[c].ask.other
         /\ at'[c] \in {"shifts", "create"} /\ arg[c].ask.type = "shift_swap" =>
              \/ at[c] = "shifts"
              \/ ~SwapPending(arg[c].ask.by) /\ ~SwapPending(arg[c].ask.other)
<1>1. at \in [Calls -> Labels] /\ arg \in [Calls -> Args] BY DEF IInv, Shapes
<1>2. CASE Ensure(c) \/ Conflict(c)
  BY <1>1, <1>2 DEF Ensure, Conflict, GoOn, Return, Asking
<1>3. CASE ReadShifts(c)
  <2>1. arg[c].ask \in Requests
    BY <1>1, <1>3 DEF ReadShifts, IInv, CallInv, AskIsOpen, Args
  <2>2. /\ at'[c] = "create"
        /\ arg' = [arg EXCEPT ![c].ask.from = grid[arg[c].ask.by],
                              ![c].ask.to = grid[arg[c].ask.other]]
    BY <1>1, <1>3 DEF ReadShifts, GoOn, Return, Asking
  <2>3. arg'[c].ask = [arg[c].ask EXCEPT !.from = grid[arg[c].ask.by],
                                         !.to = grid[arg[c].ask.other]]
    BY <1>1, <2>1, <2>2 DEF Args, Requests
  <2>4. /\ arg'[c].ask.by = arg[c].ask.by /\ arg'[c].ask.type = arg[c].ask.type
        /\ arg'[c].ask.other = arg[c].ask.other
    BY <2>1, <2>3 DEF Requests
  <2>5. at[c] = "shifts" /\ request' = request BY <1>3 DEF ReadShifts
  <2> QED BY <2>2, <2>4, <2>5 DEF Asking
<1>4. CASE Create(c) \/ CreateExcuse(c) \/ Swap(c) \/ Sync(c)
  BY <1>1, <1>4 DEF Create, CreateExcuse, Swap, Sync, GoOn, Return, Asking
<1>5. CASE RespondWrite(c) \/ ReviewWrite(c) \/ Effect(c) \/ Mark(c) \/ ConfirmWrite(c)
  BY <1>1, <1>5 DEF RespondWrite, ReviewWrite, Effect, Mark, ConfirmWrite, GoOn, Return, Asking
<1>6. CASE Crash(c) BY <1>1, <1>6 DEF Crash, Asking
<1> QED BY <1>2, <1>3, <1>4, <1>5, <1>6 DEF Step

\* A request is created by a call that has made sure that it is the only one.
LEMMA CreationIsUnique ==
  ASSUME IInv, DInv, UInv, ~overlap, NEW c \in Calls, Create(c) \/ CreateExcuse(c)
  PROVE  (\A i, j \in Made : Unique(i, j))' /\ \A d \in Calls : StillFree(d)'
<1> DEFINE ask == arg[c].ask
<1>1. /\ at \in [Calls -> Labels] /\ arg \in [Calls -> Args]
      /\ request \in [Ids -> Requests \cup {None}]
  BY DEF IInv, Shapes
<1>2. PICK n \in Ids \ Made : request' = [request EXCEPT ![n] = ask] BY DEF Create, CreateExcuse
<1>3. ask \in Requests BY <1>1 DEF Create, CreateExcuse, IInv, CallInv, AskIsOpen, Args
<1>4. Made' = Made \cup {n} /\ request'[n] = ask /\ \A i \in Made : request'[i] = request[i]
  BY <1>1, <1>2, <1>3 DEF Made
<1>5. ~Active(ask.by, ask.type) BY DEF Create, CreateExcuse, UInv, StillFree, Asking
<1>6. ask.type = "shift_swap" => ~SwapPending(ask.by) /\ ~SwapPending(ask.other)
  <2>1. CASE Create(c) BY <2>1 DEF Create, UInv, StillFree
  <2>2. CASE CreateExcuse(c) BY <2>2 DEF CreateExcuse, UInv, StillFree
  <2> QED BY <2>1, <2>2
<1>7. ASSUME NEW i \in Made PROVE Unique(i, n)' /\ Unique(n, i)'
  <2>1. ~(request[i].by = ask.by /\ request[i].type = ask.type /\ request[i].status # "rejected")
    BY <1>5 DEF Active
  <2>2. ~(/\ Pending(i) /\ IsSwap(i) /\ ask.type = "shift_swap"
          /\ {request[i].by, request[i].other} \cap {ask.by, ask.other} # {})
    BY <1>6 DEF SwapPending
  <2> QED BY <1>4, <2>1, <2>2 DEF Unique, Pending, IsSwap
<1>8. ASSUME NEW i \in Made, NEW j \in Made PROVE Unique(i, j)'
  BY <1>4, <1>8 DEF UInv, Unique, Pending, IsSwap
<1>9. Unique(n, n)' BY DEF Unique
<1>10. ASSUME NEW d \in Calls PROVE StillFree(d)'
  <2>1. at'[d] = "idle"
    BY <1>1 DEF Create, CreateExcuse, Return, GoOn, DInv, Alone
  <2> QED BY <2>1 DEF StillFree, Asking
<1> QED BY <1>4, <1>7, <1>8, <1>9, <1>10

LEMMA UniqueStep == ASSUME IInv, DInv, UInv, [Next]_vars PROVE UInv'
<1>1. overlap' = overlap
  BY OneCallMoves DEF Next, CheckIn, CheckOut, Forgotten, Midnight, Others, vars
<1> SUFFICES ASSUME ~overlap
             PROVE  (\A i, j \in Made : Unique(i, j))' /\ \A d \in Calls : StillFree(d)'
  BY <1>1 DEF UInv
<1>2. ASSUME Made' = Made, NEW d \in Calls, at'[d] = at[d], arg'[d] = arg[d] PROVE StillFree(d)'
  BY <1>2, NothingAwakes DEF UInv, StillFree, Asking
<1>3. ASSUME Made' = Made PROVE (\A i, j \in Made : Unique(i, j))'
  BY <1>3, NothingAwakes DEF UInv
<1>4. ASSUME NEW c \in Calls, Begin(c) \/ Step(c) \/ Crash(c), Made' = Made
      PROVE  \A d \in Calls : StillFree(d)'
  <2>1. StillFree(c)'
    <3>1. CASE Begin(c) BY <3>1, BeginFree
    <3>2. CASE (Step(c) \/ Crash(c)) /\ Asking(c)'
      BY <1>4, <3>2, AskGoesOn, NothingAwakes DEF UInv, StillFree
    <3>3. CASE ~Asking(c)' BY <3>3 DEF StillFree, Asking
    <3> QED BY <1>4, <3>1, <3>2, <3>3
  <2> QED BY <1>2, <1>4, <2>1, OneCallMoves
<1>5. ASSUME NEW c \in Calls, Begin(c) \/ Step(c) \/ Crash(c)
      PROVE  Made' = Made \/ Create(c) \/ CreateExcuse(c)
  <2>1. /\ arg \in [Calls -> Args] /\ request \in [Ids -> Requests \cup {None}]
        /\ request' \in [Ids -> Requests \cup {None}]
    BY StepKeeps DEF IInv, Shapes
  <2>2. CASE Begin(c) BY <2>2, BeginFree DEF Made
  <2>3. CASE RespondWrite(c) \/ ReviewWrite(c) \/ Mark(c) \/ ConfirmWrite(c)
    <3>1. arg[c].id \in Made
      BY <2>3 DEF RespondWrite, ReviewWrite, Mark, ConfirmWrite, IInv, CallInv, IdIsMade
    <3>2. \A i \in Made : request'[i] # None BY RequestsStand
    <3>3. \A i \in Ids \ {arg[c].id} : request'[i] = request[i]
      BY <2>1, <2>3 DEF RespondWrite, ReviewWrite, Mark, ConfirmWrite
    <3> QED BY <3>1, <3>2, <3>3 DEF Made
  <2> QED
    BY <1>5, <2>2, <2>3 DEF Step, Crash, Ensure, Conflict, ReadShifts, Effect, Swap, Sync, Made
<1>6. ASSUME UNCHANGED <<request, at, arg>>
      PROVE  (\A i, j \in Made : Unique(i, j))' /\ \A d \in Calls : StillFree(d)'
  BY <1>2, <1>3, <1>6 DEF Made
<1>7. ASSUME NEW c \in Calls, Begin(c) \/ Step(c) \/ Crash(c)
      PROVE  (\A i, j \in Made : Unique(i, j))' /\ \A d \in Calls : StillFree(d)'
  BY <1>3, <1>4, <1>5, <1>7, CreationIsUnique
<1> QED BY <1>6, <1>7 DEF Next, CheckIn, CheckOut, Forgotten, Midnight, Others, vars

(* For any number of calls, employees, managers and requests, with calls   *)
(* that die: when calls do not overlap, an employee has one active request *)
(* of a type at most, and takes part in one pending swap at most.          *)
THEOREM OneAtATime == Spec => []OneActiveRequest
<1>1. Init => IInv /\ DInv /\ UInv
  BY InitIInv DEF Init, DInv, Alone, Deciding, UInv, Made, StillFree, Asking
<1>2. IInv /\ DInv /\ UInv /\ [Next]_vars => (IInv /\ DInv /\ UInv)'
  BY StepKeeps, DecidesStep, UniqueStep
<1>3. UInv => OneActiveRequest BY DEF UInv, OneActiveRequest, Unique
<1> QED BY <1>1, <1>2, <1>3, PTL DEF Spec
-------------------------------------------------------------------------------
(* The grid, the days' rows and the requests agree in the end.             *)

Quiet == ~overlap /\ crashes = 0

\* A call that has written the swap of request i is on its way to marking it.
Marking(i) == \E c \in Calls : at[c] \in {"sync", "mark"} /\ arg[c].yes /\ arg[c].id = i

\* A swap in the grid is approved, or about to be.
MInv ==
  /\ crashes \in Nat
  /\ \A c \in Calls : at[c] = "swap" => arg[c].yes
  /\ Quiet => \A i \in swapped : i \in Made /\ (request[i].status = "approved" \/ Marking(i))

\* The day of e stands under the shift of the grid.
Follows(e) == row[e].checkIn /\ grid[e] # None => row[e].shift = grid[e]

\* A call is about to bring the day of e into line.
Owed(e) == \E c \in Calls : at[c] = "sync" /\ \E k \in 1..Len(arg[c].todo) : arg[c].todo[k].who = e

\* What a call will bring the days into line with is the grid.
TaskIsRight(c) ==
  at[c] \in {"sync", "confirm"} =>
    \A k \in 1..Len(arg[c].todo) :
      arg[c].todo[k].who \in Employees => arg[c].todo[k].shift = grid[arg[c].todo[k].who]

DayRows == [status : {"none", "absent", "in", "left", "forgot_checkout"},
            checkIn : BOOLEAN, checkOut : BOOLEAN, shift : Cells]

\* A day that does not follow the grid is owed, and nobody swaps with himself.
GInv ==
  /\ row \in [Employees -> DayRows]
  /\ \A c \in Calls : Asking(c) => arg[c].ask.other # arg[c].ask.by
  /\ ~overlap => \A i \in Made : request[i].other # request[i].by
  /\ ~overlap => \A c \in Calls : TaskIsRight(c)
  /\ Quiet => \A e \in Employees : Follows(e) \/ Owed(e)

\* While a call runs, nobody else moves, nor do the scans and the jobs.
LEMMA RunsAlone ==
  ASSUME IInv, DInv, [Next]_vars, ~overlap, NEW c \in Calls, at[c] # "idle"
  PROVE  Step(c) \/ Crash(c) \/ UNCHANGED vars
<1>1. ASSUME NEW d \in Calls, Begin(d) PROVE FALSE
  BY <1>1, BeginDecides
<1>2. ASSUME NEW d \in Calls, Step(d) \/ Crash(d) PROVE d = c
  <2>1. at[d] # "idle" BY <1>2, StepDecides
  <2> QED BY <2>1 DEF DInv, Alone
<1>3. ~MayStart BY DEF MayStart
<1>4. CASE \E d \in Calls : Begin(d) \/ Step(d) \/ Crash(d) BY <1>1, <1>2, <1>4
<1>5. CASE \E e \in Employees : CheckIn(e) \/ CheckOut(e) \/ Forgotten(e)
  BY <1>3, <1>5 DEF CheckIn, CheckOut, Forgotten
<1>6. CASE Midnight BY <1>3, <1>6 DEF Midnight
<1> QED BY <1>4, <1>5, <1>6 DEF Next

\* A step that is not a call's leaves all but the rows and the day alone.
LEMMA Elsewhere ==
  ASSUME [Next]_vars
  PROVE  \/ \E c \in Calls : Begin(c) \/ Step(c) \/ Crash(c)
         \/ \E e \in Employees : CheckIn(e) \/ CheckOut(e) \/ Forgotten(e)
         \/ UNCHANGED row /\ UNCHANGED Others
BY DEF Next, Midnight, Others, vars

\* A step of a call: who dies counts, and nothing else counts crashes.
LEMMA CrashesCount ==
  ASSUME [Next]_vars, crashes \in Nat
  PROVE  /\ overlap' = overlap
         /\ crashes' \in Nat /\ (crashes' = 0 => crashes = 0)
         /\ \A c \in Calls : Crash(c) => crashes' # 0
<1>1. ASSUME NEW c \in Calls, Begin(c) PROVE overlap' = overlap /\ crashes' = crashes
  BY <1>1 DEF Begin, Submit, SubmitExcuse, RespondRead, ReviewRead, ReviewExcuse,
              ApplyRead, ConfirmRead, SaveGrid, Start
<1>2. ASSUME NEW c \in Calls, Step(c) PROVE overlap' = overlap /\ UNCHANGED crashes
  <2>1. CASE Ensure(c) \/ Conflict(c) \/ ReadShifts(c) \/ Create(c) \/ CreateExcuse(c)
    BY <2>1 DEF Ensure, Conflict, ReadShifts, Create, CreateExcuse, GoOn, Return
  <2>2. CASE RespondWrite(c) \/ ReviewWrite(c) \/ Effect(c) \/ Swap(c) \/ Sync(c)
    BY <2>2 DEF RespondWrite, ReviewWrite, Effect, Swap, Sync, GoOn, Return
  <2>3. CASE Mark(c) \/ ConfirmWrite(c) BY <2>3 DEF Mark, ConfirmWrite, GoOn, Return
  <2> QED BY <1>2, <2>1, <2>2, <2>3 DEF Step
<1>3. ASSUME NEW c \in Calls, Crash(c) PROVE overlap' = overlap /\ crashes' = crashes + 1
  BY <1>3 DEF Crash
<1>4. ASSUME NEW e \in Employees, CheckIn(e) \/ CheckOut(e) \/ Forgotten(e)
      PROVE  UNCHANGED <<overlap, crashes>>
  BY <1>4 DEF CheckIn, CheckOut, Forgotten, Others
<1>5. overlap' = overlap /\ (crashes' = crashes \/ crashes' = crashes + 1)
  BY <1>1, <1>2, <1>3, <1>4, Elsewhere DEF Others
<1> QED BY <1>3, <1>5

\* A call writes a swap for good, and says so.
LEMMA SwapStep == ASSUME IInv, DInv, MInv, [Next]_vars PROVE MInv'
<1>1. /\ at \in [Calls -> Labels] /\ arg \in [Calls -> Args]
      /\ request \in [Ids -> Requests \cup {None}]
  BY DEF IInv, Shapes
<1>2. /\ overlap' = overlap /\ crashes' \in Nat /\ (crashes' = 0 => crashes = 0)
      /\ \A c \in Calls : Crash(c) => crashes' # 0
  BY CrashesCount DEF MInv
<1>3. ASSUME NEW c \in Calls, Begin(c) \/ Step(c) \/ Crash(c), at'[c] = "swap" PROVE arg'[c].yes
  <2>1. CASE Begin(c)
    <3>1. ASSUME NEW i \in Ids, NEW m \in Managers, ApplyRead(c, m, i) PROVE arg'[c].yes
      BY <1>1, <3>1 DEF ApplyRead, Start, NoArg
    <3>2. ASSUME ~\E i \in Ids, m \in Managers : ApplyRead(c, m, i) PROVE at'[c] # "swap"
      BY <1>1, <2>1, <3>2 DEF Begin, Submit, SubmitExcuse, RespondRead, ReviewRead, ReviewExcuse,
                              ConfirmRead, SaveGrid, Start
    <3> QED BY <1>3, <3>1, <3>2
  <2>2. CASE Step(c) \/ Crash(c)
    <3>1. CASE Ensure(c) \/ Conflict(c) \/ ReadShifts(c) \/ Create(c) \/ CreateExcuse(c)
      BY <1>1, <1>3, <3>1 DEF Ensure, Conflict, ReadShifts, Create, CreateExcuse, GoOn, Return
    <3>2. CASE RespondWrite(c) \/ ReviewWrite(c) \/ Effect(c) \/ Swap(c) \/ Sync(c)
      BY <1>1, <1>3, <3>2 DEF RespondWrite, ReviewWrite, Effect, Swap, Sync, GoOn, Return
    <3>3. CASE Mark(c) \/ ConfirmWrite(c) \/ Crash(c)
      BY <1>1, <1>3, <3>3 DEF Mark, ConfirmWrite, Crash, GoOn, Return
    <3> QED BY <2>2, <3>1, <3>2, <3>3 DEF Step
  <2> QED BY <1>3, <2>1, <2>2
<1>4. ASSUME NEW c \in Calls, at'[c] = "swap" PROVE arg'[c].yes
  <2>1. CASE UNCHANGED <<at, arg>> BY <1>4, <2>1 DEF MInv
  <2>2. ASSUME NEW d \in Calls, Begin(d) \/ Step(d) \/ Crash(d) PROVE arg'[c].yes
    <3>1. CASE d = c BY <1>3, <1>4, <2>2, <3>1
    <3>2. CASE d # c BY <1>4, <2>2, <3>2, OneCallMoves DEF MInv
    <3> QED BY <3>1, <3>2
  <2> QED BY <2>1, <2>2, Elsewhere DEF CheckIn, CheckOut, Forgotten, Others
<1>5. ASSUME Quiet', NEW i \in swapped, ~Marking(i)
      PROVE  i \in Made' /\ request'[i].status = "approved"
  <2>1. ~overlap /\ i \in Made /\ request[i].status = "approved"
    BY <1>2, <1>5 DEF Quiet, MInv
  <2>2. request'[i] # None BY <2>1, RequestsStand
  <2>3. \A c \in Calls : ~(Deciding(c) /\ arg[c].id = i) BY <2>1 DEF DInv, Pending
  <2>4. request'[i].status = request[i].status BY <2>1, <2>3, OnlyDecidersWrite
  <2> QED BY <2>1, <2>2, <2>4 DEF Made
<1>6. ASSUME Quiet', NEW i \in swapped, Marking(i)
      PROVE  i \in Made' /\ (request'[i].status = "approved" \/ Marking(i)')
  <2>0. ~overlap /\ crashes = 0 /\ i \in Made BY <1>2, <1>6 DEF Quiet, MInv
  <2>1. i \in Made' BY <2>0, RequestsStand DEF Made
  <2>2. PICK c \in Calls : at[c] \in {"sync", "mark"} /\ arg[c].yes /\ arg[c].id = i
    BY <1>6 DEF Marking
  <2>3. Step(c) \/ UNCHANGED vars BY <1>2, <1>6, <2>0, <2>2, RunsAlone DEF Quiet
  <2>4. CASE UNCHANGED vars BY <2>1, <2>2, <2>4 DEF vars, Marking
  <2>5. CASE Step(c)
    <3>1. Sync(c) \/ Mark(c)
      BY <2>2, <2>5 DEF Step, Ensure, Conflict, ReadShifts, Create, CreateExcuse, RespondWrite,
                        ReviewWrite, Effect, Swap, ConfirmWrite
    <3>2. CASE Mark(c)
      <4>1. request'[i] = [request[i] EXCEPT !.status = "approved"]
        BY <1>1, <2>0, <2>2, <3>2 DEF Mark, Made
      <4>2. request[i] \in Requests BY <1>1, <2>0 DEF Made
      <4>3. request'[i].status = "approved" BY <4>1, <4>2 DEF Requests
      <4> QED BY <2>1, <4>3
    <3>3. CASE Sync(c)
      <4>1. at'[c] \in {"sync", "mark"} BY <1>1, <2>2, <3>3 DEF Sync, GoOn
      <4>2. arg' = arg \/ arg' = [arg EXCEPT ![c].todo = Tail(arg[c].todo)]
        BY <2>2, <3>3 DEF Sync
      <4>3. arg'[c].yes = arg[c].yes /\ arg'[c].id = arg[c].id BY <1>1, <4>2 DEF Args
      <4> QED BY <2>1, <2>2, <4>1, <4>3 DEF Marking
    <3> QED BY <2>1, <3>1, <3>2, <3>3
  <2> QED BY <2>1, <2>3, <2>4, <2>5
<1>7. ASSUME NEW i, i \in swapped', i \notin swapped PROVE i \in Made' /\ Marking(i)'
  <2>1. PICK c \in Calls : Swap(c)
    <3>1. ASSUME NEW c \in Calls, Begin(c) PROVE FALSE
      BY <1>7, <3>1 DEF Begin, Submit, SubmitExcuse, RespondRead, ReviewRead, ReviewExcuse,
                        ApplyRead, ConfirmRead, SaveGrid
    <3> QED
      BY <1>7, <3>1 DEF Next, Step, Crash, Ensure, Conflict, ReadShifts, Create, CreateExcuse,
         RespondWrite, ReviewWrite, Effect, Sync, Mark, ConfirmWrite,
         CheckIn, CheckOut, Forgotten, Midnight, Others, vars
  <2>2. i = arg[c].id /\ i \in Made /\ arg[c].yes
    BY <1>7, <2>1 DEF Swap, IInv, CallInv, IdIsMade, MInv
  <2>3. request' = request /\ at'[c] = "sync" BY <1>1, <2>1 DEF Swap, GoOn
  <2>4. arg'[c].id = arg[c].id /\ arg'[c].yes = arg[c].yes BY <1>1, <2>1 DEF Swap, Args
  <2> QED BY <2>2, <2>3, <2>4 DEF Made, Marking
<1> QED BY <1>2, <1>4, <1>5, <1>6, <1>7 DEF MInv

(* For any number of calls, employees, managers and requests: when calls   *)
(* do not overlap and none has died, every swap that was written to the    *)
(* grid ends as approved.                                                  *)
THEOREM SwapsAreApproved == Spec => []SwapIsApproved
<1>1. Init => IInv /\ DInv /\ MInv BY InitIInv DEF Init, DInv, Alone, Deciding, MInv
<1>2. IInv /\ DInv /\ MInv /\ [Next]_vars => (IInv /\ DInv /\ MInv)'
  BY StepKeeps, DecidesStep, SwapStep
<1>3. MInv => SwapIsApproved BY DEF MInv, Quiet, Marking, SwapIsApproved, Idle
<1> QED BY <1>1, <1>2, <1>3, PTL DEF Spec

\* A call that begins asks for a request that is about two, if about others at all.
LEMMA BeginTwo ==
  ASSUME IInv, NEW c \in Calls, Begin(c), Asking(c)'
  PROVE  arg'[c].ask.other # arg'[c].ask.by
<1>1. at \in [Calls -> Labels] /\ arg \in [Calls -> Args] BY DEF IInv, Shapes
<1>2. ASSUME NEW e \in Employees, NEW type, NEW other, Submit(c, e, type, other)
      PROVE  arg'[c].ask.other # arg'[c].ask.by
  <2>1. other # e /\ arg'[c].ask = Asked(e, type, other) BY <1>1, <1>2 DEF Submit, Start, NoArg
  <2> QED BY <2>1 DEF Asked
<1>3. ASSUME NEW e \in Employees, SubmitExcuse(c, e)
      PROVE  arg'[c].ask.other # arg'[c].ask.by
  <2>1. arg'[c].ask = Asked(e, "late_excuse", None) BY <1>1, <1>3 DEF SubmitExcuse, Start, NoArg
  <2> QED BY <2>1 DEF Asked
<1>4. ASSUME NEW next \in {"respond", "review", "swap", "confirm", "sync", "idle"}, NEW args,
             Start(c, next, args)
      PROVE  FALSE
  <2>1. at'[c] = next BY <1>1, <1>4 DEF Start
  <2> QED BY <2>1 DEF Asking
<1>5. CASE \E i \in Ids, yes \in BOOLEAN :
             \/ RespondRead(c, i, yes)
             \/ \E m \in Managers : ReviewRead(c, m, i, yes) \/ ReviewExcuse(c, m, i, yes)
  BY <1>4, <1>5 DEF RespondRead, ReviewRead, ReviewExcuse
<1>6. CASE \E i \in Ids, m \in Managers : ApplyRead(c, m, i) \/ ConfirmRead(c, m, i)
  BY <1>4, <1>6 DEF ApplyRead, ConfirmRead
<1>7. CASE \E e \in Employees, cell \in Cells : SaveGrid(c, e, cell)
  BY <1>4, <1>7 DEF SaveGrid
<1> QED BY <1>2, <1>3, <1>5, <1>6, <1>7 DEF Begin

\* Nobody swaps with himself, in a request or in a call's hands.
LEMMA TwoStep ==
  ASSUME IInv, DInv, GInv, [Next]_vars
  PROVE  /\ ~overlap => \A i \in Made' : request'[i].other # request'[i].by
         /\ \A c \in Calls : Asking(c)' => arg'[c].ask.other # arg'[c].ask.by
<1>1. /\ at \in [Calls -> Labels] /\ arg \in [Calls -> Args]
      /\ request \in [Ids -> Requests \cup {None}]
  BY DEF IInv, Shapes
<1>2. ASSUME ~overlap, NEW i \in Made' PROVE request'[i].other # request'[i].by
  <2>1. CASE i \in Made BY <1>2, <2>1, RequestsStand DEF GInv
  <2>2. CASE i \notin Made
    <3>1. i \in Ids /\ request'[i] # request[i] /\ request[i] = None BY <1>2, <2>2 DEF Made
    <3>2. ASSUME NEW c \in Calls, Begin(c) PROVE FALSE BY <3>1, <3>2, BeginFree
    <3>3. ASSUME NEW c \in Calls, RespondWrite(c) \/ ReviewWrite(c) \/ Mark(c) \/ ConfirmWrite(c)
          PROVE  FALSE
      <4>1. arg[c].id \in Made
        BY <3>3 DEF RespondWrite, ReviewWrite, Mark, ConfirmWrite, IInv, CallInv, IdIsMade
      <4> QED BY <1>1, <2>2, <3>1, <3>3, <4>1 DEF RespondWrite, ReviewWrite, Mark, ConfirmWrite
    <3>4. PICK c \in Calls : Create(c) \/ CreateExcuse(c)
      BY <3>1, <3>2, <3>3 DEF Next, Step, Crash, Ensure, Conflict, ReadShifts, Effect, Swap, Sync,
         CheckIn, CheckOut, Forgotten, Midnight, Others, vars
    <3>5. request'[i] = arg[c].ask BY <1>1, <3>1, <3>4 DEF Create, CreateExcuse
    <3> QED BY <3>4, <3>5 DEF Create, CreateExcuse, GInv, Asking
  <2> QED BY <2>1, <2>2
<1>3. ASSUME NEW c \in Calls, Asking(c)' PROVE arg'[c].ask.other # arg'[c].ask.by
  <2>1. CASE UNCHANGED <<at, arg>> BY <1>3, <2>1 DEF GInv, Asking
  <2>2. ASSUME NEW d \in Calls, Begin(d) \/ Step(d) \/ Crash(d)
        PROVE  arg'[c].ask.other # arg'[c].ask.by
    <3>1. CASE d # c BY <1>3, <2>2, <3>1, OneCallMoves DEF GInv, Asking
    <3>2. CASE d = c /\ Begin(c) BY <1>3, <3>2, BeginTwo
    <3>3. CASE d = c /\ (Step(c) \/ Crash(c)) BY <1>3, <3>3, AskGoesOn DEF GInv
    <3> QED BY <2>2, <3>1, <3>2, <3>3
  <2>3. ASSUME NEW e \in Employees, CheckIn(e) \/ CheckOut(e) \/ Forgotten(e)
        PROVE  UNCHANGED <<at, arg>>
    BY <2>3 DEF CheckIn, CheckOut, Forgotten, Others
  <2> QED BY <2>1, <2>2, <2>3, Elsewhere DEF Others
<1> QED BY <1>2, <1>3

\* Rows keep their shape, and those of which no call takes care stay as they are.
LEMMA RowTypes ==
  ASSUME IInv, GInv, [Next]_vars
  PROVE  row' \in [Employees -> DayRows]
<1>1. /\ at \in [Calls -> Labels] /\ arg \in [Calls -> Args] /\ grid \in [Employees -> Cells]
      /\ row \in [Employees -> DayRows]
  BY DEF IInv, Shapes, GInv
<1>2. ASSUME NEW e, NEW r, e \in Employees => r \in DayRows, row' = [row EXCEPT ![e] = r]
      PROVE  row' \in [Employees -> DayRows]
  BY <1>1, <1>2
<1>3. ASSUME NEW c \in Calls, Ensure(c) PROVE row' \in [Employees -> DayRows]
  <2>1. arg[c].ask.by \in Employees
    BY <1>1, <1>3 DEF Ensure, IInv, CallInv, AskIsOpen, Args, Requests
  <2>2. ASSUME NEW e \in Employees PROVE Ensured(e) \in DayRows
    <3>1. row[e] \in DayRows /\ EffectiveShift(e) \in Cells
      BY <1>1 DEF EffectiveShift, Cells
    <3> QED BY <3>1 DEF Ensured, DayRows
  <2> QED BY <1>2, <1>3, <2>1, <2>2 DEF Ensure
<1>4. ASSUME NEW e, NEW s \in {"left", "forgot_checkout"}, row' = [row EXCEPT ![e].status = s]
      PROVE  row' \in [Employees -> DayRows]
  <2>1. ASSUME e \in Employees PROVE [row[e] EXCEPT !.status = s] \in DayRows
    BY <1>1, <2>1 DEF DayRows
  <2> QED BY <1>2, <1>4, <2>1
<1>5. ASSUME NEW c \in Calls, Sync(c) PROVE row' \in [Employees -> DayRows]
  <2>1. Head(arg[c].todo) \in Tasks
    BY <1>1, <1>5 DEF Sync, IInv, CallInv, HasTask, Args
  <2>2. ASSUME NEW r \in DayRows, NEW s \in Cells PROVE Synced(r, s) \in DayRows
    BY DEF Synced, DayRows, Cells
  <2>3. row' = [row EXCEPT ![Head(arg[c].todo).who] =
                  Synced(row[Head(arg[c].todo).who], Head(arg[c].todo).shift)]
    BY <1>5 DEF Sync
  <2> QED BY <1>1, <1>2, <2>1, <2>2, <2>3 DEF Tasks
<1>6. ASSUME NEW e \in Employees, CheckIn(e) \/ CheckOut(e) \/ Forgotten(e)
      PROVE  row' \in [Employees -> DayRows]
  <2>1. CASE CheckIn(e)
    <3>1. [status |-> "in", checkIn |-> TRUE, checkOut |-> FALSE, shift |-> grid[e]] \in DayRows
      BY <1>1 DEF DayRows
    <3> QED BY <1>2, <2>1, <3>1 DEF CheckIn
  <2>2. CASE CheckOut(e)
    <3>1. row' = [row EXCEPT ![e] = [row[e] EXCEPT !.checkOut = TRUE, !.status = "left"]]
      BY <1>1, <2>2 DEF CheckOut, DayRows
    <3>2. ASSUME NEW r \in DayRows
          PROVE  [r EXCEPT !.checkOut = TRUE, !.status = "left"] \in DayRows
      BY DEF DayRows
    <3> QED BY <1>1, <1>2, <3>1, <3>2
  <2>3. CASE Forgotten(e) BY <1>4, <2>3 DEF Forgotten
  <2> QED BY <1>6, <2>1, <2>2, <2>3
<1>7. CASE UNCHANGED row BY <1>1, <1>7
<1>8. ASSUME NEW c \in Calls, Begin(c) PROVE UNCHANGED row
  BY <1>8 DEF Begin, Submit, SubmitExcuse, RespondRead, ReviewRead, ReviewExcuse,
              ApplyRead, ConfirmRead, SaveGrid
<1>9. ASSUME NEW c \in Calls, Step(c) \/ Crash(c)
      PROVE  UNCHANGED row \/ Ensure(c) \/ Effect(c) \/ Sync(c)
  BY <1>9 DEF Step, Crash, Conflict, ReadShifts, Create, CreateExcuse, RespondWrite,
              ReviewWrite, Swap, Mark, ConfirmWrite
<1>10. ASSUME NEW c \in Calls, Effect(c) PROVE row' \in [Employees -> DayRows]
  BY <1>4, <1>10 DEF Effect
<1> QED BY <1>3, <1>5, <1>6, <1>7, <1>8, <1>9, <1>10, Elsewhere

\* A call that begins has nothing to bring into line but what is in the grid.
LEMMA BeginTasks ==
  ASSUME IInv, NEW c \in Calls, Begin(c)
  PROVE  TaskIsRight(c)'
<1>1. /\ at \in [Calls -> Labels] /\ arg \in [Calls -> Args] /\ grid \in [Employees -> Cells]
  BY DEF IInv, Shapes
<1>2. ASSUME NEW next \in {"ensure", "excuse", "respond", "review", "swap", "idle"}, NEW args,
             Start(c, next, args)
      PROVE  TaskIsRight(c)'
  <2>1. at'[c] = next BY <1>1, <1>2 DEF Start
  <2> QED BY <2>1 DEF TaskIsRight
<1>3. ASSUME NEW i \in Ids, NEW m \in Managers, ConfirmRead(c, m, i) PROVE TaskIsRight(c)'
  <2>1. arg'[c].todo = <<[who |-> request[i].by, shift |-> request[i].to]>>
    BY <1>1, <1>3 DEF ConfirmRead, Start, NoArg
  <2>2. grid[request[i].by] = request[i].to /\ grid' = grid BY <1>3 DEF ConfirmRead
  <2> QED BY <2>1, <2>2 DEF TaskIsRight
<1>4. ASSUME NEW e \in Employees, NEW cell \in Cells, SaveGrid(c, e, cell) PROVE TaskIsRight(c)'
  <2>1. grid'[e] = cell BY <1>1, <1>4 DEF SaveGrid
  <2>2. CASE cell = None BY <1>2, <1>4, <2>2 DEF SaveGrid
  <2>3. CASE cell # None
    <3>1. arg'[c].todo = <<[who |-> e, shift |-> cell]>>
      BY <1>1, <1>4, <2>3 DEF SaveGrid, Start, NoArg
    <3> QED BY <2>1, <3>1 DEF TaskIsRight
  <2> QED BY <2>2, <2>3
<1>5. CASE \E e \in Employees, type \in Types \ {"late_excuse"}, other \in Employees \cup {None} :
             Submit(c, e, type, other)
  BY <1>2, <1>5 DEF Submit
<1>6. CASE \E e \in Employees : SubmitExcuse(c, e) BY <1>2, <1>6 DEF SubmitExcuse
<1>7. CASE \E i \in Ids, yes \in BOOLEAN :
             \/ RespondRead(c, i, yes)
             \/ \E m \in Managers : ReviewRead(c, m, i, yes) \/ ReviewExcuse(c, m, i, yes)
  BY <1>2, <1>7 DEF RespondRead, ReviewRead, ReviewExcuse
<1>8. CASE \E i \in Ids, m \in Managers : ApplyRead(c, m, i) \/ ConfirmRead(c, m, i)
  BY <1>2, <1>3, <1>8 DEF ApplyRead
<1> QED BY <1>4, <1>5, <1>6, <1>7, <1>8 DEF Begin

\* The two cells of a swap, as the transaction leaves them.
LEMMA SwapWrites ==
  ASSUME IInv, GInv, ~overlap, NEW c \in Calls, Swap(c)
  PROVE  LET r == request[arg[c].id] IN
         /\ r \in Requests /\ r.by \in Employees /\ r.other # r.by
         /\ grid' \in [Employees -> Cells] /\ grid'[r.by] = r.to
         /\ r.other \in Employees => grid'[r.other] = r.from
         /\ \A e \in Employees \ {r.by, r.other} : grid'[e] = grid[e]
         /\ at'[c] = "sync" /\ row' = row
         /\ arg'[c].todo = <<[who |-> r.by, shift |-> r.to], [who |-> r.other, shift |-> r.from]>>
<1> DEFINE r == request[arg[c].id]
<1>1. /\ at \in [Calls -> Labels] /\ arg \in [Calls -> Args] /\ grid \in [Employees -> Cells]
      /\ request \in [Ids -> Requests \cup {None}]
  BY DEF IInv, Shapes
<1>2. arg[c].id \in Made BY DEF Swap, IInv, CallInv, IdIsMade
<1>3. r \in Requests /\ r.other # r.by BY <1>1, <1>2 DEF Made, GInv
<1>4. r.by \in Employees /\ r.other \in Employees \cup {None} /\ r.to \in Cells /\ r.from \in Cells
  BY <1>3 DEF Requests
<1>5. /\ grid' = [grid EXCEPT ![r.by] = r.to, ![r.other] = r.from]
      /\ arg' = [arg EXCEPT ![c].todo = <<[who |-> r.by, shift |-> r.to],
                                          [who |-> r.other, shift |-> r.from]>>]
      /\ at' = [at EXCEPT ![c] = "sync"] /\ row' = row
  BY DEF Swap, GoOn
<1> HIDE DEF r
<1>6. arg'[c].todo = <<[who |-> r.by, shift |-> r.to], [who |-> r.other, shift |-> r.from]>>
  BY <1>1, <1>5 DEF Args
<1>7. /\ grid' \in [Employees -> Cells] /\ grid'[r.by] = r.to
      /\ r.other \in Employees => grid'[r.other] = r.from
      /\ \A e \in Employees \ {r.by, r.other} : grid'[e] = grid[e]
  BY <1>1, <1>3, <1>4, <1>5
<1>8. at'[c] = "sync" BY <1>1, <1>5
<1>9. /\ r \in Requests /\ r.by \in Employees /\ r.other # r.by
      /\ grid' \in [Employees -> Cells] /\ grid'[r.by] = r.to
      /\ r.other \in Employees => grid'[r.other] = r.from
      /\ \A e \in Employees \ {r.by, r.other} : grid'[e] = grid[e]
      /\ at'[c] = "sync" /\ row' = row
      /\ arg'[c].todo = <<[who |-> r.by, shift |-> r.to], [who |-> r.other, shift |-> r.from]>>
  BY <1>3, <1>4, <1>5, <1>6, <1>7, <1>8
<1> QED BY <1>9 DEF r

\* A list of one.
LEMMA LastTask ==
  ASSUME NEW s \in Seq(Tasks), s # <<>>, Tail(s) = <<>>
  PROVE  Len(s) = 1
<1>1. Len(Tail(s)) = Len(s) - 1 /\ Len(s) \in Nat OBVIOUS
<1>2. \A t : t = <<>> => Len(t) = 0 OBVIOUS
<1>3. Len(Tail(s)) = 0 BY <1>2, Zenon
<1> DEFINE n == Len(s)
<1>4. n \in Nat /\ n - 1 = 0 BY <1>1, <1>3, Zenon
<1> HIDE DEF n
<1>5. n = 1 BY <1>4
<1> QED BY <1>5 DEF n

\* A call that syncs a day goes on with those that are left.
LEMMA SyncTasks ==
  ASSUME IInv, NEW c \in Calls, Sync(c)
  PROVE  /\ arg[c].todo \in Seq(Tasks) /\ arg[c].todo # <<>> /\ grid' = grid
         /\ \/ Len(arg[c].todo) = 1 /\ at'[c] \in {"mark", "idle"}
            \/ at'[c] = "sync" /\ arg'[c].todo = Tail(arg[c].todo)
<1>1. /\ at \in [Calls -> Labels] /\ arg \in [Calls -> Args] BY DEF IInv, Shapes
<1>2. arg[c].todo \in Seq(Tasks) /\ arg[c].todo # <<>> /\ grid' = grid
  BY <1>1 DEF Sync, IInv, CallInv, HasTask, Args
<1>3. CASE Tail(arg[c].todo) # <<>>
  <2>1. at' = [at EXCEPT ![c] = "sync"] /\ arg' = [arg EXCEPT ![c].todo = Tail(arg[c].todo)]
    BY <1>3 DEF Sync, GoOn
  <2>2. at'[c] = "sync" /\ arg'[c].todo = Tail(arg[c].todo) BY <1>1, <2>1 DEF Args
  <2> QED BY <1>2, <2>2
<1>4. CASE Tail(arg[c].todo) = <<>>
  <2>1. at'[c] \in {"mark", "idle"} BY <1>1, <1>4 DEF Sync, GoOn, Return
  <2>2. Len(arg[c].todo) = 1 BY <1>2, <1>4, LastTask
  <2> QED BY <1>2, <2>1, <2>2
<1> QED BY <1>3, <1>4

\* A running call keeps in its hands only tasks that are in the grid.
LEMMA StepTasks ==
  ASSUME IInv, GInv, ~overlap, NEW c \in Calls, Step(c) \/ Crash(c)
  PROVE  TaskIsRight(c)'
<1>1. at \in [Calls -> Labels] /\ arg \in [Calls -> Args] BY DEF IInv, Shapes
<1>2. ASSUME at'[c] \notin {"sync", "confirm"} PROVE TaskIsRight(c)' BY <1>2 DEF TaskIsRight
<1>3. CASE Ensure(c) \/ Conflict(c) \/ ReadShifts(c) \/ Create(c) \/ CreateExcuse(c)
  BY <1>1, <1>2, <1>3 DEF Ensure, Conflict, ReadShifts, Create, CreateExcuse, GoOn, Return
<1>4. CASE RespondWrite(c) \/ ReviewWrite(c) \/ Effect(c) \/ Mark(c) \/ Crash(c)
  BY <1>1, <1>2, <1>4 DEF RespondWrite, ReviewWrite, Effect, Mark, Crash, GoOn, Return
<1>5. CASE ConfirmWrite(c)
  BY <1>1, <1>5 DEF ConfirmWrite, GInv, TaskIsRight
<1>6. CASE Swap(c)
  <2> DEFINE r == request[arg[c].id]
  <2>1. /\ grid'[r.by] = r.to /\ (r.other \in Employees => grid'[r.other] = r.from)
        /\ arg'[c].todo = <<[who |-> r.by, shift |-> r.to], [who |-> r.other, shift |-> r.from]>>
    BY <1>6, SwapWrites
  <2> HIDE DEF r
  <2> QED BY <2>1 DEF TaskIsRight
<1>7. CASE Sync(c)
  <2>1. /\ arg[c].todo \in Seq(Tasks) /\ arg[c].todo # <<>> /\ grid' = grid
        /\ \/ at'[c] \notin {"sync", "confirm"}
           \/ at'[c] = "sync" /\ arg'[c].todo = Tail(arg[c].todo)
    BY <1>7, SyncTasks
  <2>2. TaskIsRight(c) /\ at[c] = "sync" BY <1>7 DEF GInv, Sync
  <2>3. CASE arg'[c].todo = Tail(arg[c].todo)
    <3>1. ASSUME NEW t \in Seq(Tasks), t # <<>>, NEW k \in 1..Len(Tail(t))
          PROVE  k + 1 \in 1..Len(t) /\ Tail(t)[k] = t[k + 1]
      BY <3>1
    <3> QED BY <2>1, <2>2, <2>3, <3>1 DEF TaskIsRight
  <2> QED BY <1>2, <2>1, <2>3
<1> QED BY <1>3, <1>4, <1>5, <1>6, <1>7 DEF Step

LEMMA TasksStep ==
  ASSUME IInv, DInv, GInv, [Next]_vars, ~overlap, NEW c \in Calls
  PROVE  TaskIsRight(c)'
<1>1. CASE at[c] # "idle"
  <2>1. Step(c) \/ Crash(c) \/ UNCHANGED vars BY <1>1, RunsAlone
  <2>2. CASE UNCHANGED vars BY <2>2 DEF vars, GInv, TaskIsRight
  <2> QED BY <2>1, <2>2, StepTasks
<1>2. CASE at[c] = "idle"
  <2>1. CASE at'[c] = "idle" BY <2>1 DEF TaskIsRight
  <2>2. ASSUME NEW d \in Calls, Begin(d) \/ Step(d) \/ Crash(d) PROVE TaskIsRight(c)'
    <3>1. CASE d # c BY <1>2, <2>1, <2>2, <3>1, OneCallMoves
    <3>2. CASE d = c BY <1>2, <2>2, <3>2, BeginTasks, StepTasks
    <3> QED BY <3>1, <3>2
  <2>3. ASSUME NEW e \in Employees, CheckIn(e) \/ CheckOut(e) \/ Forgotten(e)
        PROVE  UNCHANGED at
    BY <2>3 DEF CheckIn, CheckOut, Forgotten, Others
  <2> QED BY <1>2, <2>1, <2>2, <2>3, Elsewhere DEF Others
<1> QED BY <1>1, <1>2

\* Rows and grid agree, except for the days that the running call has yet to do.
LEMMA FollowStep ==
  ASSUME IInv, DInv, GInv, [Next]_vars, Quiet, ~\E c \in Calls : Crash(c), NEW e \in Employees
  PROVE  Follows(e)' \/ Owed(e)'
<1>1. /\ at \in [Calls -> Labels] /\ arg \in [Calls -> Args] /\ grid \in [Employees -> Cells]
      /\ row \in [Employees -> DayRows] /\ ~overlap
  BY DEF IInv, Shapes, GInv, Quiet
<1>2. Follows(e) \/ Owed(e) BY DEF GInv
<1>3. ASSUME NEW c \in Calls, at[c] # "idle", at[c] # "sync" PROVE Follows(e)
  <2>1. \A d \in Calls : at[d] # "sync" BY <1>1, <1>3 DEF DInv, Alone
  <2> QED BY <1>2, <2>1 DEF Owed
<1>4. ASSUME MayStart PROVE Follows(e)
  BY <1>1, <1>2, <1>4 DEF MayStart, Owed
<1>5. ASSUME Follows(e), UNCHANGED <<row, grid>> PROVE Follows(e)'
  BY <1>5 DEF Follows
<1>6. ASSUME NEW c \in Calls, Begin(c) PROVE Follows(e)' \/ Owed(e)'
  <2>1. Follows(e) BY <1>1, <1>4, <1>6, BeginDecides DEF MayStart
  <2>2. ASSUME NEW f \in Employees, NEW cell \in Cells, SaveGrid(c, f, cell)
        PROVE  Follows(e)' \/ Owed(e)'
    <3>1. grid' = [grid EXCEPT ![f] = cell] /\ row' = row BY <2>2 DEF SaveGrid
    <3>2. CASE e # f BY <1>1, <2>1, <3>1, <3>2 DEF Follows
    <3>3. CASE e = f /\ cell = None BY <1>1, <3>1, <3>3 DEF Follows
    <3>4. CASE e = f /\ cell # None
      <4>1. at'[c] = "sync" /\ arg'[c].todo = <<[who |-> f, shift |-> cell]>>
        BY <1>1, <2>2, <3>4 DEF SaveGrid, Start, NoArg
      <4>2. 1 \in 1..Len(arg'[c].todo) /\ arg'[c].todo[1].who = e BY <3>4, <4>1
      <4> QED BY <4>1, <4>2 DEF Owed
    <3> QED BY <3>2, <3>3, <3>4
  <2>3. ASSUME ~\E f \in Employees, cell \in Cells : SaveGrid(c, f, cell)
        PROVE  UNCHANGED <<row, grid>>
    BY <1>6, <2>3 DEF Begin, Submit, SubmitExcuse, RespondRead, ReviewRead, ReviewExcuse,
                      ApplyRead, ConfirmRead
  <2> QED BY <1>5, <2>1, <2>2, <2>3
<1>7. ASSUME NEW c \in Calls, Step(c) PROVE Follows(e)' \/ Owed(e)'
  <2>1. CASE UNCHANGED <<row, grid>> /\ at[c] \notin {"idle", "sync"} BY <1>3, <1>5, <2>1
  <2>2. CASE Ensure(c)
    <3>1. Follows(e) /\ grid' = grid BY <1>3, <2>2 DEF Ensure
    <3>2. row'[e] = row[e] \/ row'[e] = Ensured(e) BY <1>1, <2>2 DEF Ensure
    <3>3. grid[e] # None /\ Ensured(e).checkIn => Ensured(e) = row[e] \/ Ensured(e).shift = grid[e]
      BY <1>1 DEF Ensured, EffectiveShift, DayRows
    <3> QED BY <3>1, <3>2, <3>3 DEF Follows
  <2>3. CASE Effect(c)
    <3>1. Follows(e) /\ grid' = grid BY <1>3, <2>3 DEF Effect
    <3>2. row'[e] = row[e] \/ row'[e] = [row[e] EXCEPT !.status = "left"]
      BY <1>1, <2>3 DEF Effect
    <3>3. row'[e].checkIn = row[e].checkIn /\ row'[e].shift = row[e].shift
      BY <1>1, <3>2 DEF DayRows
    <3> QED BY <3>1, <3>3 DEF Follows
  <2>4. CASE Swap(c)
    <3> DEFINE r == request[arg[c].id]
    <3>1. /\ \A f \in Employees \ {r.by, r.other} : grid'[f] = grid[f]
          /\ at'[c] = "sync" /\ row' = row
          /\ arg'[c].todo = <<[who |-> r.by, shift |-> r.to], [who |-> r.other, shift |-> r.from]>>
      BY <1>1, <2>4, SwapWrites
    <3>2. Follows(e) BY <1>3, <2>4 DEF Swap
    <3> HIDE DEF r
    <3>3. CASE e \in {r.by, r.other}
      <4>1. /\ 1 \in 1..Len(arg'[c].todo) /\ arg'[c].todo[1].who = r.by
            /\ 2 \in 1..Len(arg'[c].todo) /\ arg'[c].todo[2].who = r.other
        BY <3>1
      <4> QED BY <3>1, <3>3, <4>1 DEF Owed
    <3>4. CASE e \notin {r.by, r.other} BY <3>1, <3>2, <3>4 DEF Follows
    <3> QED BY <3>3, <3>4
  <2>5. CASE Sync(c)
    <3> DEFINE t == arg[c].todo
    <3>1. /\ t \in Seq(Tasks) /\ t # <<>> /\ grid' = grid
          /\ \/ Len(t) = 1
             \/ at'[c] = "sync" /\ arg'[c].todo = Tail(t)
      BY <2>5, SyncTasks
    <3>2. row' = [row EXCEPT ![t[1].who] = Synced(row[t[1].who], t[1].shift)]
      BY <3>1, <2>5 DEF Sync
    <3>3. t[1].who = e => t[1].shift = grid[e]
      BY <1>1, <2>5, <3>1 DEF Sync, GInv, TaskIsRight
    <3>4. Owed(e) => \E k \in 1..Len(t) : t[k].who = e
      BY <1>1, <2>5 DEF Sync, Owed, DInv, Alone
    <3>5. CASE t[1].who = e
      <4>1. row'[e] = Synced(row[e], grid[e]) BY <1>1, <3>2, <3>3, <3>5
      <4>2. row'[e].checkIn => row'[e].shift = grid[e]
        <5>1. ASSUME NEW x \in DayRows, NEW g, Synced(x, g).checkIn PROVE Synced(x, g).shift = g
          BY <5>1 DEF Synced, DayRows
        <5> QED BY <1>1, <4>1, <5>1
      <4> QED BY <3>1, <4>2 DEF Follows
    <3>6. CASE t[1].who # e
      <4>1. row'[e] = row[e] BY <1>1, <3>2, <3>6
      <4>2. CASE Follows(e) BY <3>1, <4>1, <4>2 DEF Follows
      <4>3. CASE Owed(e)
        <5>1. PICK k \in 1..Len(t) : t[k].who = e BY <3>4, <4>3
        <5>2. k # 1 BY <3>6, <5>1
        <5>3. ASSUME NEW s \in Seq(Tasks), s # <<>>, NEW n \in 1..Len(s), n # 1
              PROVE  n - 1 \in 1..Len(Tail(s)) /\ Tail(s)[n - 1] = s[n]
          BY <5>3
        <5>4. k - 1 \in 1..Len(Tail(t)) /\ Tail(t)[k - 1].who = e BY <3>1, <5>1, <5>2, <5>3
        <5>5. Len(t) # 1 BY <5>1, <5>2
        <5> QED BY <3>1, <5>4, <5>5 DEF Owed
      <4> QED BY <1>2, <4>2, <4>3
    <3> QED BY <3>5, <3>6
  <2>6. CASE Conflict(c) \/ ReadShifts(c) \/ Create(c) \/ CreateExcuse(c) \/ RespondWrite(c)
             \/ ReviewWrite(c) \/ Mark(c) \/ ConfirmWrite(c)
    BY <2>1, <2>6 DEF Conflict, ReadShifts, Create, CreateExcuse, RespondWrite, ReviewWrite,
                      Mark, ConfirmWrite
  <2> QED BY <1>7, <2>2, <2>3, <2>4, <2>5, <2>6 DEF Step
<1>8. ASSUME NEW f \in Employees, CheckIn(f) \/ CheckOut(f) \/ Forgotten(f) PROVE Follows(e)'
  <2>1. Follows(e) /\ grid' = grid BY <1>4, <1>8 DEF CheckIn, CheckOut, Forgotten, Others
  <2>2. CASE CheckIn(f)
    <3>1. row'[e] = row[e] \/ row'[e].shift = grid[e] BY <1>1, <2>2 DEF CheckIn
    <3> QED BY <2>1, <3>1 DEF Follows
  <2>3. CASE CheckOut(f) \/ Forgotten(f)
    <3>1. row'[e].checkIn = row[e].checkIn /\ row'[e].shift = row[e].shift
      BY <1>1, <2>3 DEF CheckOut, Forgotten, DayRows
    <3> QED BY <2>1, <3>1 DEF Follows
  <2> QED BY <1>8, <2>2, <2>3
<1>9. CASE UNCHANGED row /\ UNCHANGED Others
  BY <1>2, <1>5, <1>9 DEF Others, Owed
<1> QED BY <1>6, <1>7, <1>8, <1>9, Elsewhere

LEMMA GridStep == ASSUME IInv, DInv, MInv, GInv, [Next]_vars PROVE GInv'
<1>1. /\ overlap' = overlap /\ (crashes' = 0 => crashes = 0)
      /\ \A c \in Calls : Crash(c) => crashes' # 0
  BY CrashesCount DEF MInv
<1>2. Quiet' => \A e \in Employees : Follows(e)' \/ Owed(e)'
  BY <1>1, FollowStep DEF Quiet
<1> QED BY <1>1, <1>2, RowTypes, TwoStep, TasksStep DEF GInv

(* For any number of calls, employees, managers and requests: when calls   *)
(* do not overlap and none has died, the days that have begun stand under  *)
(* the shifts of the grid, after any saves, swaps and confirmations.       *)
THEOREM GridIsFollowed == Spec => []RowsFollowGrid
<1>1. Init => IInv /\ DInv /\ MInv /\ GInv
  <2>1. ASSUME Init PROVE row \in [Employees -> DayRows] /\ \A e \in Employees : ~row[e].checkIn
    BY <2>1 DEF Init, NoRow, DayRows, Cells
  <2> QED BY <2>1, InitIInv DEF Init, DInv, Alone, Deciding, MInv, GInv, Asking, Made, TaskIsRight,
                                Follows
<1>2. IInv /\ DInv /\ MInv /\ GInv /\ [Next]_vars => (IInv /\ DInv /\ MInv /\ GInv)'
  BY StepKeeps, DecidesStep, SwapStep, GridStep
<1>3. GInv => RowsFollowGrid BY DEF GInv, Quiet, RowsFollowGrid, Idle, Follows, Owed
<1> QED BY <1>1, <1>2, <1>3, PTL DEF Spec

-------------------------------------------------------------------------------
(* Nothing is created that was not offered.                                *)

\* What a call that is about to create has checked of the day still holds.
Offered(c) ==
  LET ask == arg[c].ask IN
  /\ at[c] = "create" =>
       /\ ask.type \in Types \ {"late_excuse"}
       /\ ask.type = "forgot_checkout" => row[ask.by].status = "forgot_checkout"
       /\ ask.type = "shift_swap" => CanSwap(ask.by, ask.other)
       /\ ask.type = "overtime" => OvertimeAllowed(ask.by)
  /\ at[c] \in {"ensure", "conflict", "shifts"} => ask.type # "late_excuse"
  /\ at[c] \in {"conflict", "shifts"} => ask.type = "shift_swap"

FInv == ~overlap => \A c \in Calls : Offered(c)

\* A call that begins asks for anything but an excuse, which has a handler of its own.
LEMMA BeginOffered ==
  ASSUME IInv, NEW c \in Calls, Begin(c)
  PROVE  Offered(c)'
<1>1. at \in [Calls -> Labels] /\ arg \in [Calls -> Args] BY DEF IInv, Shapes
<1>2. ASSUME NEW e \in Employees, NEW type \in Types \ {"late_excuse"}, NEW other,
             Submit(c, e, type, other)
      PROVE  Offered(c)'
  <2>1. at'[c] = "ensure" /\ arg'[c].ask = Asked(e, type, other)
    BY <1>1, <1>2 DEF Submit, Start, NoArg
  <2>2. arg'[c].ask.type = type BY <2>1 DEF Asked
  <2> QED BY <2>1, <2>2 DEF Offered
<1>3. ASSUME NEW next \in {"excuse", "respond", "review", "swap", "confirm", "sync", "idle"},
             NEW args, Start(c, next, args)
      PROVE  Offered(c)'
  <2>1. at'[c] = next BY <1>1, <1>3 DEF Start
  <2> QED BY <2>1 DEF Offered
<1>4. CASE \E e \in Employees : SubmitExcuse(c, e) BY <1>3, <1>4 DEF SubmitExcuse
<1>5. CASE \E i \in Ids, yes \in BOOLEAN :
             \/ RespondRead(c, i, yes)
             \/ \E m \in Managers : ReviewRead(c, m, i, yes) \/ ReviewExcuse(c, m, i, yes)
  BY <1>3, <1>5 DEF RespondRead, ReviewRead, ReviewExcuse
<1>6. CASE \E i \in Ids, m \in Managers : ApplyRead(c, m, i) \/ ConfirmRead(c, m, i)
  BY <1>3, <1>6 DEF ApplyRead, ConfirmRead
<1>7. CASE \E e \in Employees, cell \in Cells : SaveGrid(c, e, cell)
  BY <1>3, <1>7 DEF SaveGrid
<1> QED BY <1>2, <1>4, <1>5, <1>6, <1>7 DEF Begin

\* A call goes on to create what it has checked against the row and the grid.
LEMMA StepOffered ==
  ASSUME IInv, GInv, NEW c \in Calls, Offered(c), Step(c) \/ Crash(c)
  PROVE  Offered(c)'
<1>1. /\ at \in [Calls -> Labels] /\ arg \in [Calls -> Args] /\ grid \in [Employees -> Cells]
      /\ row \in [Employees -> DayRows]
  BY DEF IInv, Shapes, GInv
<1>2. ASSUME ~Asking(c)' PROVE Offered(c)' BY <1>2 DEF Offered, Asking
<1>3. CASE Ensure(c)
  <2> DEFINE ask == arg[c].ask
  <2>1. ask \in Requests /\ ask.by \in Employees /\ ask.type \in Types
    BY <1>1, <1>3 DEF Ensure, IInv, CallInv, AskIsOpen, Args, Requests
  <2>2. ask.type # "late_excuse" /\ grid' = grid BY <1>3 DEF Ensure, Offered
  <2>3. row'[ask.by] = Ensured(ask.by) BY <1>1, <1>3, <2>1 DEF Ensure
  <2>4. CASE at'[c] = "idle" BY <1>2, <2>4 DEF Asking
  <2>5. CASE at'[c] # "idle"
    <3>1. /\ Allowed(ask) /\ arg' = arg
          /\ at'[c] = IF ask.type = "shift_swap" THEN "conflict" ELSE "create"
      BY <1>1, <1>3, <2>5 DEF Ensure, GoOn, Return
    <3>2. /\ ask.type = "forgot_checkout" => row'[ask.by].status = "forgot_checkout"
          /\ ask.type = "overtime" => OvertimeAllowed(ask.by)
      BY <2>3, <3>1 DEF Allowed
    <3>3. arg'[c].ask = ask BY <3>1
    <3> HIDE DEF ask
    <3> QED BY <2>1, <2>2, <3>1, <3>2, <3>3 DEF Offered, OvertimeAllowed
  <2> QED BY <2>4, <2>5
<1>4. CASE Conflict(c)
  <2>1. at'[c] = "idle" \/ (at'[c] = "shifts" /\ arg' = arg)
    BY <1>1, <1>4 DEF Conflict, GoOn, Return
  <2> QED BY <1>4, <2>1 DEF Conflict, Offered
<1>5. CASE ReadShifts(c)
  <2> DEFINE ask == arg[c].ask
  <2>1. CASE Asking(c)'
    <3>1. /\ arg'[c].ask.by = ask.by /\ arg'[c].ask.type = ask.type /\ arg'[c].ask.other = ask.other
      BY <1>5, <2>1, AskGoesOn DEF Step
    <3>2. /\ {grid[ask.by], grid[ask.other]} \subseteq Shifts /\ grid[ask.by] # grid[ask.other]
          /\ at'[c] = "create" /\ grid' = grid
      BY <1>1, <1>5, <2>1 DEF ReadShifts, GoOn, Return, Asking
    <3>3. ask.other # ask.by /\ ask.type = "shift_swap"
      BY <1>5 DEF ReadShifts, GInv, Asking, Offered
    <3> HIDE DEF ask
    <3> QED BY <3>1, <3>2, <3>3 DEF Offered, CanSwap, Types
  <2> QED BY <1>2, <2>1
<1>6. CASE Create(c) \/ CreateExcuse(c) \/ Swap(c) \/ Sync(c)
  BY <1>1, <1>2, <1>6 DEF Create, CreateExcuse, Swap, Sync, GoOn, Return, Asking
<1>7. CASE RespondWrite(c) \/ ReviewWrite(c) \/ Effect(c) \/ Mark(c) \/ ConfirmWrite(c) \/ Crash(c)
  BY <1>1, <1>2, <1>7 DEF RespondWrite, ReviewWrite, Effect, Mark, ConfirmWrite, Crash, GoOn,
                          Return, Asking
<1> QED BY <1>3, <1>4, <1>5, <1>6, <1>7 DEF Step

LEMMA OfferStep == ASSUME IInv, DInv, GInv, FInv, [Next]_vars PROVE FInv'
<1>1. overlap' = overlap
  BY OneCallMoves DEF Next, CheckIn, CheckOut, Forgotten, Midnight, Others, vars
<1> SUFFICES ASSUME ~overlap, NEW c \in Calls PROVE Offered(c)'
  BY <1>1 DEF FInv
<1>2. CASE at[c] # "idle"
  <2>1. Step(c) \/ Crash(c) \/ UNCHANGED vars BY <1>2, RunsAlone
  <2>2. CASE UNCHANGED vars
    BY <2>2 DEF vars, FInv, Offered, CanSwap, OvertimeAllowed
  <2> QED BY <2>1, <2>2, StepOffered DEF FInv
<1>3. CASE at[c] = "idle"
  <2>1. CASE at'[c] = "idle" BY <2>1 DEF Offered
  <2>2. ASSUME NEW d \in Calls, Begin(d) \/ Step(d) \/ Crash(d) PROVE Offered(c)'
    <3>1. CASE d # c BY <1>3, <2>1, <2>2, <3>1, OneCallMoves
    <3>2. CASE d = c BY <1>3, <2>2, <3>2, BeginOffered, StepOffered DEF FInv
    <3> QED BY <3>1, <3>2
  <2>3. ASSUME NEW e \in Employees, CheckIn(e) \/ CheckOut(e) \/ Forgotten(e)
        PROVE  UNCHANGED at
    BY <2>3 DEF CheckIn, CheckOut, Forgotten, Others
  <2> QED BY <1>3, <2>1, <2>2, <2>3, Elsewhere DEF Others
<1> QED BY <1>2, <1>3

(* For any number of calls, employees, managers and requests, with calls   *)
(* that die: when calls do not overlap, no request is created that the     *)
(* employee's views did not offer when it is created.                      *)
THEOREM CreatedWasOffered == Spec => OnlyOfferedIsCreated
<1>1. Init => IInv /\ DInv /\ UInv /\ MInv /\ GInv /\ FInv
  <2>1. ASSUME Init PROVE row \in [Employees -> DayRows] /\ \A e \in Employees : ~row[e].checkIn
    BY <2>1 DEF Init, NoRow, DayRows, Cells
  <2>2. Init => UInv BY DEF Init, UInv, Made, StillFree, Asking
  <2>3. Init => FInv BY DEF Init, FInv, Offered
  <2> QED BY <2>1, <2>2, <2>3, InitIInv DEF Init, DInv, Alone, Deciding, MInv, GInv, Asking, Made,
                                            TaskIsRight, Follows
<1>2. IInv /\ DInv /\ UInv /\ MInv /\ GInv /\ FInv /\ [Next]_vars =>
        (IInv /\ DInv /\ UInv /\ MInv /\ GInv /\ FInv)'
  BY StepKeeps, DecidesStep, UniqueStep, SwapStep, GridStep, OfferStep
<1>3. ASSUME IInv, UInv, FInv, ~overlap, NEW c \in Calls, Create(c)
      PROVE  LET ask == arg[c].ask IN
             /\ ask.type \in CanSubmit(ask.by)
             /\ ask.type = "shift_swap" => CanSwap(ask.by, ask.other)
             /\ ask.type = "overtime" => OvertimeTargets(ask.by) # {}
  <2> DEFINE ask == arg[c].ask
  <2>1. /\ ask.type \in Types \ {"late_excuse"}
        /\ ask.type = "forgot_checkout" => row[ask.by].status = "forgot_checkout"
        /\ ask.type = "shift_swap" => CanSwap(ask.by, ask.other)
        /\ ask.type = "overtime" => OvertimeAllowed(ask.by)
    BY <1>3 DEF Create, FInv, Offered
  <2>2. ask.type \notin ActiveTypes(ask.by)
    BY <1>3 DEF Create, UInv, StillFree, Asking, ActiveTypes
  <2>3. ask.type = "overtime" => OvertimeTargets(ask.by) # {}
    BY <2>1 DEF OvertimeAllowed, OvertimeTargets
  <2>4. ask.type \in CanSubmit(ask.by) BY <2>1, <2>2 DEF CanSubmit, Types
  <2> QED BY <2>1, <2>3, <2>4
<1>4. IInv /\ UInv /\ FInv /\ [Next]_vars =>
        [\A c \in Calls :
           LET ask == arg[c].ask IN
           Create(c) /\ ~overlap =>
             /\ ask.type \in CanSubmit(ask.by)
             /\ ask.type = "shift_swap" => CanSwap(ask.by, ask.other)
             /\ ask.type = "overtime" => OvertimeTargets(ask.by) # {}]_vars
  BY <1>3
<1> QED BY <1>1, <1>2, <1>4, PTL DEF Spec, OnlyOfferedIsCreated
==============================================================================
