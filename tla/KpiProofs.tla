------------------------------- MODULE KpiProofs -------------------------------
(***************************************************************************)
(* Proofs about KpiRules, DayScore and Ranking: the points of a check-in   *)
(* and the rules they come from, the score of a day, and what becomes of   *)
(* it at the end of the month.                                             *)
(***************************************************************************)
EXTENDS DayScore, Ranking, KpiRules, FiniteSetTheorems, TLAPS

(***************************************************************************)
(* What holds of DayScore for every number of calls, managers, shifts and  *)
(* instants: its types, the limits of the adjustment and who may change    *)
(* it, that a day with a check-in is scored, and that no bonus is lost     *)
(* to calls of another kind, under any overlap of requests; and, when      *)
(* requests do not overlap, the total and the points.                      *)
(***************************************************************************)
Args == [cell : Shifts \cup {Off, None}, time : Times \cup {None},
         out : BOOLEAN, by : Managers \cup {None}, bonus : Int]

CallStates == {"idle", "checkin", "sync", "recalc", "heal", "count", "adjust",
               "support", "delete", "forgot", "close"}

Sights == [row : Rows, score : Scores, gone : BOOLEAN]

\* What a call knows when it is about to write.
CallOK(c) ==
  /\ at[c] = "checkin" => arg[c].cell \in Shifts /\ arg[c].time \in Times
  /\ at[c] = "recalc" => arg[c].cell \in Shifts /\ seen[c].row.checkIn \in Times
  /\ at[c] = "heal" =>
       arg[c].cell \in Shifts \cup {None} /\ seen[c].row.checkIn \in Times
  /\ at[c] \in Adjusting => arg[c].by \in Managers /\ seen[c].score.exists
  /\ at[c] = "adjust" =>
       seen[c].score.adjust + arg[c].bonus \in -MaxAdjust..MaxAdjust
  /\ at[c] = "support" => arg[c].time \in Times

\* A row, what it has and what its score has.
Whole(r, s) ==
  /\ s.exists = (r.checkIn # None)
  /\ r.checkIn # None => r.status # "none"

\* What a call has seen is still there, unless it was deleted.
SeenOK(c) ==
  /\ Whole(seen[c].row, seen[c].score)
  /\ seen[c].row.status # "none" /\ ~seen[c].gone =>
       row.status # "none" /\ (seen[c].score.exists => score.exists)

\* Without a score there is no adjustment.
DayOK == Whole(row, score) /\ (~score.exists => score.adjust = 0)

\* The inductive invariant.
DInv == TypeOK /\ (\A c \in Calls : CallOK(c) /\ SeenOK(c)) /\ DayOK /\ AdjustmentInRange

\* A step that deletes nothing.
NothingGone ==
  /\ row.status # "none" => row'.status # "none"
  /\ score.exists => score'.exists
------------------------------------------------------------------------------
\* A day without a row.
LEMMA NothingYet ==
  /\ Whole(NoRow, NoScore) /\ NoRow.status = "none" /\ NoRow.checkIn = None
  /\ ~NoScore.exists /\ NoScore.adjust = 0 /\ NoScore.total = 0 /\ NoScore.points = 0
  /\ Unseen.row = NoRow /\ Unseen.score = NoScore
<1>1. NoRow.checkIn = None /\ NoScore.exists = FALSE /\ NoRow.status = "none"
  BY DEF NoRow, NoScore
<1>2. Whole(NoRow, NoScore)
  BY <1>1 DEF Whole
<1> QED BY <1>1, <1>2 DEF NoScore, Unseen

\* A call that reads, ends or goes on knows what is there.
LEMMA SeenStays ==
  ASSUME TypeOK, \A d \in Calls : SeenOK(d), DayOK, NothingGone, NEW c \in Calls,
         \/ seen' = seen
         \/ seen' = [seen EXCEPT ![c] = Unseen]
         \/ seen' = [seen EXCEPT ![c] = [row |-> row, score |-> score, gone |-> FALSE]]
  PROVE  \A d \in Calls : SeenOK(d)'
<1> SUFFICES ASSUME NEW d \in Calls PROVE SeenOK(d)'
  OBVIOUS
<1>0. seen \in [Calls -> Sights]
  BY DEF TypeOK, Sights
<1>1. CASE seen'[d] = seen[d]
  BY <1>1 DEF SeenOK, NothingGone
<1>2. CASE seen'[d] = Unseen
  BY <1>2, NothingYet DEF SeenOK
<1>3. CASE seen'[d] = [row |-> row, score |-> score, gone |-> FALSE]
  <2>1. seen'[d].row = row /\ seen'[d].score = score /\ ~seen'[d].gone
    BY <1>3
  <2> QED BY <2>1 DEF SeenOK, DayOK, Whole, NothingGone
<1> QED BY <1>0, <1>1, <1>2, <1>3

(* Reading: the call's locals keep their types, the others are untouched.  *)
LEMMA ReadLocals ==
  ASSUME DInv, NEW c \in Calls, NEW write, NEW args \in Args,
         Read(c, write, args),
         write \in {"checkin", "sync", "heal", "count", "support", "delete", "forgot", "close"},
         write = "checkin" => args.cell \in Shifts /\ args.time \in Times,
         write = "heal" => args.cell \in Shifts \cup {None} /\ row.checkIn \in Times,
         write = "count" => args.by \in Managers /\ score.exists,
         write = "support" => args.time \in Times,
         UNCHANGED <<row, score, given>>, grid' \in Shifts \cup {Off, None}
  PROVE  DInv' /\ score'.adjust = score.adjust
<1>0. TypeOK /\ (\A d \in Calls : CallOK(d) /\ SeenOK(d)) /\ DayOK /\ NothingGone
  BY DEF DInv, NothingGone
<1>1. /\ at' \in [Calls -> CallStates]
      /\ arg' \in [Calls -> Args]
      /\ seen' \in [Calls -> Sights]
      /\ made' \in Nat /\ phase' = phase /\ overlap' = overlap /\ crossed' \in BOOLEAN
  BY <1>0 DEF TypeOK, Read, Args, CallStates, Sights
<1>2. ASSUME NEW d \in Calls PROVE CallOK(d)'
  <2>1. CASE d = c
    BY <1>0, <2>1 DEF TypeOK, Read, CallOK, Adjusting
  <2>2. CASE d # c
    BY <1>0, <2>2 DEF TypeOK, Read, CallOK
  <2> QED BY <2>1, <2>2
<1>3. \A d \in Calls : SeenOK(d)'
  BY <1>0, SeenStays DEF Read
<1>4. TypeOK'
  BY <1>0, <1>1 DEF TypeOK, given, Args, CallStates, Sights
<1> QED BY <1>0, <1>2, <1>3, <1>4 DEF DInv, DayOK, Whole, AdjustmentInRange

(* Returning: the call forgets its locals.                                 *)
LEMMA ReturnLocals ==
  ASSUME DInv, NEW c \in Calls, Return(c), grid' = grid,
         row' \in Rows, score' \in Scores, NothingGone, DayOK', AdjustmentInRange',
         evals' \in [Managers -> Nat], counted' \in [Managers -> Nat], bonusSum' \in Int
  PROVE  DInv'
<1>0. TypeOK /\ (\A d \in Calls : CallOK(d) /\ SeenOK(d)) /\ DayOK
  BY DEF DInv
<1>1. NoArg \in Args /\ Unseen \in Sights
  BY DEF NoArg, Unseen, NoRow, NoScore, Rows, Scores, Args, Statuses, Sights
<1>2. /\ at' \in [Calls -> CallStates]
      /\ arg' \in [Calls -> Args]
      /\ seen' \in [Calls -> Sights]
      /\ made' = made /\ phase' = phase /\ overlap' = overlap /\ crossed' = crossed
  BY <1>0, <1>1 DEF TypeOK, Return, Args, CallStates, Sights
<1>3. ASSUME NEW d \in Calls PROVE CallOK(d)'
  <2>1. CASE d = c
    BY <1>0, <2>1 DEF TypeOK, Return, CallOK, Adjusting
  <2>2. CASE d # c
    BY <1>0, <2>2 DEF TypeOK, Return, CallOK
  <2> QED BY <2>1, <2>2
<1>4. \A d \in Calls : SeenOK(d)'
  BY <1>0, SeenStays DEF Return
<1>5. TypeOK'
  BY <1>0, <1>2 DEF TypeOK, Args, CallStates, Sights
<1> QED BY <1>3, <1>4, <1>5 DEF DInv

(* An upsert of the score keeps the adjustment.                            *)
LEMMA UpsertKeeps ==
  ASSUME TypeOK, DayOK, NEW s \in Shifts \cup {Off}, NEW t \in Times,
         NEW a \in Int, UpsertScore(s, t, a)
  PROVE  /\ score' \in Scores
         /\ score'.adjust = score.adjust
         /\ score'.exists
         /\ score'.points = Points[s][t]
         /\ score.exists => score'.total = Points[s][t] + a
         /\ ~score.exists => score'.total = Points[s][t]
<1>1. Points[s][t] \in Int
  BY ScoreAssumption
<1>2. score \in [exists : BOOLEAN, points : Int, adjust : Int, total : Int]
  BY DEF TypeOK, Scores
<1>3. CASE score.exists
  <2>1. score' = [score EXCEPT !.points = Points[s][t], !.total = Points[s][t] + a]
    BY <1>3 DEF UpsertScore
  <2>2. score' \in Scores
    <3>1. ASSUME NEW r \in Scores, NEW p \in Int, NEW q \in Int
          PROVE  [r EXCEPT !.points = p, !.total = q] \in Scores
      BY DEF Scores
    <3>2. score \in Scores /\ Points[s][t] + a \in Int
      BY <1>1, <1>2 DEF Scores
    <3> QED BY <1>1, <2>1, <3>1, <3>2
  <2>3. score'.adjust = score.adjust /\ score'.exists = score.exists
    BY <1>2, <2>1
  <2>4. score'.points = Points[s][t] /\ score'.total = Points[s][t] + a
    BY <1>2, <2>1
  <2> QED BY <1>3, <2>2, <2>3, <2>4
<1>4. CASE ~score.exists
  <2>1. score' = [exists |-> TRUE, points |-> Points[s][t], adjust |-> 0,
                  total |-> Points[s][t]]
    BY <1>4 DEF UpsertScore
  <2> QED BY <1>1, <1>2, <1>4, <2>1 DEF Scores, DayOK
<1> QED BY <1>3, <1>4

\* What a row in use may say.
InUse == Statuses \ {"none"}

(* The status a check-in gets is a status.                                 *)
LEMMA CheckInStatusOK ==
  ASSUME NEW s \in Shifts \cup {Off}, NEW t \in Times
  PROVE  CheckInStatus(s, t) \in InUse /\ Lateness[s][t] \in Nat
BY ScoreAssumption DEF CheckInStatus, Statuses, InUse

\* Row r has status st and check-in t.
Shows(r, st, t) == r \in Rows /\ r.status = st /\ r.checkIn = t

(* What the calls write into a row.                                        *)
LEMMA RowCheckedIn ==
  ASSUME NEW r \in Rows, NEW t \in Times, NEW s \in Shifts \cup {Off},
         NEW l \in Nat, NEW st \in InUse
  PROVE  Shows([r EXCEPT !.checkIn = t, !.shift = s, !.late = l, !.status = st], st, t)
BY DEF Rows, InUse, Shows

LEMMA RowScored ==
  ASSUME NEW r \in Rows, NEW s \in Shifts \cup {Off}, NEW l \in Nat, NEW st \in InUse
  PROVE  Shows([r EXCEPT !.shift = s, !.late = l, !.status = st], st, r.checkIn)
BY DEF Rows, InUse, Shows

LEMMA RowTidied ==
  ASSUME NEW r \in Rows, NEW l \in Nat, NEW st \in InUse
  PROVE  Shows([r EXCEPT !.status = st, !.late = l], st, r.checkIn)
BY DEF Rows, InUse, Shows

LEMMA RowCorrected ==
  ASSUME NEW r \in Rows, NEW t \in Times, NEW o \in BOOLEAN, NEW l \in Nat,
         NEW st \in InUse
  PROVE  Shows([r EXCEPT !.checkIn = t, !.checkOut = o, !.late = l, !.status = st], st, t)
BY DEF Rows, InUse, Shows

LEMMA RowClosed ==
  ASSUME NEW r \in Rows, NEW st \in InUse
  PROVE  Shows([r EXCEPT !.checkOut = TRUE, !.status = st], st, r.checkIn)
BY DEF Rows, InUse, Shows

LEMMA RowStatus ==
  ASSUME NEW r \in Rows, NEW st \in InUse
  PROVE  Shows([r EXCEPT !.status = st], st, r.checkIn)
BY DEF Rows, InUse, Shows

LEMMA RowShift ==
  ASSUME NEW r \in Rows, NEW s \in Shifts \cup {Off}
  PROVE  Shows([r EXCEPT !.shift = s], r.status, r.checkIn)
BY DEF Rows, InUse, Shows

LEMMA RowEnsured ==
  ASSUME NEW r \in Rows, NEW st \in InUse, NEW s \in Shifts \cup {Off}
  PROVE  Shows([r EXCEPT !.status = st, !.shift = s], st, r.checkIn)
BY DEF Rows, InUse, Shows

LEMMA RowScanned ==
  ASSUME NEW r \in Rows, NEW st \in InUse, NEW s \in Shifts \cup {Off}, NEW o \in BOOLEAN
  PROVE  Shows([r EXCEPT !.status = st, !.shift = s, !.checkOut = o], st, r.checkIn)
BY DEF Rows, InUse, Shows
------------------------------------------------------------------------------
(* The invariant holds at the start.                                       *)
LEMMA InitDInv == Init => DInv
<1> SUFFICES ASSUME Init PROVE DInv
  OBVIOUS
<1>1. /\ NoRow \in Rows /\ NoScore \in Scores /\ NoArg \in Args
      /\ Unseen \in Sights
  BY DEF NoRow, NoScore, NoArg, Unseen, Rows, Scores, Statuses, Args, Sights
<1>2. TypeOK
  <2>1. phase \in {"dawn", "day", "past"} /\ overlap \in BOOLEAN /\ crossed \in BOOLEAN
    BY DEF Init
  <2>2. arg \in [Calls -> Args] /\ seen \in [Calls -> Sights]
    BY <1>1 DEF Init
  <2>3. /\ grid \in Shifts \cup {Off, None} /\ row \in Rows /\ score \in Scores
        /\ evals \in [Managers -> Nat] /\ counted \in [Managers -> Nat]
        /\ bonusSum \in Int /\ made \in Nat
        /\ at \in [Calls -> CallStates]
    BY <1>1 DEF Init, CallStates
  <2> QED BY <2>1, <2>2, <2>3 DEF TypeOK, Args, Sights, CallStates
<1>4. ASSUME NEW c \in Calls PROVE CallOK(c) /\ SeenOK(c)
  <2>1. at[c] = "idle" /\ seen[c] = Unseen
    BY DEF Init
  <2> QED BY <2>1, NothingYet DEF CallOK, SeenOK, Adjusting
<1>5. AdjustmentInRange /\ DayOK
  BY NothingYet, ScoreAssumption DEF Init, AdjustmentInRange, DayOK
<1> QED BY <1>2, <1>4, <1>5 DEF DInv

(* Every call that starts keeps it.                                        *)
LEMMA BeginDInv ==
  ASSUME DInv, NEW c \in Calls, Begin(c)
  PROVE  DInv' /\ score'.adjust = score.adjust
<1>0. NoArg \in Args /\ TypeOK /\ DayOK
  BY DEF NoArg, Args, DInv
<1>1. ASSUME NEW t \in Times, CheckInRead(c, t)
      PROVE  DInv' /\ score'.adjust = score.adjust
  <2> DEFINE a == [NoArg EXCEPT !.time = t, !.cell = grid]
  <2>1. a \in Args /\ a.cell \in Shifts /\ a.time \in Times
    BY <1>0, <1>1 DEF Args, CheckInRead
  <2>2. Read(c, "checkin", a)
    BY <1>1 DEF CheckInRead
  <2> HIDE DEF a
  <2> QED BY <1>0, <1>1, <2>1, <2>2, ReadLocals DEF CheckInRead, data, TypeOK
<1>2. ASSUME NEW cell \in Shifts \cup {Off, None}, SaveGrid(c, cell)
      PROVE  DInv' /\ score'.adjust = score.adjust
  <2> DEFINE a == [NoArg EXCEPT !.cell = cell]
  <2>1. a \in Args
    BY <1>0, <1>2 DEF Args
  <2>2. Read(c, "sync", a)
    BY <1>2 DEF SaveGrid
  <2> HIDE DEF a
  <2> QED BY <1>2, <2>1, <2>2, ReadLocals DEF SaveGrid
<1>3. ASSUME HealRead(c) PROVE DInv' /\ score'.adjust = score.adjust
  <2> DEFINE a == [NoArg EXCEPT !.cell = grid]
  <2>1. a \in Args /\ a.cell \in Shifts \cup {None} /\ row.checkIn \in Times
    BY <1>0, <1>3 DEF Args, HealRead, TypeOK, Rows
  <2>2. Read(c, "heal", a)
    BY <1>3 DEF HealRead
  <2> HIDE DEF a
  <2> QED BY <1>0, <1>3, <2>1, <2>2, ReadLocals DEF HealRead, data, TypeOK
<1>4. ASSUME NEW m \in Managers, NEW b \in Bonuses, AdjustRead(c, m, b)
      PROVE  DInv' /\ score'.adjust = score.adjust
  <2> DEFINE a == [NoArg EXCEPT !.by = m, !.bonus = b]
  <2>1. a \in Args /\ a.by \in Managers
    BY <1>0, ScoreAssumption DEF Args
  <2>2. Read(c, "count", a)
    BY <1>4 DEF AdjustRead
  <2> HIDE DEF a
  <2> QED BY <1>0, <1>4, <2>1, <2>2, ReadLocals DEF AdjustRead, data, TypeOK
<1>5. ASSUME NEW t \in Times, NEW out \in BOOLEAN, SupportRead(c, t, out)
      PROVE  DInv' /\ score'.adjust = score.adjust
  <2> DEFINE a == [NoArg EXCEPT !.time = t, !.out = out]
  <2>1. a \in Args /\ a.time \in Times
    BY <1>0 DEF Args
  <2>2. Read(c, "support", a)
    BY <1>5 DEF SupportRead
  <2> HIDE DEF a
  <2> QED BY <1>0, <1>5, <2>1, <2>2, ReadLocals DEF SupportRead, data, TypeOK
<1>6. ASSUME NEW t \in Times, NEW out \in BOOLEAN, FillRead(c, t, out)
      PROVE  DInv' /\ score'.adjust = score.adjust
  <2>1. CASE /\ grid \in Shifts
             /\ Read(c, "checkin", [NoArg EXCEPT !.time = t, !.cell = grid, !.out = out])
    <3> DEFINE a == [NoArg EXCEPT !.time = t, !.cell = grid, !.out = out]
    <3>1. a \in Args /\ a.cell \in Shifts /\ a.time \in Times
      BY <1>0, <2>1 DEF Args
    <3>2. Read(c, "checkin", a)
      BY <2>1
    <3> HIDE DEF a
    <3> QED BY <1>0, <1>6, <3>1, <3>2, ReadLocals DEF FillRead, data, TypeOK
  <2>2. CASE Read(c, "close", [NoArg EXCEPT !.out = out])
    <3> DEFINE a == [NoArg EXCEPT !.out = out]
    <3>1. a \in Args
      BY <1>0 DEF Args
    <3>2. Read(c, "close", a)
      BY <2>2
    <3> HIDE DEF a
    <3> QED BY <1>0, <1>6, <3>1, <3>2, ReadLocals DEF FillRead, data, TypeOK
  <2> QED BY <1>6, <2>1, <2>2 DEF FillRead
<1>7. ASSUME ForgotRead(c) \/ DeleteRead(c) PROVE DInv' /\ score'.adjust = score.adjust
  BY <1>7, <1>0, ReadLocals DEF ForgotRead, DeleteRead, data, TypeOK
<1> QED BY <1>1, <1>2, <1>3, <1>4, <1>5, <1>6, <1>7 DEF Begin

\* A row that is there, and its score, are rewritten.
LEMMA Rewritten ==
  ASSUME DInv, NEW c \in Calls, Return(c), UNCHANGED <<grid, given>>,
         row' \in Rows, score' \in Scores, score'.adjust = score.adjust,
         row'.status # "none", row'.checkIn # None, score'.exists
  PROVE  DInv' /\ score'.adjust = score.adjust
<1>1. NothingGone /\ DayOK' /\ AdjustmentInRange'
  BY DEF DInv, NothingGone, DayOK, Whole, AdjustmentInRange
<1> QED BY <1>1, ReturnLocals DEF DInv, TypeOK, given

\* A row that is there changes, its check-in and its score do not.
LEMMA Touched ==
  ASSUME DInv, NEW c \in Calls, Return(c), UNCHANGED <<grid, given, score>>,
         row' \in Rows, row.status # "none" => row'.status # "none",
         row'.checkIn = row.checkIn
  PROVE  DInv' /\ score'.adjust = score.adjust
<1>1. NothingGone /\ DayOK' /\ AdjustmentInRange'
  BY DEF DInv, NothingGone, DayOK, Whole, AdjustmentInRange
<1> QED BY <1>1, ReturnLocals DEF DInv, TypeOK, given

\* What is about to be written by id is there.
LEMMA StillThere ==
  ASSUME DInv, NEW c \in Calls, ~Missed(c), seen[c].row.status # "none"
  PROVE  /\ row.status # "none"
         /\ seen[c].score.exists => score.exists
         /\ seen[c].row.checkIn # None => seen[c].score.exists
BY DEF DInv, SeenOK, Whole, Missed

\* The deletion: what any call has seen of the day is gone.
LEMMA DeletedDInv ==
  ASSUME DInv, NEW c \in Calls, DeleteWrite(c)
  PROVE  DInv'
<1>0. TypeOK /\ \A d \in Calls : CallOK(d) /\ SeenOK(d)
  BY DEF DInv
<1>1. NoRow \in Rows /\ NoScore \in Scores /\ Unseen \in Sights
  BY DEF NoRow, NoScore, Rows, Scores, Statuses, Unseen, Sights
<1>2. seen \in [Calls -> Sights] /\ arg \in [Calls -> Args] /\ at \in [Calls -> CallStates]
  BY <1>0 DEF TypeOK, Sights, Args, CallStates
<1>3. ASSUME NEW d \in Calls, d # c
      PROVE  /\ seen'[d] \in Sights
             /\ seen'[d].row = seen[d].row /\ seen'[d].score = seen[d].score
             /\ seen[d].row.status # "none" => seen'[d].gone
  <2>1. PICK v \in Sights : v = seen[d]
    BY <1>2
  <2>2. PICK g \in BOOLEAN : g = (seen[d].gone \/ seen[d].row.status # "none")
    BY <1>2 DEF Sights
  <2>3. seen'[d] = [v EXCEPT !.gone = g]
    BY <1>3, <2>1, <2>2 DEF DeleteWrite
  <2>4. [v EXCEPT !.gone = g] \in Sights /\ [v EXCEPT !.gone = g].row = v.row
        /\ [v EXCEPT !.gone = g].score = v.score /\ [v EXCEPT !.gone = g].gone = g
    BY DEF Sights
  <2> QED BY <2>1, <2>2, <2>3, <2>4
<1>4. seen'[c] = Unseen /\ DOMAIN seen' = Calls /\ seen' = [d \in Calls |-> seen'[d]]
  BY DEF DeleteWrite
<1>5. seen' \in [Calls -> Sights]
  BY <1>1, <1>3, <1>4
<1>6. TypeOK'
  BY <1>0, <1>1, <1>2, <1>5 DEF DeleteWrite, TypeOK, Sights, Args, CallStates
<1>7. ASSUME NEW d \in Calls PROVE CallOK(d)' /\ SeenOK(d)'
  <2>1. CASE d = c
    <3>1. at'[c] = "idle" /\ seen'[c].row.status = "none"
      BY <1>2, <1>4 DEF DeleteWrite, Unseen, NoRow
    <3> QED BY <1>4, <2>1, <3>1, NothingYet DEF CallOK, SeenOK, Adjusting
  <2>2. CASE d # c
    <3>1. at'[d] = at[d] /\ arg' = arg
      BY <1>2, <2>2 DEF DeleteWrite
    <3>2. CallOK(d)'
      BY <1>0, <1>3, <2>2, <3>1 DEF CallOK
    <3>3. SeenOK(d)'
      BY <1>0, <1>3, <2>2 DEF SeenOK
    <3> QED BY <3>2, <3>3
  <2> QED BY <2>1, <2>2
<1>8. DayOK' /\ AdjustmentInRange'
  BY NothingYet, ScoreAssumption DEF DeleteWrite, DayOK, AdjustmentInRange
<1> QED BY <1>6, <1>7, <1>8 DEF DInv

(* Every write keeps it, and only a manager's or the deletion of the day   *)
(* moves the adjustment.                                                   *)
LEMMA FinishDInv ==
  ASSUME DInv, NEW c \in Calls, Finish(c)
  PROVE  DInv' /\ (score'.adjust # score.adjust => AdjustWrite(c) \/ DeleteWrite(c))
<1>0. /\ TypeOK /\ CallOK(c) /\ SeenOK(c) /\ DayOK /\ AdjustmentInRange
      /\ row \in Rows /\ score \in Scores
      /\ seen[c].row \in Rows /\ seen[c].score \in Scores /\ arg[c] \in Args
      /\ seen[c].score.adjust \in Int
  BY DEF DInv, TypeOK, Args, Scores
<1>a. \A t \in Times : t # None
  BY ScoreAssumption
<1>b. \A st \in InUse : st # "none"
  BY DEF InUse
<1>c. "left" \in InUse /\ "forgot_checkout" \in InUse
  BY DEF InUse, Statuses
<1>1. ASSUME CheckInWrite(c) PROVE DInv' /\ score'.adjust = score.adjust
  <2> DEFINE s == arg[c].cell
             t == arg[c].time
             st == CheckInStatus(s, t)
  <2>1. s \in Shifts \cup {Off} /\ t \in Times
    BY <1>0, <1>1 DEF CheckInWrite, Writes, CallOK
  <2>2. /\ row' = [row EXCEPT !.checkIn = t, !.shift = s, !.late = Lateness[s][t],
                              !.status = st]
        /\ UpsertScore(s, t, seen[c].score.adjust)
    BY <1>1 DEF CheckInWrite
  <2>3. row' \in Rows /\ row'.checkIn = t /\ row'.status = st /\ st \in InUse
    <3>1. Shows(row', st, t)
      BY <1>0, <2>1, <2>2, CheckInStatusOK, RowCheckedIn
    <3>2. st \in InUse
      BY <1>0, <2>1, <2>2, CheckInStatusOK, RowCheckedIn
    <3> QED BY <3>1, <3>2 DEF Shows
  <2>4. score' \in Scores /\ score'.adjust = score.adjust /\ score'.exists
    BY <1>0, <2>1, <2>2, UpsertKeeps
  <2>5. row'.checkIn # None /\ row'.status # "none"
    BY <1>a, <1>b, <2>1, <2>3
  <2> HIDE DEF s, t, st
  <2>6. CASE Return(c)
    BY <1>1, <2>3, <2>4, <2>5, <2>6, Rewritten DEF CheckInWrite
  <2>7. CASE /\ at' = [at EXCEPT ![c] = "close"]
             /\ seen' = [seen EXCEPT ![c] = [row |-> row', score |-> score', gone |-> FALSE]]
             /\ UNCHANGED <<arg, made, phase, overlap, crossed>>
    <3>1. NothingGone /\ DayOK' /\ AdjustmentInRange'
      BY <1>0, <2>4, <2>5 DEF NothingGone, DayOK, Whole, AdjustmentInRange
    <3>2. PICK v : v = [row |-> row', score |-> score', gone |-> FALSE]
      OBVIOUS
    <3>3. v \in Sights /\ v.row = row' /\ v.score = score' /\ v.gone = FALSE
      BY <2>3, <2>4, <3>2 DEF Sights
    <3>4. seen \in [Calls -> Sights] /\ at \in [Calls -> CallStates]
      BY <1>0 DEF TypeOK, Sights, CallStates
    <3>5. seen' = [seen EXCEPT ![c] = v]
      BY <2>7, <3>2
    <3>6. seen' \in [Calls -> Sights] /\ at' \in [Calls -> CallStates]
      BY <2>7, <3>3, <3>4, <3>5 DEF CallStates
    <3>7. TypeOK'
      BY <1>0, <1>1, <2>3, <2>4, <2>7, <3>6
      DEF CheckInWrite, TypeOK, given, Sights, CallStates
    <3>8. ASSUME NEW d \in Calls PROVE CallOK(d)' /\ SeenOK(d)'
      <4>0. CallOK(d) /\ SeenOK(d)
        BY DEF DInv
      <4>1. CASE d = c
        <5>1. at'[c] = "close" /\ seen'[c] = v
          BY <2>7, <3>4, <3>5
        <5>2. CallOK(d)'
          BY <4>1, <5>1 DEF CallOK, Adjusting
        <5>3. SeenOK(d)'
          BY <2>5, <3>1, <3>3, <4>1, <5>1 DEF SeenOK, DayOK
        <5> QED BY <5>2, <5>3
      <4>2. CASE d # c
        <5>1. at'[d] = at[d] /\ seen'[d] = seen[d] /\ arg' = arg
          BY <2>7, <3>4, <3>5, <4>2
        <5>2. CallOK(d)'
          BY <4>0, <5>1 DEF CallOK
        <5>3. SeenOK(d)'
          BY <3>1, <4>0, <5>1 DEF SeenOK, NothingGone
        <5> QED BY <5>2, <5>3
      <4> QED BY <4>1, <4>2
    <3> QED BY <2>4, <3>1, <3>7, <3>8 DEF DInv
  <2> QED BY <1>1, <2>6, <2>7 DEF CheckInWrite
<1>2. ASSUME FillClose(c) \/ ForgotWrite(c) PROVE DInv' /\ score'.adjust = score.adjust
  <2>2. row' \in Rows /\ row'.status \in InUse /\ row'.checkIn = row.checkIn
    <3>1. PICK st : Shows(row', st, row.checkIn) /\ st \in InUse
      BY <1>0, <1>2, <1>c, RowStatus, RowClosed DEF FillClose, ForgotWrite
    <3> QED BY <3>1 DEF Shows
  <2> QED BY <1>2, <1>b, <2>2, Touched DEF FillClose, ForgotWrite
<1>3. ASSUME Sync(c) PROVE DInv' /\ score'.adjust = score.adjust
  <2>1. CASE arg[c].cell \in Shifts /\ row.checkIn # None
    <3>0. UNCHANGED <<row, score, grid, given, arg, made, phase, overlap, crossed>>
      BY <1>3, <2>1 DEF Sync
    <3>1. \A d \in Calls : SeenOK(d)'
      BY <1>0, <1>3, <2>1, <3>0, SeenStays DEF Sync, NothingGone, DInv
    <3>2. ASSUME NEW d \in Calls PROVE CallOK(d)'
      <4>1. CASE d = c
        BY <1>0, <1>3, <2>1, <4>1 DEF Sync, CallOK, TypeOK, Rows, Adjusting
      <4>2. CASE d # c
        BY <1>0, <1>3, <2>1, <4>2 DEF Sync, CallOK, TypeOK, DInv
      <4> QED BY <4>1, <4>2
    <3>a. [row |-> row, score |-> score, gone |-> FALSE] \in Sights
      BY <1>0 DEF Sights
    <3>b. seen \in [Calls -> Sights] /\ at \in [Calls -> CallStates]
      BY <1>0 DEF TypeOK, Sights, CallStates
    <3>3. seen' \in [Calls -> Sights] /\ at' \in [Calls -> CallStates]
      BY <1>3, <2>1, <3>a, <3>b DEF Sync, CallStates
    <3>4. TypeOK'
      BY <1>0, <3>0, <3>3 DEF TypeOK, given, Sights, CallStates
    <3> QED BY <1>0, <3>0, <3>1, <3>2, <3>4 DEF DInv, DayOK, Whole, AdjustmentInRange
  <2>2. CASE ~(arg[c].cell \in Shifts /\ row.checkIn # None)
    <3>1. row' = row \/ row' = [row EXCEPT !.shift = Off]
      BY <1>3, <2>2 DEF Sync
    <3>2. row' \in Rows /\ row'.status = row.status /\ row'.checkIn = row.checkIn
      <4>1. CASE row' = row
        BY <1>0, <4>1
      <4>2. CASE row' = [row EXCEPT !.shift = Off]
        <5>1. Shows(row', row.status, row.checkIn)
          BY <1>0, <4>2, RowShift
        <5> QED BY <5>1 DEF Shows
      <4> QED BY <3>1, <4>1, <4>2
    <3> QED BY <1>3, <2>2, <3>2, Touched DEF Sync
  <2> QED BY <2>1, <2>2
<1>4. ASSUME RecalcWrite(c) PROVE DInv' /\ score'.adjust = score.adjust
  <2> DEFINE s == arg[c].cell
             t == seen[c].row.checkIn
  <2>1. s \in Shifts \cup {Off} /\ t \in Times /\ ~Missed(c)
    BY <1>0, <1>4 DEF RecalcWrite, Writes, CallOK
  <2>2. PICK st \in InUse : row' = [row EXCEPT !.shift = s, !.late = Lateness[s][t], !.status = st]
    BY <1>0, <1>4, <1>c, <2>1, CheckInStatusOK DEF RecalcWrite
  <2>3. row' \in Rows /\ row'.status = st /\ row'.checkIn = row.checkIn
    <3>1. Shows(row', st, row.checkIn)
      BY <1>0, <2>1, <2>2, CheckInStatusOK, RowScored
    <3> QED BY <3>1 DEF Shows
  <2>4. score' \in Scores /\ score'.adjust = score.adjust /\ score'.exists
    BY <1>0, <1>4, <2>1, UpsertKeeps DEF RecalcWrite
  <2>5. row.checkIn # None
    BY <1>0, <1>a, <2>1, StillThere DEF SeenOK, Whole, DayOK
  <2> HIDE DEF s, t
  <2> QED BY <1>4, <1>b, <2>3, <2>4, <2>5, Rewritten DEF RecalcWrite
<1>5. ASSUME HealWrite(c) PROVE DInv' /\ score'.adjust = score.adjust
  <2> DEFINE s == arg[c].cell
             t == seen[c].row.checkIn
  <2>1. s \in Shifts \cup {None} /\ t \in Times /\ ~Missed(c)
    BY <1>0, <1>5 DEF HealWrite, Writes, CallOK
  <2>0. row.status # "none" /\ row.checkIn # None /\ row.status \in InUse
    BY <1>0, <1>a, <2>1, StillThere DEF SeenOK, Whole, DayOK, Rows, InUse
  <2>2. CASE UNCHANGED <<row, score>>
    BY <1>0, <1>5, <2>2, Touched DEF HealWrite
  <2>3. CASE /\ row' = [row EXCEPT
                   !.status = IF seen[c].row.checkOut
                                 /\ ~(seen[c].row.status \in {"left", "forgot_checkout"})
                              THEN "left" ELSE @,
                   !.late = IF s # None /\ seen[c].row.late = 0
                            THEN Lateness[s][t] ELSE @]
             /\ UNCHANGED score
    <3>0. s # None => Lateness[s][t] \in Nat
      BY <2>1, CheckInStatusOK
    <3>1. PICK st \in InUse, l \in Nat : row' = [row EXCEPT !.status = st, !.late = l]
      BY <1>0, <1>c, <2>0, <2>3, <3>0 DEF Rows
    <3>2. row' \in Rows /\ row'.status = st /\ row'.checkIn = row.checkIn
      <4>1. Shows(row', st, row.checkIn)
        BY <1>0, <3>1, RowTidied
      <4> QED BY <4>1 DEF Shows
    <3> QED BY <1>5, <1>b, <2>3, <3>2, Touched DEF HealWrite
  <2>4. CASE /\ s # None
             /\ row' = [row EXCEPT !.shift = s, !.late = Lateness[s][t],
                                   !.status = NextStatus(s, seen[c].row)]
             /\ UpsertScore(s, t, seen[c].score.adjust)
    <3>1. /\ s \in Shifts \cup {Off} /\ Lateness[s][t] \in Nat
          /\ NextStatus(s, seen[c].row) \in InUse
      BY <2>1, <2>4, CheckInStatusOK DEF NextStatus, InUse, Statuses
    <3>2. row' \in Rows /\ row'.status \in InUse /\ row'.checkIn = row.checkIn
      <4>1. PICK st : Shows(row', st, row.checkIn) /\ st \in InUse
        BY <1>0, <2>4, <3>1, RowScored
      <4> QED BY <4>1 DEF Shows
    <3>3. score' \in Scores /\ score'.adjust = score.adjust /\ score'.exists
      BY <1>0, <2>1, <2>4, <3>1, UpsertKeeps
    <3> HIDE DEF s, t
    <3> QED BY <1>5, <1>b, <2>0, <3>2, <3>3, Rewritten DEF HealWrite
  <2> QED BY <1>5, <2>2, <2>3, <2>4 DEF HealWrite
<1>6. ASSUME AdjustCount(c) PROVE DInv' /\ score'.adjust = score.adjust
  <2>1. CASE Return(c)
    BY <1>0, <1>6, <2>1, Touched DEF AdjustCount, data
  <2>2. CASE /\ seen[c].score.adjust + arg[c].bonus \in -MaxAdjust..MaxAdjust
             /\ at' = [at EXCEPT ![c] = "adjust"]
             /\ UNCHANGED <<arg, seen, made, phase, overlap, crossed>>
    <3>1. ASSUME NEW d \in Calls PROVE CallOK(d)'
      BY <1>6, <2>2 DEF AdjustCount, CallOK, TypeOK, data, DInv, Adjusting
    <3>2. \A d \in Calls : SeenOK(d)'
      BY <1>6, <2>2 DEF AdjustCount, SeenOK, data, DInv
    <3>3. TypeOK'
      BY <1>0, <1>6, <2>2 DEF AdjustCount, TypeOK, data, given
    <3> QED BY <1>0, <1>6, <3>1, <3>2, <3>3
            DEF AdjustCount, data, DInv, DayOK, Whole, AdjustmentInRange
  <2> QED BY <1>6, <2>1, <2>2 DEF AdjustCount
<1>7. ASSUME AdjustWrite(c) PROVE DInv'
  <2> DEFINE new == seen[c].score.adjust + arg[c].bonus
             sum == seen[c].score.points + new
  <2>1. new \in -MaxAdjust..MaxAdjust /\ new \in Int /\ sum \in Int
    BY <1>0, <1>7, ScoreAssumption DEF AdjustWrite, Writes, CallOK, Scores, Args
  <2>2. score' = [score EXCEPT !.adjust = new, !.total = sum]
    BY <1>7 DEF AdjustWrite
  <2> HIDE DEF new, sum
  <2>a. ASSUME NEW r \in Scores, NEW p \in Int, NEW q \in Int
        PROVE  /\ [r EXCEPT !.adjust = p, !.total = q] \in Scores
               /\ [r EXCEPT !.adjust = p, !.total = q].adjust = p
               /\ [r EXCEPT !.adjust = p, !.total = q].exists = r.exists
    BY DEF Scores
  <2>3. score' \in Scores /\ score'.adjust = new /\ score'.exists = score.exists
    <3>1. PICK r \in Scores : r = score BY <1>0
    <3>2. PICK p \in Int : p = new BY <2>1
    <3>3. PICK q \in Int : q = sum BY <2>1
    <3>4. score' = [r EXCEPT !.adjust = p, !.total = q] BY <2>2, <3>1, <3>2, <3>3
    <3>5. /\ [r EXCEPT !.adjust = p, !.total = q] \in Scores
          /\ [r EXCEPT !.adjust = p, !.total = q].adjust = p
          /\ [r EXCEPT !.adjust = p, !.total = q].exists = r.exists
      BY <2>a
    <3> QED BY <3>1, <3>2, <3>4, <3>5
  <2>4. evals' \in [Managers -> Nat] /\ counted' \in [Managers -> Nat] /\ bonusSum' \in Int
    BY <1>0, <1>7 DEF AdjustWrite, Evaluated, Writes, TypeOK, CallOK, Args, Adjusting
  <2>5. seen[c].score.exists /\ ~Missed(c)
    BY <1>0, <1>7 DEF AdjustWrite, Writes, CallOK, Adjusting
  <2>6. score.exists
    BY <1>0, <2>5, StillThere DEF SeenOK, Whole
  <2>7. NothingGone /\ DayOK' /\ AdjustmentInRange'
    BY <1>0, <1>7, <2>1, <2>3, <2>6
    DEF AdjustWrite, NothingGone, DayOK, Whole, AdjustmentInRange
  <2> QED BY <1>0, <1>7, <2>3, <2>4, <2>7, ReturnLocals DEF AdjustWrite
<1>8. ASSUME SupportWrite(c) PROVE DInv' /\ score'.adjust = score.adjust
  <2> DEFINE s == seen[c].row.shift
             t == arg[c].time
             o == arg[c].out
  <2>1. s \in Shifts \cup {Off} /\ t \in Times /\ o \in BOOLEAN
    BY <1>0, <1>8 DEF SupportWrite, Writes, CallOK, Scores, Rows, Args
  <2>2. PICK st \in InUse : row' = [row EXCEPT !.checkIn = t, !.checkOut = o,
                                               !.late = Lateness[s][t], !.status = st]
    BY <1>0, <1>8, <1>c, <2>1, CheckInStatusOK DEF SupportWrite
  <2>3. row' \in Rows /\ row'.status = st /\ row'.checkIn = t
    <3>1. Shows(row', st, t)
      BY <1>0, <2>1, <2>2, CheckInStatusOK, RowCorrected
    <3> QED BY <3>1 DEF Shows
  <2>4. score' \in Scores /\ score'.adjust = score.adjust /\ score'.exists
    BY <1>0, <1>8, <2>1, UpsertKeeps DEF SupportWrite
  <2>5. row'.status # "none" /\ row'.checkIn # None
    BY <1>a, <1>b, <2>1, <2>3
  <2> HIDE DEF s, t, o
  <2> QED BY <1>8, <2>3, <2>4, <2>5, Rewritten DEF SupportWrite
<1>9. ASSUME RollBack(c) PROVE DInv' /\ score'.adjust = score.adjust
  BY <1>0, <1>9, Touched DEF RollBack, data
<1> QED BY <1>1, <1>2, <1>3, <1>4, <1>5, <1>6, <1>7, <1>8, <1>9, DeletedDInv DEF Finish

(* Every step keeps the invariant.                                         *)
LEMMA NextDInv ==
  ASSUME DInv, [Next]_vars
  PROVE  /\ DInv'
         /\ score'.adjust # score.adjust =>
              \E c \in Calls : AdjustWrite(c) \/ DeleteWrite(c)
<1>0. TypeOK /\ DayOK /\ AdjustmentInRange /\ row \in Rows
      /\ \A d \in Calls : CallOK(d) /\ SeenOK(d)
  BY DEF DInv, TypeOK
<1>1. ASSUME NEW c \in Calls, Begin(c)
      PROVE  DInv' /\ score'.adjust = score.adjust
  BY <1>1, BeginDInv
<1>2. ASSUME NEW c \in Calls, Finish(c)
      PROVE  DInv' /\ (score'.adjust # score.adjust => AdjustWrite(c) \/ DeleteWrite(c))
  BY <1>2, FinishDInv
<1>a. ASSUME row' \in Rows, row'.status # "none", row'.checkIn = row.checkIn,
             UNCHANGED <<grid, score, given, calls, phase, overlap, crossed>>
      PROVE  DInv' /\ score' = score
  <2>1. TypeOK' /\ NothingGone
    BY <1>0, <1>a DEF TypeOK, NothingGone, given, calls
  <2>2. ASSUME NEW d \in Calls PROVE CallOK(d)' /\ SeenOK(d)'
    BY <1>0, <1>a, <2>1 DEF CallOK, SeenOK, NothingGone, calls
  <2>3. DayOK' /\ AdjustmentInRange'
    BY <1>0, <1>a DEF DayOK, Whole, AdjustmentInRange
  <2> QED BY <1>a, <2>1, <2>2, <2>3 DEF DInv
<1>3. ASSUME EnsureRow PROVE DInv' /\ score' = score
  <2>1. PICK s : s \in Shifts \cup {Off} /\ row' = [row EXCEPT !.status = "absent", !.shift = s]
    BY <1>0, <1>3 DEF EnsureRow, TypeOK
  <2>2. "absent" \in InUse
    BY DEF InUse, Statuses
  <2>3. row' \in Rows /\ row'.status = "absent" /\ row'.checkIn = row.checkIn
    <3>1. Shows(row', "absent", row.checkIn)
      BY <1>0, <2>1, <2>2, RowEnsured
    <3> QED BY <3>1 DEF Shows
  <2> QED BY <1>3, <1>a, <2>3 DEF EnsureRow
<1>4. ASSUME NEW st \in {"on_break", "present", "left"}, Scan(st)
      PROVE  DInv' /\ score' = score
  <2>1. grid \in Shifts \cup {Off} /\ st \in InUse
    BY <1>0, <1>4 DEF Scan, TypeOK, Statuses, InUse
  <2>2. PICK o \in BOOLEAN :
          row' = [row EXCEPT !.status = st, !.shift = grid, !.checkOut = o]
    BY <1>0, <1>4, <2>1 DEF Scan, Rows
  <2>3. row' \in Rows /\ row'.status = st /\ row'.checkIn = row.checkIn
    <3>1. Shows(row', st, row.checkIn)
      BY <1>0, <2>1, <2>2, RowScanned
    <3> QED BY <3>1 DEF Shows
  <2> QED BY <1>4, <1>a, <2>1, <2>3 DEF Scan, InUse
<1>5. CASE UNCHANGED vars \/ Clock
  <2>1. UNCHANGED <<data, calls, overlap, crossed>> /\ phase' \in {"dawn", "day", "past"}
    BY <1>0, <1>5 DEF Clock, vars, TypeOK
  <2>2. TypeOK' /\ DayOK' /\ AdjustmentInRange'
    BY <1>0, <2>1 DEF TypeOK, data, given, calls, DayOK, Whole, AdjustmentInRange
  <2>3. ASSUME NEW d \in Calls PROVE CallOK(d)' /\ SeenOK(d)'
    BY <1>0, <2>1 DEF CallOK, SeenOK, data, calls
  <2> QED BY <2>1, <2>2, <2>3 DEF DInv, data
<1> QED BY <1>1, <1>2, <1>3, <1>4, <1>5 DEF Next

(* DayScore's variables keep their types.                                  *)
THEOREM TypeCorrect == Spec => []TypeOK
<1>1. Init => DInv
  BY InitDInv
<1>2. DInv /\ [Next]_vars => DInv'
  BY NextDInv
<1>3. DInv => TypeOK
  BY DEF DInv
<1> QED BY <1>1, <1>2, <1>3, PTL DEF Spec

(* The adjustment of a day stays within -MaxAdjust..MaxAdjust, however     *)
(* many managers' requests read the same score before they write           *)
(* (adjustEmployeeKpi).                                                    *)
THEOREM AdjustmentBounded == Spec => []AdjustmentInRange
<1>1. Init => DInv
  BY InitDInv
<1>2. DInv /\ [Next]_vars => DInv'
  BY NextDInv
<1>3. DInv => AdjustmentInRange
  BY DEF DInv
<1> QED BY <1>1, <1>2, <1>3, PTL DEF Spec

(* No check-in, recalculation, reconciliation or correction ever changes a *)
(* manager's adjustment (syncAttendanceShiftFromSchedule's promise), even  *)
(* if it has read the score before an adjustment or a deletion of the day. *)
THEOREM AdjustmentPreserved == Spec => AdjustmentKept
<1>1. Init => DInv
  BY InitDInv
<1>2. DInv /\ [Next]_vars => DInv'
  BY NextDInv
<1>3. DInv /\ [Next]_vars =>
        [score.adjust' # score.adjust =>
           \E c \in Calls : AdjustWrite(c) \/ DeleteWrite(c)]_vars
  BY NextDInv
<1> QED BY <1>1, <1>2, <1>3, PTL DEF Spec, AdjustmentKept
------------------------------------------------------------------------------
(* The evaluations: as long as no two of them are under way at once.       *)

\* The adjustment is their sum, and the one under way has read it.
Adding ==
  /\ score.adjust = bonusSum
  /\ \A c, d \in Calls : at[c] \in Adjusting /\ at[d] \in Adjusting => c = d
  /\ \A c \in Calls :
       at[c] \in Adjusting /\ ~seen[c].gone => seen[c].score.adjust = score.adjust

BInv == DInv /\ (~crossed => Adding)

\* A step of another call: no evaluation begins, none is written.
LEMMA AddingStays ==
  ASSUME Adding, score'.adjust = score.adjust, bonusSum' = bonusSum,
         \A d \in Calls : at'[d] \in Adjusting => at[d] \in Adjusting /\ seen'[d] = seen[d]
  PROVE  Adding'
BY DEF Adding

LEMMA BeginAdding ==
  ASSUME DInv, ~crossed', ~crossed => Adding, NEW c \in Calls, Begin(c)
  PROVE  Adding'
<1>1. PICK write \in {"checkin", "sync", "heal", "count", "support", "delete", "forgot", "close"} :
        \E args : Read(c, write, args)
  BY DEF Begin, CheckInRead, FillRead, SaveGrid, HealRead, AdjustRead, SupportRead,
         DeleteRead, ForgotRead
<1>2. UNCHANGED <<row, score, bonusSum>>
  BY DEF Begin, CheckInRead, FillRead, SaveGrid, HealRead, AdjustRead, SupportRead,
         DeleteRead, ForgotRead, data, given
<1>3. /\ at[c] = "idle" /\ at' = [at EXCEPT ![c] = write]
      /\ seen' = [seen EXCEPT ![c] = [row |-> row, score |-> score, gone |-> FALSE]]
      /\ ~crossed /\ (write = "count" => \A d \in Calls : at[d] \notin Adjusting)
  BY <1>1 DEF Read
<1>4. at \in [Calls -> CallStates] /\ seen \in [Calls -> Sights]
  BY DEF DInv, TypeOK, CallStates, Sights
<1>5. Adding
  BY <1>3
<1>6. CASE write = "count"
  <2>1. \A d \in Calls : at'[d] \in Adjusting => d = c
    BY <1>3, <1>4, <1>6
  <2>2. seen'[c].score = score
    BY <1>3, <1>4
  <2> QED BY <1>2, <1>5, <2>1, <2>2 DEF Adding
<1>7. CASE write # "count"
  <2>1. \A d \in Calls : at'[d] \in Adjusting => d # c /\ at'[d] = at[d] /\ seen'[d] = seen[d]
    BY <1>3, <1>4, <1>7 DEF Adjusting
  <2> QED BY <1>2, <1>5, <2>1, AddingStays
<1> QED BY <1>6, <1>7

LEMMA FinishAdding ==
  ASSUME DInv, Adding, NEW c \in Calls, Finish(c)
  PROVE  Adding'
<1>0. /\ at \in [Calls -> CallStates] /\ seen \in [Calls -> Sights]
      /\ CallOK(c) /\ SeenOK(c) /\ score \in Scores /\ arg[c] \in Args /\ bonusSum \in Int
  BY DEF DInv, TypeOK, CallStates, Sights, Args
<1>1. CASE AdjustWrite(c)
  <2> DEFINE new == seen[c].score.adjust + arg[c].bonus
             sum == seen[c].score.points + new
  <2>1. at[c] = "adjust" /\ ~Missed(c) /\ Return(c)
    BY <1>1 DEF AdjustWrite, Writes
  <2>2. seen[c].row.status # "none" /\ ~seen[c].gone
    BY <1>0, <2>1 DEF CallOK, SeenOK, Whole, Missed, Adjusting
  <2>3. new = score.adjust + arg[c].bonus /\ score.adjust = bonusSum
    BY <2>1, <2>2 DEF Adding, Adjusting
  <2>4. score' = [score EXCEPT !.adjust = new, !.total = sum] /\ bonusSum' = bonusSum + arg[c].bonus
    BY <1>1 DEF AdjustWrite, Evaluated
  <2> HIDE DEF new, sum
  <2>5. score'.adjust = new
    BY <1>0, <2>4 DEF Scores
  <2>6. \A d \in Calls : at'[d] \notin Adjusting
    BY <1>0, <2>1 DEF Return, Adding, Adjusting
  <2> QED BY <2>3, <2>4, <2>5, <2>6 DEF Adding
<1>2. CASE DeleteWrite(c)
  <2>1. score'.adjust = bonusSum'
    BY <1>2, NothingYet DEF DeleteWrite
  <2>2. ASSUME NEW d \in Calls, at'[d] \in Adjusting PROVE at[d] \in Adjusting /\ seen'[d].gone
    <3>1. d # c /\ at'[d] = at[d]
      BY <1>0, <1>2, <2>2 DEF DeleteWrite, Adjusting
    <3>2. seen[d].row.status # "none"
      BY <2>2, <3>1 DEF DInv, CallOK, SeenOK, Whole, Adjusting
    <3>3. PICK v \in Sights : v = seen[d]
      BY <1>0
    <3>4. seen'[d] = [v EXCEPT !.gone = v.gone \/ v.row.status # "none"]
      BY <1>2, <3>1, <3>3 DEF DeleteWrite
    <3>5. seen'[d].gone
      BY <3>2, <3>3, <3>4 DEF Sights
    <3> QED BY <2>2, <3>1, <3>5
  <2> QED BY <2>1, <2>2 DEF Adding
<1>3. CASE ~AdjustWrite(c) /\ ~DeleteWrite(c)
  <2>1. score'.adjust = score.adjust
    BY <1>3, FinishDInv
  <2>2. bonusSum' = bonusSum
    BY <1>3 DEF Finish, CheckInWrite, FillClose, Sync, RecalcWrite, HealWrite, AdjustCount,
       SupportWrite, ForgotWrite, RollBack, data, given
  <2>3. \/ Return(c)
        \/ at' = [at EXCEPT ![c] = "close"] /\ \E v : seen' = [seen EXCEPT ![c] = v]
        \/ at' = [at EXCEPT ![c] = "recalc"] /\ \E v : seen' = [seen EXCEPT ![c] = v]
        \/ at[c] = "count" /\ at' = [at EXCEPT ![c] = "adjust"] /\ seen' = seen
    BY <1>3 DEF Finish, CheckInWrite, FillClose, Sync, RecalcWrite, HealWrite, AdjustCount,
       SupportWrite, ForgotWrite, RollBack
  <2>4. ASSUME NEW d \in Calls, at'[d] \in Adjusting
        PROVE  at[d] \in Adjusting /\ seen'[d] = seen[d]
    BY <1>0, <2>3, <2>4 DEF Return, Adjusting
  <2> QED BY <2>1, <2>2, <2>4, AddingStays
<1> QED BY <1>1, <1>2, <1>3

LEMMA NextBInv == ASSUME BInv, [Next]_vars PROVE BInv'
<1>1. DInv'
  BY NextDInv DEF BInv
<1>2. ASSUME ~crossed', NEW c \in Calls, Begin(c) PROVE Adding'
  BY <1>2, BeginAdding DEF BInv
<1>3. ASSUME ~crossed', NEW c \in Calls, Finish(c) PROVE Adding'
  <2>1. crossed' = crossed
    BY <1>3 DEF Finish, CheckInWrite, FillClose, Sync, RecalcWrite, HealWrite, AdjustCount,
       AdjustWrite, SupportWrite, DeleteWrite, ForgotWrite, RollBack, Return
  <2> QED BY <1>3, <2>1, FinishAdding DEF BInv
<1>4. ASSUME ~crossed', EnsureRow \/ Clock \/ UNCHANGED vars \/ \E st : Scan(st) PROVE Adding'
  <2>1. UNCHANGED <<score, given, calls, crossed>>
    BY <1>4 DEF EnsureRow, Clock, Scan, vars, data
  <2> QED BY <1>4, <2>1 DEF BInv, Adding, given, calls
<1> QED BY <1>1, <1>2, <1>3, <1>4 DEF Next, BInv

(* No evaluation is lost to a call of another kind: neither to a check-in, *)
(* a recalculation, a board read or a correction that overlaps with it,    *)
(* nor to the deletion of the day it was about to be written to.           *)
THEOREM BonusesAddUp == Spec => []EveryBonusCounts
<1>1. Init => BInv
  BY InitDInv, NothingYet DEF Init, BInv, Adding, Adjusting
<1>2. BInv => EveryBonusCounts
  BY DEF BInv, Adding, EveryBonusCounts
<1> QED BY <1>1, <1>2, NextBInv, PTL DEF Spec
------------------------------------------------------------------------------
(* Requests that do not overlap.                                           *)

\* At most one call is running, and what it has read is still so.
Serially ==
  /\ \A c, d \in Calls : at[c] # "idle" /\ at[d] # "idle" => c = d
  /\ \A c \in Calls : at[c] \notin {"idle", "close"} =>
       seen[c].score = score /\ seen[c].row = row

\* The points are those of the check-in in the row.
ScoredByRow ==
  score.exists => /\ row.checkIn \in Times
                  /\ \E s \in Shifts \cup {Off} : score.points = Points[s][row.checkIn]

SumsRight == score.total = score.points + score.adjust /\ ScoredByRow

SInv == DInv /\ (~overlap => Serially /\ SumsRight)

\* The only call leaves everything as its successors expect to find it.
LEMMA SerialReturn ==
  ASSUME DInv, Serially, NEW c \in Calls, at[c] # "idle", Return(c)
  PROVE  Serially'
<1>1. at \in [Calls -> CallStates] /\ seen \in [Calls -> Sights]
  BY DEF DInv, TypeOK, CallStates, Sights
<1>2. \A d \in Calls : at'[d] = "idle"
  BY <1>1 DEF Serially, Return
<1> QED BY <1>2 DEF Serially

\* A call that starts, starts alone.
LEMMA SerialRead ==
  ASSUME DInv, ~overlap, NEW c \in Calls, NEW args, NEW write,
         Read(c, write, args), UNCHANGED <<row, score>>, SumsRight
  PROVE  Serially' /\ SumsRight'
<1>0. at \in [Calls -> CallStates] /\ seen \in [Calls -> Sights]
  BY DEF DInv, TypeOK, CallStates, Sights
<1>1. \A d \in Calls : d # c => at'[d] = "idle"
  BY <1>0 DEF Read, MayStart
<1>2. seen'[c].score = score /\ seen'[c].row = row
  BY <1>0 DEF Read
<1> QED BY <1>1, <1>2 DEF Serially, SumsRight, ScoredByRow

\* The check-in of t is scored, and the adjustment stays as it is.
LEMMA SerialUpsert ==
  ASSUME DInv, SumsRight, NEW s \in Shifts \cup {Off}, NEW t \in Times,
         UpsertScore(s, t, score.adjust), row'.checkIn = t
  PROVE  SumsRight'
<1>1. score.adjust \in Int /\ Points[s][t] \in Int /\ TypeOK /\ DayOK
  BY ScoreAssumption DEF DInv, TypeOK, Scores
<1>2. /\ score'.adjust = score.adjust /\ score'.points = Points[s][t]
      /\ score.exists => score'.total = Points[s][t] + score.adjust
      /\ ~score.exists => score'.total = Points[s][t] /\ score.adjust = 0
  BY <1>1, UpsertKeeps DEF DayOK
<1> QED BY <1>1, <1>2 DEF SumsRight, ScoredByRow

\* The score stays, and the check-in of the row.
LEMMA SerialTouch ==
  ASSUME SumsRight, score' = score, row'.checkIn = row.checkIn
  PROVE  SumsRight'
BY DEF SumsRight, ScoredByRow

LEMMA FinishSerial ==
  ASSUME DInv, Serially, SumsRight, NEW c \in Calls, Finish(c)
  PROVE  Serially' /\ SumsRight'
<1>0. /\ at \in [Calls -> CallStates] /\ seen \in [Calls -> Sights]
      /\ CallOK(c) /\ row \in Rows /\ score \in Scores /\ arg[c] \in Args
      /\ at[c] # "idle" /\ (at[c] # "close" => seen[c].score = score /\ seen[c].row = row)
  BY DEF DInv, TypeOK, CallStates, Sights, Args, Serially, Finish, CheckInWrite, FillClose,
     Sync, RecalcWrite, HealWrite, AdjustCount, AdjustWrite, SupportWrite, DeleteWrite,
     ForgotWrite, RollBack, Writes
<1>c. "left" \in InUse /\ "forgot_checkout" \in InUse
  BY DEF InUse, Statuses
<1>1. CASE CheckInWrite(c)
  <2> DEFINE s == arg[c].cell
             t == arg[c].time
             st == CheckInStatus(s, t)
  <2>1. s \in Shifts \cup {Off} /\ t \in Times /\ seen[c].score = score
    BY <1>0, <1>1 DEF CheckInWrite, Writes, CallOK
  <2>2. row'.checkIn = t
    <3>1. Shows(row', st, t)
      BY <1>0, <1>1, <2>1, CheckInStatusOK, RowCheckedIn DEF CheckInWrite
    <3> QED BY <3>1 DEF Shows
  <2>3. UpsertScore(s, t, score.adjust)
    BY <1>1, <2>1 DEF CheckInWrite
  <2> HIDE DEF s, t, st
  <2>4. SumsRight'
    BY <2>1, <2>2, <2>3, SerialUpsert
  <2>5. CASE Return(c)
    BY <1>0, <2>4, <2>5, SerialReturn
  <2>6. CASE at' = [at EXCEPT ![c] = "close"]
    <3>1. \A d \in Calls : at'[d] \in {"idle", "close"} /\ (at'[d] # "idle" => d = c)
      BY <1>0, <2>6 DEF Serially
    <3> QED BY <2>4, <3>1 DEF Serially
  <2> QED BY <1>1, <2>5, <2>6 DEF CheckInWrite
<1>2. CASE FillClose(c) \/ ForgotWrite(c)
  <2>1. row'.checkIn = row.checkIn
    <3>1. CASE FillClose(c)
      <4>1. Shows(row', "left", row.checkIn)
        BY <1>0, <1>c, <3>1, RowClosed DEF FillClose
      <4> QED BY <4>1 DEF Shows
    <3>2. CASE ForgotWrite(c)
      <4>1. Shows(row', "forgot_checkout", row.checkIn)
        BY <1>0, <1>c, <3>2, RowStatus DEF ForgotWrite
      <4> QED BY <4>1 DEF Shows
    <3> QED BY <1>2, <3>1, <3>2
  <2> QED BY <1>0, <1>2, <2>1, SerialTouch, SerialReturn DEF FillClose, ForgotWrite
<1>3. CASE Sync(c)
  <2>1. CASE arg[c].cell \in Shifts /\ row.checkIn # None
    <3>1. UNCHANGED <<row, score>>
          /\ at' = [at EXCEPT ![c] = "recalc"]
          /\ seen' = [seen EXCEPT ![c] = [row |-> row, score |-> score, gone |-> FALSE]]
      BY <1>3, <2>1 DEF Sync
    <3>2. seen'[c].row = row /\ seen'[c].score = score
      BY <1>0, <3>1
    <3>3. \A d \in Calls : at'[d] # "idle" => d = c
      BY <1>0, <3>1 DEF Serially
    <3> QED BY <3>1, <3>2, <3>3, SerialTouch DEF Serially
  <2>2. CASE ~(arg[c].cell \in Shifts /\ row.checkIn # None)
    <3>1. row'.checkIn = row.checkIn
      <4>1. CASE row' = row
        BY <4>1
      <4>2. CASE row' = [row EXCEPT !.shift = Off]
        <5>1. Shows(row', row.status, row.checkIn)
          BY <1>0, <4>2, RowShift
        <5> QED BY <5>1 DEF Shows
      <4> QED BY <1>3, <2>2, <4>1, <4>2 DEF Sync
    <3> QED BY <1>0, <1>3, <2>2, <3>1, SerialTouch, SerialReturn DEF Sync
  <2> QED BY <2>1, <2>2
<1>4. CASE RecalcWrite(c)
  <2> DEFINE s == arg[c].cell
             t == row.checkIn
  <2>1. s \in Shifts \cup {Off} /\ t \in Times /\ seen[c].score = score /\ seen[c].row = row
    BY <1>0, <1>4 DEF RecalcWrite, Writes, CallOK
  <2>2. row'.checkIn = t
    <3>1. PICK st \in InUse :
            row' = [row EXCEPT !.shift = s, !.late = Lateness[s][t], !.status = st]
      BY <1>0, <1>4, <1>c, <2>1, CheckInStatusOK DEF RecalcWrite
    <3>2. Shows(row', st, t)
      BY <1>0, <2>1, <3>1, CheckInStatusOK, RowScored
    <3> QED BY <3>2 DEF Shows
  <2>3. UpsertScore(s, t, score.adjust) /\ Return(c)
    BY <1>4, <2>1 DEF RecalcWrite
  <2> QED BY <1>0, <2>1, <2>2, <2>3, SerialUpsert, SerialReturn
<1>5. CASE HealWrite(c)
  <2> DEFINE s == arg[c].cell
             t == row.checkIn
  <2>1. /\ s \in Shifts \cup {None} /\ t \in Times /\ seen[c].score = score
        /\ seen[c].row = row /\ Return(c) /\ ~Missed(c)
    BY <1>0, <1>5 DEF HealWrite, Writes, CallOK
  <2>2. Serially'
    BY <1>0, <2>1, SerialReturn
  <2>3. CASE UNCHANGED <<row, score>>
    BY <2>2, <2>3, SerialTouch
  <2>4. CASE /\ row' = [row EXCEPT
                   !.status = IF row.checkOut
                                 /\ ~(row.status \in {"left", "forgot_checkout"})
                              THEN "left" ELSE @,
                   !.late = IF s # None /\ row.late = 0
                            THEN Lateness[s][t] ELSE @]
             /\ UNCHANGED score
    <3>0. s # None => Lateness[s][t] \in Nat
      BY <2>1, CheckInStatusOK
    <3>1. row.status \in InUse
      <4>1. row.checkIn # None
        BY <2>1, ScoreAssumption
      <4>2. row.status # "none"
        BY <4>1 DEF DInv, DayOK, Whole
      <4> QED BY <1>0, <4>2 DEF Rows, InUse
    <3>2. PICK st \in InUse, l \in Nat : row' = [row EXCEPT !.status = st, !.late = l]
      BY <1>0, <1>c, <2>4, <3>0, <3>1 DEF Rows
    <3>3. Shows(row', st, row.checkIn)
      BY <1>0, <3>2, RowTidied
    <3> QED BY <2>2, <2>4, <3>3, SerialTouch DEF Shows
  <2>5. CASE /\ s # None
             /\ row' = [row EXCEPT !.shift = s, !.late = Lateness[s][t],
                                   !.status = NextStatus(s, row)]
             /\ UpsertScore(s, t, score.adjust)
    <3>1. /\ s \in Shifts \cup {Off} /\ Lateness[s][t] \in Nat
          /\ NextStatus(s, row) \in InUse
      BY <2>1, <2>5, CheckInStatusOK DEF NextStatus, InUse, Statuses
    <3>2. row'.checkIn = t
      <4>1. PICK st : Shows(row', st, row.checkIn)
        BY <1>0, <2>5, <3>1, RowScored
      <4> QED BY <4>1 DEF Shows
    <3> HIDE DEF s, t
    <3> QED BY <2>1, <2>2, <2>5, <3>1, <3>2, SerialUpsert
  <2> QED BY <1>5, <2>1, <2>3, <2>4, <2>5 DEF HealWrite
<1>6. CASE AdjustCount(c)
  <2>1. UNCHANGED <<row, score>>
    BY <1>6 DEF AdjustCount, data
  <2>2. CASE Return(c)
    BY <1>0, <2>1, <2>2, SerialReturn, SerialTouch
  <2>3. CASE at' = [at EXCEPT ![c] = "adjust"] /\ UNCHANGED seen
    <3>1. at[c] = "count"
      BY <1>6 DEF AdjustCount
    <3>2. \A d \in Calls : at'[d] # "idle" => d = c
      BY <1>0, <2>3 DEF Serially
    <3> QED BY <1>0, <2>1, <2>3, <3>1, <3>2, SerialTouch DEF Serially
  <2> QED BY <1>6, <2>2, <2>3 DEF AdjustCount
<1>7. CASE AdjustWrite(c)
  <2> DEFINE new == score.adjust + arg[c].bonus
             sum == score.points + new
  <2>1. score' = [score EXCEPT !.adjust = new, !.total = sum] /\ row' = row /\ Return(c)
    BY <1>0, <1>7 DEF AdjustWrite, Writes
  <2> HIDE DEF new, sum
  <2>2. score'.adjust = new /\ score'.points = score.points /\ score'.total = sum
        /\ score'.exists = score.exists
    BY <1>0, <2>1 DEF Scores
  <2>3. SumsRight'
    BY <2>1, <2>2 DEF SumsRight, ScoredByRow, sum
  <2> QED BY <1>0, <2>1, <2>3, SerialReturn
<1>8. CASE SupportWrite(c)
  <2> DEFINE s == row.shift
             t == arg[c].time
             o == arg[c].out
  <2>1. /\ s \in Shifts \cup {Off} /\ t \in Times /\ o \in BOOLEAN
        /\ seen[c].score = score /\ seen[c].row = row
    BY <1>0, <1>8 DEF SupportWrite, Writes, CallOK, Rows, Args
  <2>2. row'.checkIn = t
    <3>1. PICK st \in InUse : row' = [row EXCEPT !.checkIn = t, !.checkOut = o,
                                                !.late = Lateness[s][t], !.status = st]
      BY <1>0, <1>8, <1>c, <2>1, CheckInStatusOK DEF SupportWrite
    <3>2. Shows(row', st, t)
      BY <1>0, <2>1, <3>1, CheckInStatusOK, RowCorrected
    <3> QED BY <3>2 DEF Shows
  <2>3. UpsertScore(s, t, score.adjust) /\ Return(c)
    BY <1>8, <2>1 DEF SupportWrite
  <2> QED BY <1>0, <2>1, <2>2, <2>3, SerialUpsert, SerialReturn
<1>9. CASE DeleteWrite(c)
  <2>1. SumsRight'
    BY <1>9, NothingYet DEF DeleteWrite, SumsRight, ScoredByRow
  <2>2. \A d \in Calls : at'[d] = "idle"
    BY <1>0, <1>9 DEF DeleteWrite, Serially
  <2> QED BY <2>1, <2>2 DEF Serially
<1>10. CASE RollBack(c)
  BY <1>0, <1>10, SerialReturn, SerialTouch DEF RollBack, data
<1> QED BY <1>1, <1>2, <1>3, <1>4, <1>5, <1>6, <1>7, <1>8, <1>9, <1>10 DEF Finish

\* Without overlap, every step keeps the sums.
LEMMA NextSerial ==
  ASSUME SInv, ~overlap, [Next]_vars
  PROVE  Serially' /\ SumsRight'
<1>0. DInv /\ Serially /\ SumsRight /\ TypeOK /\ row \in Rows
  BY DEF SInv, DInv, TypeOK
<1>1. ASSUME NEW c \in Calls, Begin(c) PROVE Serially' /\ SumsRight'
  <2>1. PICK write : \E args : Read(c, write, args)
    BY <1>1 DEF Begin, CheckInRead, FillRead, SaveGrid, HealRead, AdjustRead,
                SupportRead, DeleteRead, ForgotRead
  <2>2. UNCHANGED <<row, score>>
    BY <1>1 DEF Begin, CheckInRead, FillRead, SaveGrid, HealRead, AdjustRead,
                SupportRead, DeleteRead, ForgotRead, data
  <2> QED BY <1>0, <2>1, <2>2, SerialRead
<1>2. ASSUME NEW c \in Calls, Finish(c) PROVE Serially' /\ SumsRight'
  BY <1>0, <1>2, FinishSerial
<1>3. ASSUME MayStart, UNCHANGED calls PROVE Serially'
  BY <1>3 DEF MayStart, Serially, calls
<1>4. CASE EnsureRow
  <2>1. PICK s : s \in Shifts \cup {Off} /\ row' = [row EXCEPT !.status = "absent", !.shift = s]
    BY <1>0, <1>4 DEF EnsureRow, TypeOK
  <2>2. "absent" \in InUse
    BY DEF InUse, Statuses
  <2>3. Shows(row', "absent", row.checkIn)
    BY <1>0, <2>1, <2>2, RowEnsured
  <2>4. row'.checkIn = row.checkIn
    BY <2>3 DEF Shows
  <2> QED BY <1>0, <1>3, <1>4, <2>4, SerialTouch DEF EnsureRow
<1>5. ASSUME NEW st \in {"on_break", "present", "left"}, Scan(st) PROVE Serially' /\ SumsRight'
  <2>1. grid \in Shifts \cup {Off} /\ st \in InUse
    BY <1>0, <1>5 DEF Scan, TypeOK, Statuses, InUse
  <2>2. PICK o \in BOOLEAN :
          row' = [row EXCEPT !.status = st, !.shift = grid, !.checkOut = o]
    BY <1>0, <1>5, <2>1 DEF Scan, Rows
  <2>3. Shows(row', st, row.checkIn)
    BY <1>0, <2>1, <2>2, RowScanned
  <2>4. row'.checkIn = row.checkIn
    BY <2>3 DEF Shows
  <2> QED BY <1>0, <1>3, <1>5, <2>4, SerialTouch DEF Scan
<1>6. CASE Clock \/ UNCHANGED vars
  <2>1. UNCHANGED <<data, calls>>
    BY <1>6 DEF Clock, vars
  <2> QED BY <1>0, <2>1, SerialTouch DEF data, calls, Serially
<1> QED BY <1>1, <1>2, <1>4, <1>5, <1>6 DEF Next

\* Whether calls overlap is decided at the start.
LEMMA OverlapStays == ASSUME [Next]_vars PROVE overlap' = overlap
<1>1. ASSUME NEW c \in Calls, Begin(c) PROVE overlap' = overlap
  BY <1>1 DEF Begin, CheckInRead, FillRead, SaveGrid, HealRead, AdjustRead, SupportRead,
              DeleteRead, ForgotRead, Read
<1>2. ASSUME NEW c \in Calls, Finish(c) PROVE overlap' = overlap
  BY <1>2 DEF Finish, CheckInWrite, FillClose, Sync, RecalcWrite, HealWrite, AdjustCount,
              AdjustWrite, SupportWrite, DeleteWrite, ForgotWrite, RollBack, Return
<1> QED BY <1>1, <1>2 DEF Next, EnsureRow, Clock, Scan, vars

LEMMA InitSInv == Init => SInv
<1>1. ASSUME Init PROVE Serially /\ SumsRight
  BY <1>1, NothingYet DEF Init, Serially, SumsRight, ScoredByRow
<1> QED BY <1>1, InitDInv DEF SInv

LEMMA NextSInv == ASSUME SInv, [Next]_vars PROVE SInv'
<1>1. DInv'
  BY NextDInv DEF SInv
<1> QED BY <1>1, NextSerial, OverlapStays DEF SInv

(* Requests that do not overlap: the total is the sum of its parts.        *)
THEOREM SerialSums == Spec => []TotalIsSum
<1>1. SInv => TotalIsSum
  BY DEF SInv, SumsRight, TotalIsSum
<1> QED BY <1>1, InitSInv, NextSInv, PTL DEF Spec

(* A day is scored if and only if it has a check-in, however requests      *)
(* overlap; and its points are those of the check-in that its row shows,   *)
(* whoever wrote them last: a check-in, a recalculation after a grid save, *)
(* a reconciliation or a correction, when they do not overlap.             *)
THEOREM PointsFollowCheckIn == Spec => []PointsMatchCheckIn
<1>1. SInv => PointsMatchCheckIn
  BY DEF SInv, DInv, DayOK, Whole, SumsRight, ScoredByRow, PointsMatchCheckIn
<1> QED BY <1>1, InitSInv, NextSInv, PTL DEF Spec
------------------------------------------------------------------------------
(***************************************************************************)
(* Proofs about Ranking, for any number of rows, persons, branches, days,  *)
(* runs and corrections.                                                   *)
(*                                                                         *)
(* One run at a time is under way, and PInv says for each of its stages    *)
(* what it has left in the tables: the ranks of the rows that no deletion  *)
(* of a day has touched since it began, and the achievements of those that *)
(* it has come to.  What a score is does not matter to it.                 *)
(***************************************************************************)
\* What a run has read: of some rows, three numbers each.
IsRead(ranked) ==
  /\ ranked = [r \in DOMAIN ranked |-> ranked[r]]
  /\ DOMAIN ranked \subseteq Staff
  /\ \A r \in DOMAIN ranked :
       ranked[r] = [points |-> ranked[r].points, days |-> ranked[r].days, late |-> ranked[r].late]

IsAggregate(t) == t = [sums |-> t.sums, rankGlobal |-> t.rankGlobal, rankBranch |-> t.rankBranch]

RTypes ==
  /\ mark \in [Staff -> [Dates -> Marks \cup {NoMark}]]
  /\ employed \subseteq Staff
  /\ unsummed \subseteq withdrawn
  /\ total = [r \in Staff |-> total[r]]
  /\ \A r \in Staff : total[r] # NoMark => IsAggregate(total[r])

Over == {"ready", "done", "dead"}
Running(j) == job[j].at \notin Over
Quiet == \A j \in Jobs : ~Running(j)

\* The ranks written are those of the read values, but for rows of which a day
\* was deleted.
Ranked(ranked) ==
  \A r \in DOMAIN ranked \ withdrawn :
    /\ total[r].rankGlobal = RankIn(ranked, DOMAIN ranked, r)
    /\ total[r].rankBranch = RankIn(ranked, InStore(ranked, Store[r]), r)

Made(j, some) == {[medal |-> m, by |-> j] : m \in some}

\* Run j at each of its stages.
Stage(j) ==
  \/ /\ job[j] = [at |-> "rank", ranked |-> job[j].ranked]
     /\ IsRead(job[j].ranked)
  \/ /\ job[j] = [at |-> "clear", ranked |-> job[j].ranked]
     /\ IsRead(job[j].ranked) /\ Ranked(job[j].ranked)
  \/ /\ job[j] = [at |-> "award", ranked |-> job[j].ranked, left |-> job[j].left]
     /\ IsRead(job[j].ranked) /\ Ranked(job[j].ranked)
     /\ job[j].left \subseteq Medals(job[j].ranked)
     /\ medals = Made(j, Medals(job[j].ranked) \ job[j].left)
     /\ rewarded = medals
  \/ /\ job[j] = [at |-> "reward", ranked |-> job[j].ranked, left |-> job[j].left, medal |-> job[j].medal]
     /\ IsRead(job[j].ranked) /\ Ranked(job[j].ranked)
     /\ job[j].left \subseteq Medals(job[j].ranked)
     /\ job[j].medal \in Medals(job[j].ranked) \ job[j].left
     /\ medals = Made(j, Medals(job[j].ranked) \ job[j].left)
     /\ rewarded = Made(j, Medals(job[j].ranked) \ (job[j].left \cup {job[j].medal}))

\* What the last run has left when it came to its end.
Ended ==
  /\ IsRead(basis) /\ Ranked(basis)
  /\ \E j \in Jobs : medals = Made(j, Medals(basis))
  /\ rewarded = medals

PInv ==
  /\ RTypes
  /\ job = [j \in Jobs |-> job[j]]
  /\ \A j \in Jobs : Running(j) => Stage(j)
  /\ \A j, k \in Jobs : Running(j) /\ Running(k) => j = k
  /\ (basis # NoMark /\ Quiet) => Ended
------------------------------------------------------------------------------
LEMMA RankingStarts ==
  ASSUME RankingInit
  PROVE  PInv
<1>1. RTypes
  BY RankingAssumption DEF RankingInit, RTypes
<1>2. \A j \in Jobs : ~Running(j)
  BY DEF RankingInit, Running, Ready, Over
<1> QED
  BY <1>1, <1>2 DEF PInv, RankingInit

\* The rows whose scores change or go are marked as such; whatever a step of
\* the surroundings does, the ranks of the others stay.
LEMMA RanksStay ==
  ASSUME NEW ranked, DOMAIN ranked \subseteq Staff, Ranked(ranked), withdrawn \subseteq withdrawn',
         \A r \in Staff \ withdrawn' : total'[r] = total[r]
  PROVE  Ranked(ranked)'
<1>1. ASSUME NEW r \in DOMAIN ranked \ withdrawn'
      PROVE  /\ total'[r].rankGlobal = RankIn(ranked, DOMAIN ranked, r)
             /\ total'[r].rankBranch = RankIn(ranked, InStore(ranked, Store[r]), r)
  BY <1>1 DEF Ranked
<1> QED
  BY <1>1 DEF Ranked, RankIn, CompareRank, InStore

LEMMA SurroundingsKeep ==
  ASSUME PInv, RTypes', UNCHANGED <<medals, rewarded, job, basis>>, withdrawn \subseteq withdrawn',
         \A r \in Staff \ withdrawn' : total'[r] = total[r]
  PROVE  PInv'
<1>1. ASSUME NEW j \in Jobs, Running(j)
      PROVE  Stage(j)'
  <2>1. PICK b : b = job[j]
    OBVIOUS
  <2>2. Stage(j) /\ job'[j] = b
    BY <1>1, <2>1 DEF PInv
  <2>3. IsRead(b.ranked) /\ (Ranked(b.ranked) => Ranked(b.ranked)')
    BY <2>1, <2>2, RanksStay DEF Stage, IsRead
  <2> QED
    BY <2>1, <2>2, <2>3 DEF Stage
<1>2. (basis # NoMark /\ Quiet) => Ended'
  BY RanksStay DEF PInv, Ended, IsRead
<1> QED
  BY <1>1, <1>2 DEF PInv, Running, Quiet
------------------------------------------------------------------------------
(* The steps of the surroundings.                                           *)

LEMMA CorrectKeeps ==
  ASSUME PInv, NEW r \in Staff, NEW d \in Dates, NEW m \in Marks \cup {NoMark}, CorrectScore(r, d, m)
  PROVE  PInv'
<1>1. RTypes'
  BY DEF PInv, RTypes, CorrectScore, support
<1> QED
  BY <1>1, SurroundingsKeep DEF CorrectScore, support

LEMMA LeaveKeeps ==
  ASSUME PInv, NEW r \in Staff, Leave(r)
  PROVE  PInv'
<1>1. RTypes'
  BY DEF PInv, RTypes, Leave, support
<1> QED
  BY <1>1, SurroundingsKeep DEF Leave, support

LEMMA DeleteKeeps ==
  ASSUME PInv, NEW r \in Staff, NEW d \in Dates, DeleteDay(r, d)
  PROVE  PInv'
<1>1. RTypes'
  BY DEF PInv, RTypes, DeleteDay
<1> QED
  BY <1>1, SurroundingsKeep DEF DeleteDay

LEMMA RecomputeKeeps ==
  ASSUME PInv, NEW r \in Staff, RecomputeMonthlyAggregate(r)
  PROVE  PInv'
<1>1. PICK t : t = IF Scored(r) = {} THEN NoMark ELSE Upserted(r, Sums(r))
  OBVIOUS
<1>2. total' = [total EXCEPT ![r] = t] /\ unsummed' = unsummed \ {r} /\ r \in unsummed
      /\ UNCHANGED <<mark, employed, medals, rewarded, job, basis, withdrawn>>
  BY <1>1 DEF RecomputeMonthlyAggregate
<1>3. t = NoMark \/ IsAggregate(t)
  BY <1>1 DEF Upserted, IsAggregate
<1>4. RTypes'
  BY <1>2, <1>3 DEF PInv, RTypes
<1>5. \A s \in Staff \ withdrawn' : total'[s] = total[s]
  BY <1>2 DEF PInv, RTypes
<1> QED
  BY <1>2, <1>4, <1>5, SurroundingsKeep
------------------------------------------------------------------------------
(* The steps of the run.                                                    *)

\* A run that is under way has taken a step, or died.
LEMMA RunKeeps ==
  ASSUME PInv, NEW j \in Jobs, NEW next, job' = [job EXCEPT ![j] = next], RTypes',
         Running(j) \/ Quiet,
         next.at \in Over \/ Stage(j)',
         (next.at \in Over /\ basis' # NoMark) => Ended'
  PROVE  PInv'
<1>1. job'[j] = next /\ \A k \in Jobs \ {j} : job'[k] = job[k]
  BY DEF PInv
<1>2. \A k \in Jobs \ {j} : ~Running(k) /\ ~Running(k)'
  BY <1>1 DEF PInv, Quiet, Running
<1>3. Running(j)' <=> next.at \notin Over
  BY <1>1 DEF Running
<1>4. job' = [k \in Jobs |-> job'[k]]
  BY DEF PInv
<1>5. (basis' # NoMark /\ Quiet') => Ended'
  BY <1>3 DEF Quiet
<1> QED
  BY <1>2, <1>3, <1>4, <1>5 DEF PInv

LEMMA BuildKeeps ==
  ASSUME PInv, NEW j \in Jobs, BuildMonthlyAggregates(j)
  PROVE  PInv'
<1>1. PICK ranked : ranked = [r \in employed |-> Sums(r)]
  OBVIOUS
<1>2. /\ total' = [r \in Staff |-> IF r \in employed THEN Upserted(r, ranked[r]) ELSE total[r]]
      /\ Proceed(j, [at |-> "rank", ranked |-> ranked])
      /\ withdrawn' = unsummed
      /\ UNCHANGED <<medals, rewarded, basis>>
  BY <1>1 DEF BuildMonthlyAggregates
<1>3. \A r \in employed : ranked[r] = [points |-> ranked[r].points, days |-> ranked[r].days,
                                        late |-> ranked[r].late]
  BY <1>1 DEF Sums
<1>4. IsRead(ranked)
  BY <1>1, <1>3 DEF IsRead, PInv, RTypes
<1>5. \A r \in Staff : IsAggregate(Upserted(r, ranked[r]))
  BY DEF Upserted, IsAggregate
<1>6. RTypes'
  <2>1. \A r \in Staff : total'[r] # NoMark => IsAggregate(total'[r])
    BY <1>2, <1>5 DEF PInv, RTypes
  <2> QED
    BY <1>2, <2>1 DEF PInv, RTypes, Proceed
<1>7. PICK next : next = [at |-> "rank", ranked |-> ranked]
  OBVIOUS
<1>8. job' = [job EXCEPT ![j] = next]
  BY <1>2, <1>7 DEF Proceed
<1>9. job'[j] = next
  BY <1>8 DEF PInv
<1>10. Stage(j)'
  BY <1>4, <1>7, <1>9 DEF Stage, IsRead
<1>11. Quiet
  BY DEF BuildMonthlyAggregates, Quiet, Running, Over
<1>12. next.at \notin Over
  BY <1>7 DEF Over
<1> QED
  BY <1>6, <1>8, <1>10, <1>11, <1>12, RunKeeps

LEMMA WriteRanksKeeps ==
  ASSUME PInv, NEW j \in Jobs, WriteRanks(j)
  PROVE  PInv'
<1>1. PICK b : b = job[j]
  OBVIOUS
<1>2. PICK ranked : ranked = b.ranked
  OBVIOUS
<1>3. Running(j) /\ b = [at |-> "rank", ranked |-> ranked] /\ IsRead(ranked)
  <2>1. b.at = "rank"
    BY <1>1 DEF WriteRanks, At
  <2>2. Running(j)
    BY <1>1, <2>1 DEF Running, Over
  <2>3. Stage(j)
    BY <2>2 DEF PInv
  <2> QED
    BY <1>1, <1>2, <2>1, <2>2, <2>3 DEF Stage
<1> DEFINE gone == {r \in DOMAIN ranked : total[r] = NoMark}
<1>4. PICK written \in SUBSET (DOMAIN ranked \ gone) :
        /\ gone = {} => written = DOMAIN ranked
        /\ total' = [r \in Staff |->
             IF r \notin written THEN total[r]
             ELSE [total[r] EXCEPT !.rankGlobal = RankIn(ranked, DOMAIN ranked, r),
                                   !.rankBranch = RankIn(ranked, InStore(ranked, Store[r]), r)]]
        /\ IF gone = {} THEN Proceed(j, [b EXCEPT !.at = "clear"]) /\ UNCHANGED basis
           ELSE Proceed(j, [at |-> "dead"]) /\ basis' = NoMark
  BY <1>1, <1>2 DEF WriteRanks
<1>5. UNCHANGED <<medals, rewarded, withdrawn, mark, employed, unsummed>>
  BY <1>4 DEF WriteRanks, Proceed
<1>6. ASSUME NEW r \in written
      PROVE  /\ r \in Staff /\ IsAggregate(total'[r])
             /\ total'[r].rankGlobal = RankIn(ranked, DOMAIN ranked, r)
             /\ total'[r].rankBranch = RankIn(ranked, InStore(ranked, Store[r]), r)
  <2>1. PICK g : g = RankIn(ranked, DOMAIN ranked, r)
    OBVIOUS
  <2>2. PICK s : s = RankIn(ranked, InStore(ranked, Store[r]), r)
    OBVIOUS
  <2>3. r \in Staff /\ total[r] # NoMark
    BY <1>3 DEF IsRead
  <2>4. PICK t : t = total[r]
    OBVIOUS
  <2>5. IsAggregate(t)
    BY <2>3, <2>4 DEF PInv, RTypes
  <2>6. total'[r] = [t EXCEPT !.rankGlobal = g, !.rankBranch = s]
    BY <1>4, <2>1, <2>2, <2>3, <2>4
  <2>7. PICK u : u = [t EXCEPT !.rankGlobal = g, !.rankBranch = s]
    OBVIOUS
  <2>8. IsAggregate(u) /\ u.rankGlobal = g /\ u.rankBranch = s
    BY <2>5, <2>7 DEF IsAggregate
  <2> QED
    BY <2>1, <2>2, <2>3, <2>6, <2>7, <2>8
<1>7. RTypes'
  <2>1. \A r \in Staff : total'[r] # NoMark => IsAggregate(total'[r])
    BY <1>4, <1>6 DEF PInv, RTypes
  <2>2. total' = [r \in Staff |-> total'[r]]
    BY <1>4
  <2> QED
    BY <1>5, <2>1, <2>2 DEF PInv, RTypes
<1>8. CASE gone = {}
  <2>1. PICK next : next = [b EXCEPT !.at = "clear"]
    OBVIOUS
  <2>2. next = [at |-> "clear", ranked |-> ranked]
    BY <1>3, <2>1
  <2>3. job' = [job EXCEPT ![j] = next] /\ UNCHANGED basis
    BY <1>4, <1>8, <2>1 DEF Proceed
  <2>4. job'[j] = next /\ next.ranked = ranked
    BY <2>2, <2>3 DEF PInv
  <2>5. \A r \in DOMAIN ranked : /\ total'[r].rankGlobal = RankIn(ranked, DOMAIN ranked, r)
                                 /\ total'[r].rankBranch = RankIn(ranked, InStore(ranked, Store[r]), r)
    BY <1>4, <1>6, <1>8
  <2>6. Ranked(ranked)'
    BY <2>5 DEF Ranked, RankIn, CompareRank, InStore
  <2>7. Stage(j)'
    BY <1>3, <2>2, <2>4, <2>6 DEF Stage, IsRead
  <2>8. next.at \notin Over
    BY <2>2 DEF Over
  <2> QED
    BY <1>3, <1>7, <2>3, <2>7, <2>8, RunKeeps
<1>9. CASE gone # {}
  <2>1. PICK next : next = [at |-> "dead"]
    OBVIOUS
  <2>2. job' = [job EXCEPT ![j] = next] /\ basis' = NoMark
    BY <1>4, <1>9, <2>1 DEF Proceed
  <2>3. next.at \in Over
    BY <2>1 DEF Over
  <2> QED
    BY <1>3, <1>7, <2>2, <2>3, RunKeeps
<1> QED
  BY <1>8, <1>9

LEMMA ClearKeeps ==
  ASSUME PInv, NEW j \in Jobs, ClearMonthGamification(j)
  PROVE  PInv'
<1>1. PICK b : b = job[j]
  OBVIOUS
<1>2. b.at = "clear" /\ Running(j)
  BY <1>1 DEF ClearMonthGamification, At, Running, Over
<1>3. Stage(j)
  BY <1>2 DEF PInv
<1>4. IsRead(b.ranked) /\ Ranked(b.ranked)
  BY <1>1, <1>2, <1>3 DEF Stage
<1>5. PICK all : all = Medals(b.ranked)
  OBVIOUS
<1>6. PICK next : next = [at |-> "award", ranked |-> b.ranked, left |-> all]
  OBVIOUS
<1>7. /\ job' = [job EXCEPT ![j] = next] /\ medals' = {} /\ rewarded' = {}
      /\ UNCHANGED <<total, basis, withdrawn, mark, employed, unsummed>>
  BY <1>1, <1>5, <1>6 DEF ClearMonthGamification, Proceed
<1>8. job'[j] = next
  BY <1>7 DEF PInv
<1>9. RTypes'
  BY <1>7 DEF PInv, RTypes
<1>10. IsRead(b.ranked) /\ Ranked(b.ranked)'
  BY <1>4, <1>7 DEF Ranked, RankIn, CompareRank, InStore
<1>11. Medals(b.ranked)' = all
  BY <1>5 DEF Medals, RankIn, CompareRank, InStore
<1>12. medals' = Made(j, all \ all) /\ rewarded' = medals'
  BY <1>7 DEF Made
<1>13. Stage(j)'
  BY <1>6, <1>8, <1>10, <1>11, <1>12 DEF Stage, IsRead, Made
<1>14. next.at \notin Over
  BY <1>6 DEF Over
<1> QED
  BY <1>2, <1>7, <1>9, <1>13, <1>14, RunKeeps

LEMMA AchievementKeeps ==
  ASSUME PInv, NEW j \in Jobs, CreateAchievement(j)
  PROVE  PInv'
<1>1. PICK b : b = job[j]
  OBVIOUS
<1>2. b.at = "award" /\ Running(j) /\ b.left # {}
  BY <1>1 DEF CreateAchievement, At, Running, Over
<1>3. Stage(j)
  BY <1>2 DEF PInv
<1>4. PICK all : all = Medals(b.ranked)
  OBVIOUS
<1>5. /\ IsRead(b.ranked) /\ Ranked(b.ranked) /\ b.left \subseteq all
      /\ medals = Made(j, all \ b.left) /\ rewarded = medals
  BY <1>1, <1>2, <1>3, <1>4 DEF Stage
<1>6. PICK m : m \in b.left /\ m = CHOOSE n \in b.left : TRUE
  BY <1>2
<1>7. PICK next : next = [at |-> "reward", ranked |-> b.ranked, left |-> b.left \ {m}, medal |-> m]
  OBVIOUS
<1>8. /\ job' = [job EXCEPT ![j] = next] /\ medals' = medals \cup {[medal |-> m, by |-> j]}
      /\ UNCHANGED <<total, basis, withdrawn, mark, employed, unsummed, rewarded>>
  BY <1>1, <1>6, <1>7 DEF CreateAchievement, Proceed
<1>9. job'[j] = next
  BY <1>8 DEF PInv
<1>10. RTypes'
  BY <1>8 DEF PInv, RTypes
<1>11. Ranked(b.ranked)'
  BY <1>5, <1>8 DEF Ranked, RankIn, CompareRank, InStore
<1>12. Medals(b.ranked)' = all
  BY <1>4 DEF Medals, RankIn, CompareRank, InStore
<1>13. medals' = Made(j, all \ next.left) /\ rewarded' = Made(j, all \ (next.left \cup {m}))
  <2>1. all \ next.left = (all \ b.left) \cup {m} /\ all \ (next.left \cup {m}) = all \ b.left
    BY <1>5, <1>6, <1>7
  <2> QED
    BY <1>5, <1>8, <2>1 DEF Made
<1>14. Stage(j)'
  BY <1>5, <1>6, <1>7, <1>9, <1>11, <1>12, <1>13 DEF Stage, IsRead, Made
<1>15. next.at \notin Over
  BY <1>7 DEF Over
<1> QED
  BY <1>2, <1>8, <1>10, <1>14, <1>15, RunKeeps

LEMMA RewardKeeps ==
  ASSUME PInv, NEW j \in Jobs, CreateReward(j)
  PROVE  PInv'
<1>1. PICK b : b = job[j]
  OBVIOUS
<1>2. b.at = "reward" /\ Running(j)
  BY <1>1 DEF CreateReward, At, Running, Over
<1>3. Stage(j)
  BY <1>2 DEF PInv
<1>4. PICK all : all = Medals(b.ranked)
  OBVIOUS
<1>5. /\ IsRead(b.ranked) /\ Ranked(b.ranked) /\ b.left \subseteq all /\ b.medal \in all \ b.left
      /\ medals = Made(j, all \ b.left) /\ rewarded = Made(j, all \ (b.left \cup {b.medal}))
  BY <1>1, <1>2, <1>3, <1>4 DEF Stage
<1>6. PICK next : next = [at |-> "award", ranked |-> b.ranked, left |-> b.left]
  OBVIOUS
<1>7. /\ job' = [job EXCEPT ![j] = next] /\ rewarded' = rewarded \cup {[medal |-> b.medal, by |-> j]}
      /\ UNCHANGED <<total, basis, withdrawn, mark, employed, unsummed, medals>>
  BY <1>1, <1>6 DEF CreateReward, Proceed
<1>8. job'[j] = next
  BY <1>7 DEF PInv
<1>9. RTypes'
  BY <1>7 DEF PInv, RTypes
<1>10. Ranked(b.ranked)'
  BY <1>5, <1>7 DEF Ranked, RankIn, CompareRank, InStore
<1>11. Medals(b.ranked)' = all
  BY <1>4 DEF Medals, RankIn, CompareRank, InStore
<1>12. rewarded' = medals'
  <2>1. all \ b.left = (all \ (b.left \cup {b.medal})) \cup {b.medal}
    BY <1>5
  <2> QED
    BY <1>5, <1>7, <2>1 DEF Made
<1>13. Stage(j)'
  BY <1>5, <1>6, <1>7, <1>8, <1>10, <1>11, <1>12 DEF Stage, IsRead, Made
<1>14. next.at \notin Over
  BY <1>6 DEF Over
<1> QED
  BY <1>2, <1>7, <1>9, <1>13, <1>14, RunKeeps

LEMMA EndKeeps ==
  ASSUME PInv, NEW j \in Jobs, EndRun(j)
  PROVE  PInv'
<1>1. PICK b : b = job[j]
  OBVIOUS
<1>2. b.at = "award" /\ Running(j) /\ b.left = {}
  BY <1>1 DEF EndRun, At, Running, Over
<1>3. Stage(j)
  BY <1>2 DEF PInv
<1>4. /\ IsRead(b.ranked) /\ Ranked(b.ranked)
      /\ medals = Made(j, Medals(b.ranked)) /\ rewarded = medals
  BY <1>1, <1>2, <1>3 DEF Stage
<1>5. PICK next : next = [at |-> "done"]
  OBVIOUS
<1>6. /\ job' = [job EXCEPT ![j] = next] /\ basis' = b.ranked
      /\ UNCHANGED <<total, withdrawn, mark, employed, unsummed, medals, rewarded>>
  BY <1>1, <1>5 DEF EndRun, Proceed
<1>7. RTypes'
  BY <1>6 DEF PInv, RTypes
<1>8. Ranked(b.ranked)'
  BY <1>4, <1>6 DEF Ranked, RankIn, CompareRank, InStore
<1>9. Medals(b.ranked)' = Medals(b.ranked)
  BY <1>6 DEF Medals, RankIn, CompareRank, InStore
<1>10. Ended'
  <2>1. IsRead(basis)' /\ Ranked(basis)'
    BY <1>4, <1>6, <1>8 DEF IsRead, Ranked
  <2>2. medals' = Made(j, Medals(b.ranked)') /\ rewarded' = medals'
    BY <1>4, <1>6, <1>9
  <2>3. medals' = Made(j, Medals(basis))'
    BY <1>6, <2>2 DEF Made, Medals
  <2> QED
    BY <2>1, <2>2, <2>3 DEF Ended
<1>11. next.at \in Over
  BY <1>5 DEF Over
<1> QED
  BY <1>2, <1>6, <1>7, <1>10, <1>11, RunKeeps

LEMMA KillKeeps ==
  ASSUME PInv, NEW j \in Jobs, Kill(j)
  PROVE  PInv'
<1>1. PICK next : next = [at |-> "dead"]
  OBVIOUS
<1>2. job' = [job EXCEPT ![j] = next] /\ basis' = NoMark
  BY <1>1 DEF Kill
<1>3. RTypes'
  BY DEF Kill, support, PInv, RTypes
<1>4. Running(j)
  BY DEF Kill, Running, Over
<1>5. next.at \in Over
  BY <1>1 DEF Over
<1> QED
  BY <1>2, <1>3, <1>4, <1>5, RunKeeps
------------------------------------------------------------------------------
LEMMA RankingStep ==
  ASSUME PInv, [RankingNext]_rankvars
  PROVE  PInv'
<1>1. ASSUME UNCHANGED rankvars
      PROVE  PInv'
  <2>1. RTypes'
    BY <1>1 DEF rankvars, support, PInv, RTypes
  <2> QED
    BY <1>1, <2>1, SurroundingsKeep DEF rankvars, support
<1> QED
  BY <1>1, CorrectKeeps, LeaveKeeps, DeleteKeeps, RecomputeKeeps, BuildKeeps, WriteRanksKeeps, ClearKeeps,
     AchievementKeeps, RewardKeeps, EndKeeps, KillKeeps
     DEF RankingNext

\* What each stage of a run leaves in the tables.
THEOREM RankingPInv == RankingSpec => []PInv
<1>1. RankingInit => PInv
  BY RankingStarts
<1>2. PInv /\ [RankingNext]_rankvars => PInv'
  BY RankingStep
<1> QED
  BY <1>1, <1>2, PTL DEF RankingSpec
------------------------------------------------------------------------------
(* The podium.                                                              *)

\* The comparison of the code and the order of its tests are one; so the rank
\* of a row is one more than the number of rows before it.
LEMMA RankIsPlace ==
  ASSUME NEW ranked, IsRead(ranked), NEW rows \in SUBSET DOMAIN ranked, NEW r \in DOMAIN ranked
  PROVE  /\ RankIn(ranked, rows, r) = 1 + Cardinality({s \in rows : Before(ranked[s], ranked[r], s, r)})
         /\ Cardinality({s \in rows : Before(ranked[s], ranked[r], s, r)}) \in Nat
<1>1. ASSUME NEW s \in rows
      PROVE  CompareRank(ranked, s, r) <=> Before(ranked[s], ranked[r], s, r)
  <2>1. PICK a : a = ranked[s]
    OBVIOUS
  <2>2. PICK b : b = ranked[r]
    OBVIOUS
  <2>3. a = [points |-> a.points, days |-> a.days, late |-> a.late]
        /\ b = [points |-> b.points, days |-> b.days, late |-> b.late]
    BY <2>1, <2>2 DEF IsRead
  <2>4. a = b <=> a.points = b.points /\ a.days = b.days /\ a.late = b.late
    BY <2>3
  <2> QED
    BY <2>1, <2>2, <2>4 DEF CompareRank, Before
<1>2. {s \in rows : CompareRank(ranked, s, r)} = {s \in rows : Before(ranked[s], ranked[r], s, r)}
  BY <1>1
<1>3. IsFiniteSet({s \in rows : Before(ranked[s], ranked[r], s, r)})
  BY RankingAssumption, FS_Subset DEF IsRead
<1> QED
  BY <1>2, <1>3, FS_CardinalityType DEF RankIn

\* The achievements of a run: row r has the one of its place in its branch, if
\* that is among the first three, and the first of all has another.
BranchMedal(ranked, j, r) ==
  [medal |-> [row |-> r, type |-> Podium[RankIn(ranked, InStore(ranked, Store[r]), r)],
              scope |-> "branch", points |-> ranked[r].points],
   by |-> j]
GlobalMedal(ranked, j, r) ==
  [medal |-> [row |-> r, type |-> "eotm", scope |-> "global", points |-> ranked[r].points], by |-> j]

LEMMA MedalsOf ==
  ASSUME NEW ranked, NEW j, NEW m
  PROVE  m \in Made(j, Medals(ranked)) <=>
           \E r \in DOMAIN ranked :
             \/ /\ RankIn(ranked, InStore(ranked, Store[r]), r) <= 3
                /\ m = BranchMedal(ranked, j, r)
             \/ RankIn(ranked, DOMAIN ranked, r) = 1 /\ m = GlobalMedal(ranked, j, r)
BY Zenon DEF Made, Medals, BranchMedal, GlobalMedal

LEMMA PodiumTypes ==
  /\ \A i, k \in 1 .. 3 : Podium[i] = Podium[k] => i = k
  /\ \A i \in 1 .. 3 : Podium[i] # "eotm"
<1>1. Podium[1] = "top_1" /\ Podium[2] = "top_2" /\ Podium[3] = "top_3"
  BY DEF Podium
<1> QED
  BY <1>1

\* Who holds what.
LEMMA Holders ==
  ASSUME NEW ranked, IsRead(ranked), NEW j, NEW r \in DOMAIN ranked,
         RankIn(ranked, InStore(ranked, Store[r]), r) \in Nat \ {0}
  PROVE  /\ \A i \in 1 .. 3 :
              {m \in Made(j, Medals(ranked)) : m.medal.row = r /\ m.medal.type = Podium[i]} =
                IF RankIn(ranked, InStore(ranked, Store[r]), r) = i THEN {BranchMedal(ranked, j, r)} ELSE {}
         /\ {m \in Made(j, Medals(ranked)) : m.medal.row = r /\ m.medal.type = "eotm"} =
              IF RankIn(ranked, DOMAIN ranked, r) = 1 THEN {GlobalMedal(ranked, j, r)} ELSE {}
<1>1. ASSUME NEW q \in DOMAIN ranked
      PROVE  /\ BranchMedal(ranked, j, q).medal.row = q
             /\ BranchMedal(ranked, j, q).medal.type = Podium[RankIn(ranked, InStore(ranked, Store[q]), q)]
             /\ GlobalMedal(ranked, j, q).medal.row = q
             /\ GlobalMedal(ranked, j, q).medal.type = "eotm"
  BY DEF BranchMedal, GlobalMedal
<1>2. PICK k : k = RankIn(ranked, InStore(ranked, Store[r]), r)
  OBVIOUS
<1>3. PICK B : B = BranchMedal(ranked, j, r)
  OBVIOUS
<1>4. PICK G : G = GlobalMedal(ranked, j, r)
  OBVIOUS
<1>5. PICK all : all = Made(j, Medals(ranked))
  OBVIOUS
<1>6. \A m : m \in all /\ m.medal.row = r <=>
               (k <= 3 /\ m = B) \/ (RankIn(ranked, DOMAIN ranked, r) = 1 /\ m = G)
  BY <1>1, <1>2, <1>3, <1>4, <1>5, MedalsOf
<1>7. B.medal.type = Podium[k] /\ G.medal.type = "eotm"
  BY <1>1, <1>2, <1>3, <1>4
<1>8. k \in Nat /\ k # 0
  BY <1>2
<1>9. ASSUME NEW i \in 1 .. 3
      PROVE  {m \in all : m.medal.row = r /\ m.medal.type = Podium[i]} = IF k = i THEN {B} ELSE {}
  BY <1>6, <1>7, <1>8, PodiumTypes
<1>10. {m \in all : m.medal.row = r /\ m.medal.type = "eotm"} =
         IF RankIn(ranked, DOMAIN ranked, r) = 1 THEN {G} ELSE {}
  BY <1>6, <1>7, <1>8, PodiumTypes
<1> QED
  BY <1>2, <1>3, <1>4, <1>5, <1>9, <1>10

LEMMA PodiumRight ==
  ASSUME PInv
  PROVE  PodiumIsRight
<1> SUFFICES ASSUME basis # NoMark, \A j \in Jobs : job[j].at \in {"ready", "done", "dead"}
             PROVE  PodiumIsRight
  BY DEF PodiumIsRight
<1>1. Ended
  BY DEF PInv, Quiet, Running, Over
<1>2. PICK j \in Jobs : medals = Made(j, Medals(basis))
  BY <1>1 DEF Ended
<1>3. IsRead(basis) /\ Ranked(basis) /\ rewarded = medals
  BY <1>1 DEF Ended
<1> DEFINE better(r, rows) == Cardinality({s \in rows : Before(basis[s], basis[r], s, r)})
           mates(r) == {s \in DOMAIN basis : Store[s] = Store[r]}
           held(r, type) == {m \in medals : m.medal.row = r /\ m.medal.type = type}
<1>4. ASSUME NEW r \in DOMAIN basis
      PROVE  /\ \A i \in 1 .. 3 :
                  Cardinality(held(r, Podium[i])) = IF better(r, mates(r)) = i - 1 THEN 1 ELSE 0
             /\ Cardinality(held(r, "eotm")) = IF better(r, DOMAIN basis) = 0 THEN 1 ELSE 0
             /\ r \notin withdrawn => /\ total[r].rankBranch = better(r, mates(r)) + 1
                                     /\ total[r].rankGlobal = better(r, DOMAIN basis) + 1
  <2>1. mates(r) = InStore(basis, Store[r])
    BY DEF InStore
  <2>2. /\ RankIn(basis, InStore(basis, Store[r]), r) = 1 + better(r, mates(r))
        /\ better(r, mates(r)) \in Nat
    <3>1. InStore(basis, Store[r]) \in SUBSET DOMAIN basis
      BY DEF InStore
    <3> QED
      BY <1>3, <2>1, <3>1, RankIsPlace
  <2>3. /\ RankIn(basis, DOMAIN basis, r) = 1 + better(r, DOMAIN basis)
        /\ better(r, DOMAIN basis) \in Nat
    BY <1>3, RankIsPlace
  <2> HIDE DEF better, mates
  <2>4. RankIn(basis, InStore(basis, Store[r]), r) \in Nat \ {0}
    BY <2>2
  <2>5. /\ \A i \in 1 .. 3 :
             held(r, Podium[i]) =
               IF RankIn(basis, InStore(basis, Store[r]), r) = i THEN {BranchMedal(basis, j, r)} ELSE {}
        /\ held(r, "eotm") = IF RankIn(basis, DOMAIN basis, r) = 1 THEN {GlobalMedal(basis, j, r)} ELSE {}
    BY <1>2, <1>3, <2>4, Holders
  <2> HIDE DEF held
  <2>6. \A i \in 1 .. 3 :
          held(r, Podium[i]) = IF better(r, mates(r)) = i - 1 THEN {BranchMedal(basis, j, r)} ELSE {}
    BY <2>2, <2>5
  <2>7. held(r, "eotm") = IF better(r, DOMAIN basis) = 0 THEN {GlobalMedal(basis, j, r)} ELSE {}
    BY <2>3, <2>5
  <2>8. Cardinality({}) = 0 /\ \A x : Cardinality({x}) = 1
    BY FS_EmptySet, FS_Singleton
  <2>9. r \notin withdrawn => /\ total[r].rankBranch = better(r, mates(r)) + 1
                              /\ total[r].rankGlobal = better(r, DOMAIN basis) + 1
    BY <1>3, <2>2, <2>3 DEF Ranked
  <2> QED
    BY <2>6, <2>7, <2>8, <2>9
<1>5. ASSUME NEW m \in medals
      PROVE  m.medal.row \in DOMAIN basis /\ m.medal.points = basis[m.medal.row].points
  <2>1. PICK r \in DOMAIN basis : m = BranchMedal(basis, j, r) \/ m = GlobalMedal(basis, j, r)
    BY <1>2, MedalsOf
  <2> QED
    BY <2>1 DEF BranchMedal, GlobalMedal
<1> QED
  BY <1>3, <1>4, <1>5 DEF PodiumIsRight

\* When a run has ended, the achievements, the rewards and the ranks are those
\* of the values that it read, whatever died, left or was corrected.
THEOREM RankingPodium == RankingSpec => []PodiumIsRight
<1>1. PInv => PodiumIsRight
  BY PodiumRight
<1> QED
  BY <1>1, RankingPInv, PTL
------------------------------------------------------------------------------
(* The two ways in which a person's days are counted.                       *)

\* A summary has the days of its rows.
LEMMA SummaryDays ==
  ASSUME NEW rows, NEW a \in Summaries(rows)
  PROVE  a.days = Cardinality(Days(rows))
<1>1. PICK f \in [Days(rows) -> rows] : a = Summary(f)
  BY DEF Summaries
<1>2. DOMAIN f = Days(rows)
  OBVIOUS
<1> QED
  BY <1>1, <1>2 DEF Summary

\* Of the same days with the same best points, whichever rows are kept.
LEMMA SummariesAgree ==
  ASSUME NEW rows, NEW others, NEW a \in Summaries(rows), NEW b \in Summaries(others),
         Days(rows) = Days(others),
         \A d \in Days(rows) : \A r \in Kept(rows, d), s \in Kept(others, d) :
           mark[r][d].points = mark[s][d].points
  PROVE  a.points = b.points
<1>1. PICK f \in [Days(rows) -> rows] : a = Summary(f) /\ \A d \in Days(rows) : f[d] \in Kept(rows, d)
  BY DEF Summaries
<1>2. PICK g \in [Days(others) -> others] : b = Summary(g) /\ \A d \in Days(others) : g[d] \in Kept(others, d)
  BY DEF Summaries
<1>3. ASSUME NEW d \in Days(rows)
      PROVE  mark[f[d]][d].points = mark[g[d]][d].points
  BY <1>1, <1>2
<1>4. DOMAIN f = Days(rows) /\ DOMAIN g = Days(rows)
  OBVIOUS
<1>5. [d \in DOMAIN f |-> mark[f[d]][d].points] = [d \in DOMAIN g |-> mark[g[d]][d].points]
  BY <1>3, <1>4
<1> QED
  BY <1>1, <1>2, <1>5 DEF Summary

\* Two kept rows of a date have the same points.
LEMMA KeptAlike ==
  ASSUME RTypes, NEW rows \in SUBSET Staff, NEW d \in Dates,
         NEW r \in Kept(rows, d), NEW s \in Kept(rows, d)
  PROVE  mark[r][d].points = mark[s][d].points
<1>1. PICK p : p = mark[r][d]
  OBVIOUS
<1>2. PICK q : q = mark[s][d]
  OBVIOUS
<1>3. p \in Marks /\ q \in Marks /\ p.points <= q.points /\ q.points <= p.points
  BY <1>1, <1>2 DEF Kept, RTypes
<1>4. p.points \in Int /\ q.points \in Int
  BY <1>3, RankingAssumption
<1> QED
  BY <1>1, <1>2, <1>3, <1>4

\* Former rows that were nowhere the only best take nothing with them: a
\* person's page and the leaderboard show the same points and days.
THEOREM RankingPageIsBoard == RankingSpec => []PageIsBoard
<1>1. PInv => PageIsBoard
  <2>1. SUFFICES ASSUME PInv, NEW p \in {Person[r] : r \in Staff},
                        NEW a \in BoardTotals(p), NEW b \in PageTotals(p)
                 PROVE  /\ a.days <= b.days
                        /\ BestRemain(p) => a.points = b.points /\ a.days = b.days
    BY DEF PageIsBoard
  <2> DEFINE now == BoardRows(p)
             all == HistoryRows(p)
  <2>2. now = all \cap employed /\ all \in SUBSET Staff /\ RTypes
    BY <2>1 DEF BoardRows, HistoryRows, PInv, RTypes
  <2>3. a \in Summaries(now) /\ b \in Summaries(all)
    BY DEF BoardTotals, PageTotals
  <2> HIDE DEF now, all
  <2>4. Days(now) \subseteq Days(all) /\ Days(all) \subseteq Dates
    BY <2>2 DEF Days
  <2>5. a.days = Cardinality(Days(now)) /\ b.days = Cardinality(Days(all))
    BY <2>3, SummaryDays
  <2>6. a.days <= b.days
    <3>1. IsFiniteSet(Days(all))
      BY <2>4, RankingAssumption, FS_Subset
    <3> QED BY <2>4, <2>5, <3>1, FS_Subset
  <2>7. ASSUME BestRemain(p) PROVE a.points = b.points /\ a.days = b.days
    <3>1. ASSUME NEW d \in Days(all)
          PROVE  \E best \in Kept(all, d) : best \in Kept(now, d)
      <4>1. PICK best \in Kept(all, d) : best \in employed
        BY <2>7 DEF BestRemain, all
      <4>2. best \in Kept(now, d)
        BY <2>2, <4>1 DEF Kept
      <4> QED BY <4>1, <4>2
    <3>2. Days(now) = Days(all)
      BY <2>2, <2>4, <3>1 DEF Days, Kept
    <3>3. ASSUME NEW d \in Days(now), NEW r \in Kept(now, d), NEW s \in Kept(all, d)
          PROVE  mark[r][d].points = mark[s][d].points
      <4>1. PICK best \in Kept(all, d) : best \in Kept(now, d)
        BY <3>1, <3>2
      <4>2. d \in Dates /\ now \in SUBSET Staff
        BY <2>2, <2>4, <3>2
      <4>3. mark[r][d].points = mark[best][d].points /\ mark[best][d].points = mark[s][d].points
        BY <2>2, <4>1, <4>2, KeptAlike
      <4> QED BY <4>3
    <3> QED BY <2>3, <2>5, <3>2, <3>3, SummariesAgree
  <2> QED
    BY <2>6, <2>7
<1> QED
  BY <1>1, RankingPInv, PTL

(***************************************************************************)
(* What holds of KpiRules: what a score says of its check-in, whatever the *)
(* threshold, the rules and the delta; and how old the rules may be that   *)
(* it uses, whatever loads and saves overlap.                              *)
(***************************************************************************)

------------------------------------------------------------------------------
(* The score, as a table.                                                   *)

\* The least element is the first.
LEMMA FirstIs ==
  ASSUME NEW S \in SUBSET Int, NEW i \in S, \A j \in S : i <= j
  PROVE  FirstOf(S) = i
<1>1. FirstOf(S) \in S /\ \A j \in S : FirstOf(S) <= j
  BY DEF FirstOf
<1>2. FirstOf(S) <= i /\ i <= FirstOf(S)
  BY <1>1
<1>3. FirstOf(S) \in Int /\ i \in Int
  BY <1>1
<1> QED BY <1>2, <1>3

\* The ends that stand for none.
LEMMA Ends == NoLimit \in Int /\ NoLimit > 300 /\ UnboundedEarly \in Int /\ UnboundedEarly < -600
BY SMT DEF NoLimit, UnboundedEarly

\* Which rule matches which delta.
LEMMA RulesMatch ==
  ASSUME NEW d \in Int, NEW t \in Int
  PROVE  /\ Matches(1, d, t) <=> OnTime(d, t)
         /\ Matches(2, d, t) <=> d \in -119 .. 0
         /\ Matches(3, d, t) <=> d \in -299 .. -120
         /\ Matches(4, d, t) <=> d \in -599 .. -300
         /\ Matches(5, d, t) <=> d \in UnboundedEarly .. -600
         /\ Matches(6, d, t) <=> d \in 0 .. 119
         /\ Matches(7, d, t) <=> d \in 120 .. 299
         /\ Matches(8, d, t) <=> d >= 300
BY Ends DEF Matches, DefaultRule, Rule

LEMMA RulePoints ==
  /\ DefaultRule[1].points = 0 /\ DefaultRule[2].points = 0 /\ DefaultRule[3].points = 1
  /\ DefaultRule[4].points = 2 /\ DefaultRule[5].points = 3 /\ DefaultRule[6].points = -1
  /\ DefaultRule[7].points = -2 /\ DefaultRule[8].points = -3
BY DEF DefaultRule, Rule

\* What the minutes give to a check-in that is not on time.
LEMMA MinutesScore ==
  ASSUME NEW d \in Int, NEW t \in Nat, ~OnTime(d, t)
  PROVE  FallbackPoints(ScoringMinutes(d, t)) =
           IF d > t
           THEN IF d >= 300 THEN -3 ELSE IF d >= 120 THEN -2 ELSE IF d >= 60 THEN -1 ELSE 0
           ELSE IF d <= -600 THEN 3 ELSE IF d <= -300 THEN 2 ELSE IF d <= -120 THEN 1 ELSE 0
<1>1. CASE d > t
  <2>1. ScoringMinutes(d, t) = d \div 60
    BY <1>1 DEF ScoringMinutes, OnTime
  <2> QED BY <1>1, <2>1 DEF FallbackPoints
<1>2. CASE d < -t
  <2>1. ScoringMinutes(d, t) = -((-d) \div 60)
    BY <1>2 DEF ScoringMinutes, OnTime
  <2> QED BY <1>2, <2>1 DEF FallbackPoints
<1> QED BY <1>1, <1>2 DEF OnTime

\* The points, when the rule for being on time is active: only for a check-in
\* that is late by less than a minute it matters which other rules are.
LEMMA PointsTable ==
  ASSUME NEW A \in SUBSET RuleIds, 1 \in A, NEW d \in Int, NEW t \in Nat
  PROVE  PointsFromRules(A, d, t) =
           IF OnTime(d, t) THEN 0
           ELSE IF d > t
           THEN IF d >= 300 THEN -3 ELSE IF d >= 120 THEN -2 ELSE IF d >= 60 \/ 6 \in A THEN -1 ELSE 0
           ELSE IF d <= -600 THEN 3 ELSE IF d <= -300 THEN 2 ELSE IF d <= -120 THEN 1 ELSE 0
<1> DEFINE M == Matching(A, d, t)
<1>a. M \subseteq A /\ \A i \in M : Matches(i, d, t)
  BY DEF Matching
<1>b. A \in SUBSET Int
  BY DEF RuleIds
<1>0. M \in SUBSET Int /\ \A i \in M : i \in A /\ Matches(i, d, t)
  BY <1>a, <1>b
<1>1. CASE OnTime(d, t)
  <2>1. 1 \in M /\ \A j \in M : 1 <= j
    BY <1>1, RulesMatch DEF Matching, RuleIds
  <2>2. FirstOf(M) = 1
    BY <1>0, <2>1, FirstIs
  <2> QED BY <1>1, <2>1, <2>2, RulePoints DEF PointsFromRules
<1>2. CASE ~OnTime(d, t) /\ M = {}
  <2>1. PointsFromRules(A, d, t) = FallbackPoints(ScoringMinutes(d, t))
    BY <1>2 DEF PointsFromRules
  <2>2. 6 \in A => ~ d \in 0 .. 119
    BY <1>2, RulesMatch DEF Matching
  <2> QED BY <1>2, <2>1, <2>2, MinutesScore
<1>3. CASE ~OnTime(d, t) /\ M # {}
  <2>1. PICK i \in M : TRUE
    BY <1>3
  <2>2. i \in 2 .. 8
    BY <1>0, <1>3, <2>1, RulesMatch DEF RuleIds
  <2>3. \A j \in M : j = i
    <3> TAKE j \in M
    <3>1. j \in 2 .. 8
      BY <1>0, <1>3, RulesMatch DEF RuleIds
    <3>2. Matches(i, d, t) /\ Matches(j, d, t)
      BY <1>0, <2>1
    <3>3. d # 0
      BY <1>3 DEF OnTime
    <3> QED BY <2>2, <3>1, <3>2, <3>3, RulesMatch
  <2>4. FirstOf(M) = i
    BY <1>0, <2>1, <2>3, FirstIs
  <2>5. PointsFromRules(A, d, t) = DefaultRule[i].points
    BY <1>3, <2>4 DEF PointsFromRules
  <2>6. Matches(i, d, t) /\ i \in A
    BY <1>0, <2>1
  <2>7. d > t \/ d < -t
    BY <1>3 DEF OnTime
  <2> QED BY <1>3, <2>2, <2>5, <2>6, <2>7, RulesMatch, RulePoints, Ends
<1> QED BY <1>1, <1>2, <1>3

\* No points are lost when not late, none gained when late.
LEMMA SignOfPoints ==
  ASSUME NEW A \in SUBSET RuleIds, 1 \in A, NEW d \in Int, NEW t \in Nat
  PROVE  IF d > t THEN PointsFromRules(A, d, t) <= 0 ELSE PointsFromRules(A, d, t) >= 0
BY PointsTable DEF OnTime

\* The points fall with the delta.
LEMMA PointsFall ==
  ASSUME NEW A \in SUBSET RuleIds, 1 \in A, NEW d \in Int, NEW e \in Int, NEW t \in Nat, d <= e
  PROVE  PointsFromRules(A, d, t) >= PointsFromRules(A, e, t)
<1>1. CASE OnTime(e, t)
  BY <1>1, PointsTable DEF OnTime
<1>2. CASE e > t
  BY <1>2, PointsTable DEF OnTime
<1>3. CASE e < -t
  BY <1>3, PointsTable DEF OnTime
<1> QED BY <1>1, <1>2, <1>3 DEF OnTime

\* A late check-in has late minutes, any other has none.
LEMMA LateHasMinutes ==
  ASSUME NEW d \in Int, NEW t \in Nat
  PROVE  Status(d, t) = "late" <=> LateMinutes(d, t) > 0
<1>1. CASE d > t
  <2>1. ScoringMinutes(d, t) = d \div 60
    BY <1>1 DEF ScoringMinutes, OnTime
  <2> QED BY <1>1, <2>1 DEF LateMinutes, Status, AtLeast
<1>2. CASE OnTime(d, t)
  BY <1>2 DEF LateMinutes, Status, AtLeast, ScoringMinutes, OnTime
<1>3. CASE d < -t
  <2>1. ScoringMinutes(d, t) = -((-d) \div 60)
    BY <1>3 DEF ScoringMinutes, OnTime
  <2> QED BY <1>3, <2>1 DEF LateMinutes, Status, AtLeast
<1> QED BY <1>1, <1>2, <1>3 DEF OnTime
------------------------------------------------------------------------------
(* The invariant: where each value that a call or a cache holds comes from. *)

Val(k) == IF k = "settings" THEN 0 .. 300 ELSE SUBSET RuleIds

\* What the database holds and has held, and the time.
World == [live |-> [k \in Kinds |-> Live(k)], past |-> retired, clock |-> clock]

\* What was in force at the time s or later.
Since(w, k, v, s) == v = w.live[k] \/ \E r \in w.past[k] : r.val = v /\ s <= r.till

\* What was in force less than CACHE_MS before the time s, or later.
Recent(w, k, v, s) == v = w.live[k] \/ \E r \in w.past[k] : r.val = v /\ s < r.till + CacheMs

Cached(w, k, e) ==
  e # NoValue => e.val \in Val(k) /\ e.at \in Nat /\ e.at <= w.clock /\ Since(w, k, e.val, e.at)

\* A load of the kind k, by a call that began at the time s.
Loaded(w, k, f, s) ==
  /\ f.st = "seed" => f.next \in RuleIds
  /\ f.st \in {"count", "seed", "read"} => s \in Nat /\ s <= w.clock
  /\ f.st = "store" => f.val \in Val(k) /\ s \in Nat /\ s <= w.clock /\ Since(w, k, f.val, s)
  /\ f.st = "have" => f.val \in Val(k) /\ s \in Nat /\ s <= w.clock /\ Recent(w, k, f.val, s)

ScoreOK(w, s) ==
  s # NoValue =>
    /\ s.now \in Nat /\ s.now <= w.clock
    /\ Recent(w, "settings", s.of.threshold, s.now) /\ Recent(w, "rules", s.of.active, s.now)
    /\ \E d \in Int, t \in 0 .. 300, A \in SUBSET RuleIds : s.of = Fields(d, t, A)

Keys == Nodes \X Kinds
Loads == KCalls \X Kinds

Db ==
  /\ settings \in 0 .. 300 /\ rules \in Table /\ clock \in Nat
  /\ retired = [k \in Kinds |-> retired[k]]
  /\ \A k \in Kinds : \A r \in retired[k] : r.till \in Nat

Shapes ==
  /\ cached = [x \in Keys |-> cached[x]] /\ fill = [x \in Loads |-> fill[x]]
  /\ ask = [c \in KCalls |-> ask[c]] /\ scored = [c \in KCalls |-> scored[c]]
  /\ saving = [n \in Nodes |-> saving[n]] /\ clean \in [Nodes -> BOOLEAN]

AllSaving ==
  \A n \in Nodes : saving[n].st \in {"existing", "replace"} => saving[n].table \in Table

AllCached == \A n \in Nodes, k \in Kinds : Cached(World, k, cached[<<n, k>>])
AllLoaded == \A c \in KCalls, k \in Kinds : Loaded(World, k, fill[<<c, k>>], ask[c].now)
AllScored == \A c \in KCalls : ScoreOK(World, scored[c])

\* A clean node: no load of its own will store anything else either.
AllClean ==
  \A n \in Nodes, k \in Kinds : clean[n] =>
    /\ cached[<<n, k>>] # NoValue => cached[<<n, k>>].val = Live(k)
    /\ \A c \in KCalls : fill[<<c, k>>].st = "store" /\ ask[c].node = n => fill[<<c, k>>].val = Live(k)

KInv == Db /\ Shapes /\ AllSaving /\ AllCached /\ AllLoaded /\ AllScored /\ AllClean
------------------------------------------------------------------------------
(* Values stay recent as the database changes.                              *)

Later(w, u) ==
  /\ w.clock \in Nat /\ u.clock \in Nat /\ w.clock <= u.clock
  /\ \A k \in Kinds :
       /\ w.past[k] \subseteq u.past[k]
       /\ \/ u.live[k] = w.live[k]
          \/ [val |-> w.live[k], till |-> w.clock] \in u.past[k]

LEMMA SinceLater ==
  ASSUME NEW w, NEW u, NEW k \in Kinds, NEW v, NEW s \in Nat,
         Later(w, u), s <= w.clock, Since(w, k, v, s)
  PROVE  Since(u, k, v, s)
<1>1. CASE v = w.live[k]
  <2>1. CASE u.live[k] = w.live[k]
    BY <1>1, <2>1 DEF Since
  <2>2. CASE [val |-> w.live[k], till |-> w.clock] \in u.past[k]
    BY <1>1, <2>2 DEF Since
  <2> QED BY <2>1, <2>2 DEF Later
<1>2. CASE \E r \in w.past[k] : r.val = v /\ s <= r.till
  BY <1>2 DEF Since, Later
<1> QED BY <1>1, <1>2 DEF Since

LEMMA RecentLater ==
  ASSUME NEW w, NEW u, NEW k \in Kinds, NEW v, NEW s \in Nat,
         Later(w, u), s <= w.clock, Recent(w, k, v, s)
  PROVE  Recent(u, k, v, s)
<1>1. CASE v = w.live[k]
  <2>1. CASE u.live[k] = w.live[k]
    BY <1>1, <2>1 DEF Recent
  <2>2. CASE [val |-> w.live[k], till |-> w.clock] \in u.past[k]
    <3>1. s < w.clock + CacheMs
      BY KpiRulesAssumption DEF KpiRulesAssumption, Later
    <3> QED BY <1>1, <2>2, <3>1 DEF Recent
  <2> QED BY <2>1, <2>2 DEF Later
<1>2. CASE \E r \in w.past[k] : r.val = v /\ s < r.till + CacheMs
  BY <1>2 DEF Recent, Later
<1> QED BY <1>1, <1>2 DEF Recent

LEMMA CachedLater ==
  ASSUME NEW w, NEW u, NEW k \in Kinds, NEW e, Later(w, u), Cached(w, k, e)
  PROVE  Cached(u, k, e)
<1> SUFFICES ASSUME e # NoValue
             PROVE  e.val \in Val(k) /\ e.at \in Nat /\ e.at <= u.clock /\ Since(u, k, e.val, e.at)
  BY DEF Cached
<1>1. e.val \in Val(k) /\ e.at \in Nat /\ e.at <= w.clock /\ Since(w, k, e.val, e.at)
  BY DEF Cached
<1>2. Since(u, k, e.val, e.at)
  BY <1>1, SinceLater
<1>3. e.at <= u.clock
  BY <1>1 DEF Later
<1> QED BY <1>1, <1>2, <1>3

LEMMA LoadedLater ==
  ASSUME NEW w, NEW u, NEW k \in Kinds, NEW f, NEW s, Later(w, u), Loaded(w, k, f, s)
  PROVE  Loaded(u, k, f, s)
<1>1. ASSUME f.st = "store"
      PROVE  f.val \in Val(k) /\ s \in Nat /\ s <= u.clock /\ Since(u, k, f.val, s)
  <2>1. f.val \in Val(k) /\ s \in Nat /\ s <= w.clock /\ Since(w, k, f.val, s)
    BY <1>1 DEF Loaded
  <2>2. Since(u, k, f.val, s)
    BY <2>1, SinceLater
  <2> QED BY <2>1, <2>2 DEF Later
<1>2. ASSUME f.st = "have"
      PROVE  f.val \in Val(k) /\ s \in Nat /\ s <= u.clock /\ Recent(u, k, f.val, s)
  <2>1. f.val \in Val(k) /\ s \in Nat /\ s <= w.clock /\ Recent(w, k, f.val, s)
    BY <1>2 DEF Loaded
  <2>2. Recent(u, k, f.val, s)
    BY <2>1, RecentLater
  <2> QED BY <2>1, <2>2 DEF Later
<1>3. ASSUME f.st \in {"count", "seed", "read"} PROVE s \in Nat /\ s <= u.clock
  BY <1>3 DEF Loaded, Later
<1> QED BY <1>1, <1>2, <1>3 DEF Loaded

LEMMA ScoreLater ==
  ASSUME NEW w, NEW u, NEW s, Later(w, u), ScoreOK(w, s)
  PROVE  ScoreOK(u, s)
<1> SUFFICES ASSUME s # NoValue
             PROVE  /\ s.now \in Nat /\ s.now <= u.clock
                    /\ Recent(u, "settings", s.of.threshold, s.now)
                    /\ Recent(u, "rules", s.of.active, s.now)
                    /\ \E d \in Int, t \in 0 .. 300, A \in SUBSET RuleIds : s.of = Fields(d, t, A)
  BY DEF ScoreOK
<1>1. /\ s.now \in Nat /\ s.now <= w.clock
      /\ Recent(w, "settings", s.of.threshold, s.now) /\ Recent(w, "rules", s.of.active, s.now)
      /\ \E d \in Int, t \in 0 .. 300, A \in SUBSET RuleIds : s.of = Fields(d, t, A)
  BY DEF ScoreOK
<1>2. "settings" \in Kinds /\ "rules" \in Kinds
  BY DEF Kinds
<1>3. Recent(u, "settings", s.of.threshold, s.now)
  BY <1>1, <1>2, RecentLater
<1>4. Recent(u, "rules", s.of.active, s.now)
  BY <1>1, <1>2, RecentLater
<1>5. s.now <= u.clock
  BY <1>1 DEF Later
<1> QED BY <1>1, <1>3, <1>4, <1>5

\* What was in force at the time s, or later, is recent at s; so is what a
\* cache younger than CACHE_MS holds.
LEMMA SinceIsRecent ==
  ASSUME NEW w, NEW k, NEW v, NEW s \in Nat, NEW t \in Nat, t < s + CacheMs, Since(w, k, v, s),
         \A r \in w.past[k] : r.till \in Nat
  PROVE  Recent(w, k, v, t)
<1>1. CASE \E r \in w.past[k] : r.val = v /\ s <= r.till
  <2>1. PICK r \in w.past[k] : r.val = v /\ s <= r.till
    BY <1>1
  <2>2. t < r.till + CacheMs
    BY <2>1, KpiRulesAssumption DEF KpiRulesAssumption
  <2> QED BY <2>1, <2>2 DEF Recent
<1> QED BY <1>1 DEF Since, Recent
------------------------------------------------------------------------------
(* The steps.                                                               *)

\* Steps of a call, and what of a save leaves the database alone.
QuietRules ==
  \/ \E c \in KCalls, n \in Nodes : Ask(c, n)
  \/ \E c \in KCalls, k \in Kinds : Count(c, k) \/ LoadTable(c, k) \/ Keep(c, k) \/ Fail(c, k)
  \/ \E c \in KCalls, d \in Deltas : Score(c, d)
  \/ \E n \in Nodes : Existing(n) \/ InvalidateConfigCache(n) \/ FailSave(n)
  \/ UNCHANGED kvars

\* Steps that write, and the clock.
LoudRules ==
  \/ \E c \in KCalls, k \in Kinds : Seed(c, k)
  \/ \E n \in Nodes :
       \/ \E t \in Thresholds \cup {NoValue}, table \in AskedTables \cup {NoValue} : Save(n, t, table)
       \/ Replace(n)
  \/ Tick

LEMMA QuietOrLoud == [KpiRulesNext]_kvars => QuietRules \/ LoudRules
BY DEF KpiRulesNext, QuietRules, LoudRules

LEMMA QuietKeepsDb == QuietRules => UNCHANGED <<dbVars, clock>>
BY DEF QuietRules, Ask, Count, LoadTable, Keep, Fail, Score, Existing, InvalidateConfigCache, FailSave, kvars, dbVars

LEMMA LaterWhenEqual ==
  ASSUME Db, UNCHANGED dbVars, clock' \in Nat, clock <= clock'
  PROVE  Later(World, World') /\ Db'
BY DEF Db, Later, World, Live, dbVars

\* A step that retires the kind k and changes that kind only.
LEMMA LaterWhenRetired ==
  ASSUME Db, NEW k \in Kinds, Retire(k), UNCHANGED clock,
         \A i \in Kinds \ {k} : Live(i)' = Live(i)
  PROVE  /\ Later(World, World') /\ retired' = [i \in Kinds |-> retired'[i]]
         /\ \A i \in Kinds : \A r \in retired'[i] : r.till \in Nat
<1>1. /\ retired'[k] = retired[k] \cup {[val |-> Live(k), till |-> clock]}
      /\ \A i \in Kinds \ {k} : retired'[i] = retired[i]
      /\ retired' = [i \in Kinds |-> retired'[i]]
  BY DEF Db, Retire
<1>2. \A i \in Kinds : \A r \in retired'[i] : r.till \in Nat
  BY <1>1 DEF Db
<1>3. ASSUME NEW i \in Kinds
      PROVE  /\ retired[i] \subseteq retired'[i]
             /\ Live(i)' = Live(i) \/ [val |-> Live(i), till |-> clock] \in retired'[i]
  BY <1>1
<1>4. Later(World, World')
  BY <1>3 DEF Later, World, Db
<1> QED BY <1>1, <1>2, <1>4

LEMMA SeedLater ==
  ASSUME KInv, NEW c \in KCalls, NEW k \in Kinds, Seed(c, k)
  PROVE  Later(World, World') /\ Db'
<1>1. fill[<<c, k>>].next \in RuleIds
  BY DEF KInv, AllLoaded, Loaded, Seed
<1>2. rules' \in Table /\ UNCHANGED <<settings, clock>>
  BY <1>1 DEF Seed, KInv, Db, Table
<1>3. Retire("rules") /\ "rules" \in Kinds /\ \A i \in Kinds \ {"rules"} : Live(i)' = Live(i)
  BY <1>2 DEF Seed, Kinds, Live
<1> QED BY <1>2, <1>3, LaterWhenRetired DEF KInv, Db

LEMMA SaveLater ==
  ASSUME KInv, NEW n \in Nodes, NEW t \in Thresholds \cup {NoValue},
         NEW table \in AskedTables \cup {NoValue}, Save(n, t, table)
  PROVE  Later(World, World') /\ Db'
<1>1. CASE t = NoValue
  <2>1. UNCHANGED <<dbVars, clock>>
    BY <1>1 DEF Save, dbVars
  <2> QED BY <2>1, LaterWhenEqual DEF KInv, Db
<1>2. CASE t # NoValue
  <2>1. settings' \in 0 .. 300 /\ UNCHANGED <<rules, clock>>
    BY <1>2 DEF Save, Accepted
  <2>2. Retire("settings") /\ "settings" \in Kinds
        /\ \A i \in Kinds \ {"settings"} : Live(i)' = Live(i)
    BY <1>2, <2>1 DEF Save, Kinds, Live
  <2> QED BY <2>1, <2>2, LaterWhenRetired DEF KInv, Db
<1> QED BY <1>1, <1>2

LEMMA ReplaceLater ==
  ASSUME KInv, NEW n \in Nodes, Replace(n)
  PROVE  Later(World, World') /\ Db'
<1>1. CASE saving[n].gone \subseteq rules.kept
  <2>1. saving[n].table \in Table
    BY DEF Replace, KInv, AllSaving
  <2>2. rules' \in Table /\ UNCHANGED <<settings, clock>>
    BY <1>1, <2>1 DEF Replace, KInv, Db, Table
  <2>3. Retire("rules") /\ "rules" \in Kinds /\ \A i \in Kinds \ {"rules"} : Live(i)' = Live(i)
    BY <1>1, <2>2 DEF Replace, Kinds, Live
  <2> QED BY <2>2, <2>3, LaterWhenRetired DEF KInv, Db
<1>2. CASE ~ saving[n].gone \subseteq rules.kept
  <2>1. UNCHANGED <<dbVars, clock>>
    BY <1>2 DEF Replace, dbVars
  <2> QED BY <2>1, LaterWhenEqual DEF KInv, Db
<1> QED BY <1>1, <1>2

\* Time and the history only grow.
LEMMA StepLater ==
  ASSUME KInv, QuietRules \/ LoudRules
  PROVE  Later(World, World') /\ Db'
<1>1. CASE QuietRules
  BY <1>1, QuietKeepsDb, LaterWhenEqual DEF KInv, Db
<1>2. CASE Tick
  BY <1>2, LaterWhenEqual DEF KInv, Db, Tick
<1> QED BY <1>1, <1>2, SeedLater, SaveLater, ReplaceLater DEF LoudRules

LEMMA FlagSet ==
  ASSUME NEW f \in [Nodes -> BOOLEAN], NEW n \in Nodes, NEW b \in BOOLEAN
  PROVE  [f EXCEPT ![n] = b] \in [Nodes -> BOOLEAN]
BY Zenon

\* The shapes, and what the saves bring along.
LEMMA StepShapes ==
  ASSUME KInv, QuietRules \/ LoudRules
  PROVE  Shapes' /\ AllSaving'
<1> USE DEF KInv, Shapes, Keys, Loads
<1>1. CASE QuietRules
  <2>1. ASSUME NEW c \in KCalls, NEW n \in Nodes, Ask(c, n) PROVE Shapes' /\ AllSaving'
    BY <2>1 DEF Ask, AllSaving
  <2>2. ASSUME NEW c \in KCalls, NEW k \in Kinds,
               Count(c, k) \/ LoadTable(c, k) \/ Keep(c, k) \/ Fail(c, k)
        PROVE  Shapes' /\ AllSaving'
    BY <2>2 DEF Count, LoadTable, Keep, Fail, Fill, AllSaving
  <2>3. ASSUME NEW c \in KCalls, NEW d \in Deltas, Score(c, d) PROVE Shapes' /\ AllSaving'
    BY <2>3 DEF Score, AllSaving
  <2>4. ASSUME NEW n \in Nodes, Existing(n) PROVE Shapes' /\ AllSaving'
    BY <2>4 DEF Existing, AllSaving
  <2>5. ASSUME NEW n \in Nodes, InvalidateConfigCache(n) PROVE Shapes' /\ AllSaving'
    <3>1. clean' \in [Nodes -> BOOLEAN]
      BY <2>5, FlagSet DEF InvalidateConfigCache
    <3>2. UNCHANGED <<ask, fill, scored>> /\ cached' = [x \in Keys |-> cached'[x]]
      BY <2>5 DEF InvalidateConfigCache
    <3>3. saving' = [saving EXCEPT ![n] = Idle]
      BY <2>5 DEF InvalidateConfigCache
    <3>4. AllSaving' /\ saving' = [m \in Nodes |-> saving'[m]]
      BY <3>3 DEF AllSaving, Idle
    <3> QED BY <3>1, <3>2, <3>4
  <2>7. ASSUME NEW n \in Nodes, FailSave(n) PROVE Shapes' /\ AllSaving'
    BY <2>7 DEF FailSave, AllSaving, Idle
  <2>6. CASE UNCHANGED kvars
    BY <2>6 DEF kvars, AllSaving
  <2> QED BY <1>1, <2>1, <2>2, <2>3, <2>4, <2>5, <2>6, <2>7 DEF QuietRules
<1>2. CASE LoudRules
  <2>1. ASSUME NEW c \in KCalls, NEW k \in Kinds, Seed(c, k) PROVE Shapes' /\ AllSaving'
    BY <2>1 DEF Seed, Fill, AllSaving
  <2>2. ASSUME NEW n \in Nodes, NEW t \in Thresholds \cup {NoValue},
               NEW table \in AskedTables \cup {NoValue}, Save(n, t, table)
        PROVE  Shapes' /\ AllSaving'
    <3>1. table # NoValue => table \in Table
      BY KpiRulesAssumption DEF KpiRulesAssumption
    <3> QED BY <2>2, <3>1 DEF Save, AllSaving
  <2>3. ASSUME NEW n \in Nodes, Replace(n) PROVE Shapes' /\ AllSaving'
    <3>1. clean' \in [Nodes -> BOOLEAN] /\ UNCHANGED <<ask, fill, scored, cached>>
      BY <2>3 DEF Replace
    <3>2. PICK v \in {Idle, [st |-> "drop"]} : saving' = [saving EXCEPT ![n] = v]
      BY <2>3 DEF Replace
    <3>3. v.st \notin {"existing", "replace"}
      BY DEF Idle
    <3>4. AllSaving' /\ saving' = [m \in Nodes |-> saving'[m]]
      BY <3>2, <3>3 DEF AllSaving
    <3> QED BY <3>1, <3>4
  <2>4. CASE Tick
    BY <2>4 DEF Tick, AllSaving
  <2> QED BY <1>2, <2>1, <2>2, <2>3, <2>4 DEF LoudRules
<1> QED BY <1>1, <1>2

\* A cache entry is what a load has read, or an older entry.
LEMMA StepCached ==
  ASSUME KInv, QuietRules \/ LoudRules
  PROVE  AllCached'
<1>0. Later(World, World')
  BY StepLater
<1>1. ASSUME cached' = cached PROVE AllCached'
  <2> SUFFICES ASSUME NEW n \in Nodes, NEW k \in Kinds, NEW e, e = cached[<<n, k>>]
               PROVE  Cached(World', k, e)
    BY <1>1 DEF AllCached
  <2>1. Cached(World, k, e)
    BY DEF KInv, AllCached
  <2> QED BY <1>0, <2>1, CachedLater
<1>2. ASSUME NEW c \in KCalls, NEW i \in Kinds, Keep(c, i) PROVE AllCached'
  <2> SUFFICES ASSUME NEW n \in Nodes, NEW k \in Kinds, NEW e, e = cached'[<<n, k>>]
               PROVE  Cached(World', k, e)
    BY DEF AllCached
  <2>1. World' = World
    BY <1>2 DEF Keep, World, Live, dbVars
  <2>2. CASE ~(n = ask[c].node /\ k = i)
    <3>1. e = cached[<<n, k>>]
      BY <1>2, <2>2 DEF Keep, KInv, Shapes, Keys
    <3> QED BY <2>1, <3>1 DEF KInv, AllCached
  <2>3. CASE n = ask[c].node /\ k = i
    <3>1. e = [val |-> fill[<<c, k>>].val, at |-> ask[c].now]
      BY <1>2, <2>3 DEF Keep, StoredAt, KInv, Shapes, Keys
    <3>2. /\ fill[<<c, k>>].val \in Val(k) /\ ask[c].now \in Nat /\ ask[c].now <= World.clock
          /\ Since(World, k, fill[<<c, k>>].val, ask[c].now)
      BY <1>2, <2>3 DEF KInv, AllLoaded, Loaded, Keep
    <3> QED BY <2>1, <3>1, <3>2 DEF Cached
  <2> QED BY <2>2, <2>3
<1>3. ASSUME NEW m \in Nodes, InvalidateConfigCache(m) PROVE AllCached'
  <2> SUFFICES ASSUME NEW n \in Nodes, NEW k \in Kinds, NEW e, e = cached'[<<n, k>>]
               PROVE  Cached(World', k, e)
    BY DEF AllCached
  <2>1. World' = World
    BY <1>3 DEF InvalidateConfigCache, World, Live, dbVars
  <2>2. e \in {NoValue, cached[<<n, k>>]}
    BY <1>3 DEF InvalidateConfigCache
  <2>3. Cached(World, k, cached[<<n, k>>])
    BY DEF KInv, AllCached
  <2> QED BY <2>1, <2>2, <2>3 DEF Cached
<1>4. \/ cached' = cached \/ \E c \in KCalls, k \in Kinds : Keep(c, k)
      \/ \E n \in Nodes : InvalidateConfigCache(n)
  BY DEF QuietRules, LoudRules, Ask, Count, Seed, LoadTable, Fail, Score, Save, Existing, Replace, FailSave, Tick, kvars
<1> QED BY <1>1, <1>2, <1>3, <1>4

\* A load has what is in force, or what a cache that is young enough holds.
LEMMA StepLoaded ==
  ASSUME KInv, QuietRules \/ LoudRules
  PROVE  AllLoaded'
<1>0. Later(World, World')
  BY StepLater
<1>a. ASSUME NEW c \in KCalls, NEW k \in Kinds, fill'[<<c, k>>] = fill[<<c, k>>], ask'[c] = ask[c]
      PROVE  Loaded(World', k, fill'[<<c, k>>], ask'[c].now)
  <2>1. PICK f, s : f = fill[<<c, k>>] /\ s = ask[c].now
    OBVIOUS
  <2>2. Loaded(World, k, f, s)
    BY <2>1 DEF KInv, AllLoaded
  <2> QED BY <1>0, <1>a, <2>1, <2>2, LoadedLater
<1>1. CASE UNCHANGED <<fill, ask>>
  BY <1>a, <1>1 DEF AllLoaded
<1>2. ASSUME NEW a \in KCalls, NEW n \in Nodes, Ask(a, n) PROVE AllLoaded'
  <2> SUFFICES ASSUME NEW c \in KCalls, NEW k \in Kinds
               PROVE  Loaded(World', k, fill'[<<c, k>>], ask'[c].now)
    BY DEF AllLoaded
  <2>1. CASE c # a
    <3>1. fill'[<<c, k>>] = fill[<<c, k>>] /\ ask'[c] = ask[c]
      BY <1>2, <2>1 DEF Ask, KInv, Shapes
    <3> QED BY <1>a, <3>1
  <2>2. CASE c = a
    <3>1. ask'[c].now = clock /\ clock \in Nat /\ World' = World /\ World.clock = clock
      BY <1>2, <2>2 DEF Ask, KInv, Shapes, Db, World, Live, dbVars
    <3>2. CASE ~InTime(n, k)
      <4>1. fill'[<<c, k>>].st = "count"
        BY <1>2, <2>2, <3>2 DEF Ask
      <4> QED BY <3>1, <4>1 DEF Loaded
    <3>3. CASE InTime(n, k)
      <4>1. fill'[<<c, k>>] = [st |-> "have", val |-> cached[<<n, k>>].val]
        BY <1>2, <2>2, <3>3 DEF Ask
      <4>2. Cached(World, k, cached[<<n, k>>]) /\ cached[<<n, k>>] # NoValue
        BY <3>3 DEF KInv, AllCached, InTime
      <4>3. PICK v, s : v = cached[<<n, k>>].val /\ s = cached[<<n, k>>].at /\ s \in Nat
        BY <4>2 DEF Cached
      <4>4. v \in Val(k) /\ Since(World, k, v, s)
        BY <4>2, <4>3 DEF Cached
      <4>5. clock < s + CacheMs
        BY <3>1, <3>3, <4>3, KpiRulesAssumption DEF InTime, KpiRulesAssumption
      <4>6. \A r \in World.past[k] : r.till \in Nat
        BY DEF KInv, Db, World
      <4>7. Recent(World, k, v, clock)
        BY <3>1, <4>3, <4>4, <4>5, <4>6, SinceIsRecent
      <4>8. Loaded(World, k, [st |-> "have", val |-> v], clock)
        BY <3>1, <4>4, <4>7 DEF Loaded
      <4> QED BY <3>1, <4>1, <4>3, <4>8
    <3> QED BY <3>2, <3>3
  <2> QED BY <2>1, <2>2
<1>3. ASSUME NEW a \in KCalls, NEW i \in Kinds, NEW f, fill' = [fill EXCEPT ![<<a, i>>] = f],
             ask' = ask, Loaded(World', i, f, ask[a].now)
      PROVE  AllLoaded'
  <2> SUFFICES ASSUME NEW c \in KCalls, NEW k \in Kinds
               PROVE  Loaded(World', k, fill'[<<c, k>>], ask'[c].now)
    BY DEF AllLoaded
  <2>1. CASE c = a /\ k = i
    <3>1. fill'[<<c, k>>] = f
      BY <1>3, <2>1 DEF KInv, Shapes, Loads
    <3> QED BY <1>3, <2>1, <3>1
  <2>2. CASE ~(c = a /\ k = i)
    <3>1. fill'[<<c, k>>] = fill[<<c, k>>] /\ ask'[c] = ask[c]
      BY <1>3, <2>2 DEF KInv, Shapes, Loads
    <3> QED BY <1>a, <3>1
  <2> QED BY <2>1, <2>2
<1>4. ASSUME NEW a \in KCalls, NEW i \in Kinds, Count(a, i) \/ Seed(a, i) \/ Fail(a, i)
      PROVE  AllLoaded'
  <2>0. /\ ask' = ask /\ ask[a].now \in Nat /\ ask[a].now <= World'.clock
    <3>1. ask[a].now \in Nat /\ ask[a].now <= World.clock
      BY <1>4 DEF Count, Seed, Fail, KInv, AllLoaded, Loaded
    <3>2. ask' = ask /\ World'.clock = World.clock
      BY <1>4 DEF Count, Seed, Fail, World
    <3> QED BY <3>1, <3>2
  <2>1. CASE Count(a, i)
    <3> DEFINE f == IF rules.kept = {} THEN [st |-> "seed", next |-> 1] ELSE [st |-> "read"]
    <3>1. fill' = [fill EXCEPT ![<<a, i>>] = f]
      BY <2>1 DEF Count, Fill
    <3>2. Loaded(World', i, f, ask[a].now)
      BY <2>0 DEF Loaded, RuleIds
    <3> HIDE DEF f
    <3> QED BY <1>3, <2>0, <3>1, <3>2
  <2>2. CASE Seed(a, i)
    <3> DEFINE n == fill[<<a, i>>].next
               f == IF n = 8 THEN [st |-> "read"] ELSE [st |-> "seed", next |-> n + 1]
    <3>1. fill' = [fill EXCEPT ![<<a, i>>] = f]
      BY <2>2 DEF Seed, Fill
    <3>2. n \in 1 .. 8
      BY <2>2 DEF Seed, KInv, AllLoaded, Loaded, RuleIds
    <3>3. Loaded(World', i, f, ask[a].now)
      BY <2>0, <3>2 DEF Loaded, RuleIds
    <3> HIDE DEF f
    <3> QED BY <1>3, <2>0, <3>1, <3>3
  <2>3. CASE Fail(a, i)
    <3>1. fill' = [fill EXCEPT ![<<a, i>>] = [st |-> "failed"]]
      BY <2>3 DEF Fail, Fill
    <3>2. Loaded(World', i, [st |-> "failed"], ask[a].now)
      BY DEF Loaded
    <3> QED BY <1>3, <2>0, <3>1, <3>2
  <2> QED BY <1>4, <2>1, <2>2, <2>3
<1>5. ASSUME NEW a \in KCalls, NEW i \in Kinds, LoadTable(a, i) \/ Keep(a, i)
      PROVE  AllLoaded'
  <2>0. World' = World /\ ask' = ask
    BY <1>5 DEF LoadTable, Keep, World, Live, dbVars
  <2>1. CASE LoadTable(a, i)
    <3>1. fill' = [fill EXCEPT ![<<a, i>>] = [st |-> "store", val |-> Live(i)]]
      BY <2>1 DEF LoadTable, Fill
    <3>2. Live(i) \in Val(i) /\ World.live[i] = Live(i) /\ World.clock = clock
      BY DEF KInv, Db, Live, Val, Active, Table, World
    <3>3. ask[a].now \in Nat /\ ask[a].now <= clock
      BY <2>1 DEF LoadTable, KInv, AllLoaded, Loaded, World
    <3>4. Loaded(World', i, [st |-> "store", val |-> Live(i)], ask[a].now)
      BY <2>0, <3>2, <3>3 DEF Loaded, Since
    <3> QED BY <1>3, <2>0, <3>1, <3>4
  <2>2. CASE Keep(a, i)
    <3>1. fill' = [fill EXCEPT ![<<a, i>>] = [st |-> "have", val |-> fill[<<a, i>>].val]]
      BY <2>2 DEF Keep, Fill
    <3>2. /\ fill[<<a, i>>].val \in Val(i) /\ ask[a].now \in Nat /\ ask[a].now <= World.clock
          /\ Since(World, i, fill[<<a, i>>].val, ask[a].now)
      BY <2>2 DEF Keep, KInv, AllLoaded, Loaded
    <3>3. ask[a].now < ask[a].now + CacheMs
      BY <3>2, KpiRulesAssumption DEF KpiRulesAssumption
    <3>4. \A r \in World.past[i] : r.till \in Nat
      BY DEF KInv, Db, World
    <3>5. Recent(World, i, fill[<<a, i>>].val, ask[a].now)
      BY <3>2, <3>3, <3>4, SinceIsRecent
    <3>6. Loaded(World', i, [st |-> "have", val |-> fill[<<a, i>>].val], ask[a].now)
      BY <2>0, <3>2, <3>5 DEF Loaded
    <3> QED BY <1>3, <2>0, <3>1, <3>6
  <2> QED BY <1>5, <2>1, <2>2
<1>6. ASSUME NEW a \in KCalls, NEW d \in Deltas, Score(a, d) PROVE AllLoaded'
  <2> SUFFICES ASSUME NEW c \in KCalls, NEW k \in Kinds
               PROVE  Loaded(World', k, fill'[<<c, k>>], ask'[c].now)
    BY DEF AllLoaded
  <2>1. CASE c # a
    <3>1. fill'[<<c, k>>] = fill[<<c, k>>] /\ ask'[c] = ask[c]
      BY <1>6, <2>1 DEF Score, KInv, Shapes
    <3> QED BY <1>a, <3>1
  <2>2. CASE c = a
    <3>1. fill'[<<c, k>>].st = "none"
      BY <1>6, <2>2 DEF Score, Idle
    <3> QED BY <3>1 DEF Loaded
  <2> QED BY <2>1, <2>2
<1>7. \/ UNCHANGED <<fill, ask>> \/ \E c \in KCalls, n \in Nodes : Ask(c, n)
      \/ \E c \in KCalls, k \in Kinds : Count(c, k) \/ Seed(c, k) \/ Fail(c, k) \/ LoadTable(c, k) \/ Keep(c, k)
      \/ \E c \in KCalls, d \in Deltas : Score(c, d)
  BY DEF QuietRules, LoudRules, Save, Existing, Replace, InvalidateConfigCache, FailSave, Tick, kvars
<1> QED BY <1>1, <1>2, <1>4, <1>5, <1>6, <1>7

\* A score uses what its two loads have.
LEMMA StepScored ==
  ASSUME KInv, QuietRules \/ LoudRules
  PROVE  AllScored'
<1>0. Later(World, World')
  BY StepLater
<1>a. ASSUME NEW c \in KCalls, scored'[c] = scored[c] PROVE ScoreOK(World', scored'[c])
  <2>1. PICK s : s = scored[c]
    OBVIOUS
  <2>2. ScoreOK(World, s)
    BY <2>1 DEF KInv, AllScored
  <2> QED BY <1>0, <1>a, <2>1, <2>2, ScoreLater
<1>1. CASE UNCHANGED scored
  BY <1>a, <1>1 DEF AllScored
<1>2. ASSUME NEW a \in KCalls, NEW n \in Nodes, Ask(a, n) PROVE AllScored'
  <2>1. \A c \in KCalls : scored'[c] \in {NoValue, scored[c]}
    BY <1>2 DEF Ask, KInv, Shapes
  <2>2. \A c \in KCalls : scored'[c] = NoValue => ScoreOK(World', scored'[c])
    BY DEF ScoreOK
  <2> QED BY <1>a, <2>1, <2>2 DEF AllScored
<1>3. ASSUME NEW a \in KCalls, NEW d \in Deltas, Score(a, d) PROVE AllScored'
  <2>1. CASE scored' = scored
    BY <1>1, <2>1
  <2>2. CASE scored' # scored
    <3> DEFINE t == fill[<<a, "settings">>].val
               A == fill[<<a, "rules">>].val
               v == [now |-> ask[a].now, of |-> Fields(d, t, A)]
    <3>1. (\A k \in Kinds : fill[<<a, k>>].st = "have") /\ scored' = [scored EXCEPT ![a] = v]
      BY <1>3, <2>2 DEF Score
    <3>2. /\ t \in 0 .. 300 /\ ask[a].now \in Nat /\ ask[a].now <= World.clock
          /\ Recent(World, "settings", t, ask[a].now)
      BY <3>1 DEF KInv, AllLoaded, Loaded, Kinds, Val
    <3>3. A \in SUBSET RuleIds /\ Recent(World, "rules", A, ask[a].now)
      BY <3>1 DEF KInv, AllLoaded, Loaded, Kinds, Val
    <3>4. d \in Int
      BY KpiRulesAssumption DEF KpiRulesAssumption
    <3>5. v.now = ask[a].now /\ v.of = Fields(d, t, A) /\ v.of.threshold = t /\ v.of.active = A
      BY DEF Fields
    <3> HIDE DEF t, A, v
    <3>6. ScoreOK(World, v)
      BY <3>2, <3>3, <3>4, <3>5 DEF ScoreOK
    <3>7. World' = World
      BY <1>3 DEF Score, World, Live, dbVars
    <3>8. \A c \in KCalls : scored'[c] = IF c = a THEN v ELSE scored[c]
      BY <3>1 DEF KInv, Shapes
    <3> QED BY <1>a, <3>6, <3>7, <3>8 DEF AllScored
  <2> QED BY <2>1, <2>2
<1>4. \/ UNCHANGED scored \/ \E c \in KCalls, n \in Nodes : Ask(c, n)
      \/ \E c \in KCalls, d \in Deltas : Score(c, d)
  BY DEF QuietRules, LoudRules, Count, Seed, LoadTable, Keep, Fail, Save, Existing, Replace, InvalidateConfigCache,
         FailSave, Tick, kvars
<1> QED BY <1>1, <1>2, <1>3, <1>4

\* Nothing else gets into the caches of a node whose last save was clean.
LEMMA StepClean ==
  ASSUME KInv, QuietRules \/ LoudRules
  PROVE  AllClean'
<1> SUFFICES ASSUME NEW n \in Nodes, NEW k \in Kinds, clean'[n]
             PROVE  /\ cached'[<<n, k>>] # NoValue => cached'[<<n, k>>].val = Live(k)'
                    /\ \A c \in KCalls : fill'[<<c, k>>].st = "store" /\ ask'[c].node = n
                                           => fill'[<<c, k>>].val = Live(k)'
  BY DEF AllClean
<1> DEFINE Ok == /\ cached[<<n, k>>] # NoValue => cached[<<n, k>>].val = Live(k)
                 /\ \A c \in KCalls : fill[<<c, k>>].st = "store" /\ ask[c].node = n
                                        => fill[<<c, k>>].val = Live(k)
<1>0. clean[n] => Ok
  BY DEF KInv, AllClean
<1>1. CASE QuietRules
  <2>0. Live(k)' = Live(k)
    BY <1>1, QuietKeepsDb DEF Live, dbVars
  <2>1. ASSUME NEW a \in KCalls, NEW m \in Nodes, Ask(a, m) PROVE Ok'
    <3>1. UNCHANGED <<clean, cached>>
      BY <2>1 DEF Ask
    <3>2. \A c \in KCalls : \/ fill'[<<c, k>>].st # "store"
                            \/ fill'[<<c, k>>] = fill[<<c, k>>] /\ ask'[c] = ask[c]
      BY <2>1 DEF Ask, KInv, Shapes
    <3> QED BY <1>0, <2>0, <3>1, <3>2
  <2>2. ASSUME NEW a \in KCalls, NEW i \in Kinds, Count(a, i) \/ Fail(a, i) PROVE Ok'
    <3>1. UNCHANGED <<clean, cached, ask>>
      BY <2>2 DEF Count, Fail
    <3>2. PICK f \in {[st |-> "seed", next |-> 1], [st |-> "read"], [st |-> "failed"]} :
            fill' = [fill EXCEPT ![<<a, i>>] = f]
      BY <2>2 DEF Count, Fail, Fill
    <3>3. f.st # "store"
      OBVIOUS
    <3>4. \A c \in KCalls : fill'[<<c, k>>].st # "store" \/ fill'[<<c, k>>] = fill[<<c, k>>]
      BY <3>2, <3>3 DEF KInv, Shapes, Loads
    <3> QED BY <1>0, <2>0, <3>1, <3>4
  <2>3. ASSUME NEW a \in KCalls, NEW i \in Kinds, LoadTable(a, i) PROVE Ok'
    <3>1. UNCHANGED <<clean, cached, ask>>
      BY <2>3 DEF LoadTable
    <3>2. \A c \in KCalls : fill'[<<c, k>>].val = Live(k) \/ fill'[<<c, k>>] = fill[<<c, k>>]
      BY <2>3 DEF LoadTable, Fill, KInv, Shapes, Loads
    <3> QED BY <1>0, <2>0, <3>1, <3>2
  <2>4. ASSUME NEW a \in KCalls, NEW i \in Kinds, Keep(a, i) PROVE Ok'
    <3>1. UNCHANGED <<clean, ask>>
      BY <2>4 DEF Keep
    <3>2. \A c \in KCalls : fill'[<<c, k>>].st # "store" \/ fill'[<<c, k>>] = fill[<<c, k>>]
      BY <2>4 DEF Keep, Fill, KInv, Shapes, Loads
    <3>3. \/ cached'[<<n, k>>] = cached[<<n, k>>]
          \/ /\ n = ask[a].node /\ k = i /\ fill[<<a, k>>].st = "store"
             /\ cached'[<<n, k>>].val = fill[<<a, k>>].val
      BY <2>4 DEF Keep, KInv, Shapes, Keys
    <3> QED BY <1>0, <2>0, <3>1, <3>2, <3>3
  <2>5. ASSUME NEW a \in KCalls, NEW d \in Deltas, Score(a, d) PROVE Ok'
    <3>1. UNCHANGED <<clean, cached>>
      BY <2>5 DEF Score
    <3>2. \A c \in KCalls : \/ fill'[<<c, k>>].st # "store"
                            \/ fill'[<<c, k>>] = fill[<<c, k>>] /\ ask'[c] = ask[c]
      BY <2>5 DEF Score, KInv, Shapes, Idle
    <3> QED BY <1>0, <2>0, <3>1, <3>2
  <2>6. ASSUME NEW m \in Nodes, InvalidateConfigCache(m) PROVE Ok'
    <3>1. UNCHANGED <<ask, fill>> /\ cached'[<<n, k>>] \in {NoValue, cached[<<n, k>>]}
          /\ (n = m => cached'[<<n, k>>] = NoValue)
      BY <2>6 DEF InvalidateConfigCache, Dropped
    <3>2. CASE n # m
      <4>1. clean'[n] = clean[n]
        BY <2>6, <3>2 DEF InvalidateConfigCache, KInv, Shapes
      <4> QED BY <1>0, <2>0, <3>1, <4>1
    <3>3. CASE n = m
      <4>1. ~Loading(n)
        BY <2>6, <3>3 DEF InvalidateConfigCache, KInv, Shapes
      <4>2. \A c \in KCalls : ~(fill[<<c, k>>].st = "store" /\ ask[c].node = n)
        BY <4>1 DEF Loading
      <4> QED BY <2>0, <3>1, <3>3, <4>2
    <3> QED BY <3>2, <3>3
  <2>7. CASE UNCHANGED <<clean, cached, fill, ask>>
    BY <1>0, <2>0, <2>7
  <2> QED BY <1>1, <2>1, <2>2, <2>3, <2>4, <2>5, <2>6, <2>7 DEF QuietRules, Existing, FailSave, kvars
<1>2. CASE LoudRules
  <2>1. ~ \E c \in KCalls, i \in Kinds : Seed(c, i)
    BY DEF Seed
  <2>2. UNCHANGED <<settings, rules, clean, cached, fill, ask>>
    BY <1>2, <2>1 DEF LoudRules, Save, Replace, Tick, dbVars
  <2> QED BY <1>0, <2>2 DEF Live
<1> QED BY <1>1, <1>2
------------------------------------------------------------------------------
(* The theorems.                                                            *)

LEMMA InitKInv == KpiRulesInit => KInv
<1> SUFFICES ASSUME KpiRulesInit PROVE KInv
  OBVIOUS
<1> USE DEF KpiRulesInit
<1>1. Db
  BY DEF Db, Seeded, Table, RuleIds
<1>2. Shapes
  BY DEF Shapes, Keys, Loads
<1>3. AllSaving
  BY DEF AllSaving, Idle
<1>4. AllCached
  BY DEF AllCached, Cached
<1>5. AllLoaded
  BY DEF AllLoaded, Loaded, Idle
<1>6. AllScored
  BY DEF AllScored, ScoreOK
<1>7. AllClean
  BY DEF AllClean, Idle
<1> QED BY <1>1, <1>2, <1>3, <1>4, <1>5, <1>6, <1>7 DEF KInv

\* The invariant holds.
LEMMA KInvHolds == KpiRulesSpec => []KInv
<1>1. KInv /\ [KpiRulesNext]_kvars => KInv'
  BY QuietOrLoud, StepLater, StepShapes, StepCached, StepLoaded, StepScored, StepClean DEF KInv
<1> QED BY <1>1, InitKInv, PTL DEF KpiRulesSpec

\* A score is that of some delta, threshold and rules.
LEMMA ScoresAreFields ==
  ASSUME KInv, NEW s \in ScoresMade
  PROVE  \E d \in Int, t \in 0 .. 300, A \in SUBSET RuleIds : s = Fields(d, t, A)
BY DEF ScoresMade, KInv, AllScored, ScoreOK

\* For any threshold from 0 to 300, any of the default rules and any delta at all:
\* a score has late minutes exactly when it is late, no points to gain when it is
\* late, and none to lose when it is not (computeCheckInKpiFields).
THEOREM ScoresFit == KpiRulesSpec => []ScoreFitsStatus
<1>1. KInv => ScoreFitsStatus
  <2> SUFFICES ASSUME KInv, NEW s \in ScoresMade
               PROVE  /\ (s.status = "late") <=> (s.late > 0)
                      /\ 1 \in s.active => IF s.status = "late" THEN s.points <= 0 ELSE s.points >= 0
    BY DEF ScoreFitsStatus
  <2>1. PICK d \in Int, t \in 0 .. 300, A \in SUBSET RuleIds : s = Fields(d, t, A)
    BY ScoresAreFields
  <2>2. /\ s.status = Status(d, t) /\ s.late = LateMinutes(d, t) /\ s.active = A
        /\ s.points = PointsFromRules(A, d, t)
    BY <2>1 DEF Fields
  <2>3. s.status = "late" <=> s.late > 0
    BY <2>2, LateHasMinutes
  <2>4. ASSUME 1 \in A PROVE IF s.status = "late" THEN s.points <= 0 ELSE s.points >= 0
    <3>1. IF d > t THEN PointsFromRules(A, d, t) <= 0 ELSE PointsFromRules(A, d, t) >= 0
      BY <2>4, SignOfPoints
    <3>2. s.status = "late" <=> d > t
      BY <2>2 DEF Status
    <3> QED BY <2>2, <3>1, <3>2
  <2> QED BY <2>2, <2>3, <2>4
<1> QED BY <1>1, KInvHolds, PTL

\* Of two check-ins scored alike, whatever their deltas, the earlier one never
\* scores less (calculateKpiScoreFromRules with its fallback).
THEOREM EarlierNeverLess == KpiRulesSpec => []EarlierScoresNoLess
<1>1. KInv => EarlierScoresNoLess
  <2> SUFFICES ASSUME KInv, NEW r \in ScoresMade, NEW s \in ScoresMade, r.threshold = s.threshold,
                      r.active = s.active, 1 \in s.active, r.delta <= s.delta
               PROVE  r.points >= s.points
    BY DEF EarlierScoresNoLess
  <2>1. PICK d \in Int, t \in 0 .. 300, A \in SUBSET RuleIds : r = Fields(d, t, A)
    BY ScoresAreFields
  <2>2. PICK e \in Int, u \in 0 .. 300, B \in SUBSET RuleIds : s = Fields(e, u, B)
    BY ScoresAreFields
  <2>3. r.threshold = t /\ r.active = A /\ r.delta = d /\ r.points = PointsFromRules(A, d, t)
    BY <2>1 DEF Fields
  <2>4. s.threshold = u /\ s.active = B /\ s.delta = e /\ s.points = PointsFromRules(B, e, u)
    BY <2>2 DEF Fields
  <2>5. u = t /\ B = A /\ 1 \in A /\ d <= e
    BY <2>3, <2>4
  <2>6. PointsFromRules(A, d, t) >= PointsFromRules(A, e, t)
    BY <2>5, PointsFall
  <2> QED BY <2>3, <2>4, <2>5, <2>6
<1> QED BY <1>1, KInvHolds, PTL

\* However slow the loads and however many saves overlap, in any number of
\* processes: what a score uses was in force less than CACHE_MS before it.
THEOREM RecentRules == KpiRulesSpec => []RulesAreRecent
<1>1. KInv => RulesAreRecent
  <2> SUFFICES ASSUME KInv, NEW c \in KCalls, scored[c] # NoValue
               PROVE  /\ Recent(World, "settings", scored[c].of.threshold, scored[c].now)
                      /\ Recent(World, "rules", scored[c].of.active, scored[c].now)
    BY DEF RulesAreRecent, Recent, World, Kinds
  <2> QED BY DEF KInv, AllScored, ScoreOK
<1> QED BY <1>1, KInvHolds, PTL

\* A process that saved with no load of its own on the way caches what was saved
\* (invalidateConfigCache).
THEOREM SavedThenCached == KpiRulesSpec => []SavedIsCached
<1>1. KInv => SavedIsCached
  BY DEF KInv, AllClean, SavedIsCached
<1> QED BY <1>1, KInvHolds, PTL
==============================================================================
