----------------------------- MODULE ScheduleProofs -----------------------------
(***************************************************************************)
(* Proofs about Schedule, for any number of branches, employees, shifts    *)
(* and months: the grid and the attendance stay readable, and an upload    *)
(* leaves the cells of others alone.                                       *)
(*                                                                         *)
(* Sound says of tables what their readers rely on; it is kept by every    *)
(* statement of every handler, so also by a handler that stops half way.   *)
(***************************************************************************)
EXTENDS Schedule, SequenceTheorems, TLAPS

RowRecs == [shop : Shops, shift : ShiftIds \cup {OffId}]

Plans ==
  [master : [ShiftIds -> Codes \cup {Nil}],
   link : [Shops -> [ShiftIds -> Links \cup {Nil}]],
   types : [Shops -> SUBSET ShiftIds],
   typed : [Crew -> BOOLEAN],
   first : [Crew -> ShiftIds],
   shop : [Crew -> Shops],
   cell : [Crew -> [Months -> Cell]],
   row : [Crew -> [Months -> RowRecs \cup {Nil}]]]

\* A shift that a branch has a link to exists.
LinkedExist(d) == \A b \in Shops, i \in ShiftIds : d.link[b][i] # Nil => d.master[i] # Nil

\* So does the shift of a cell, and the one of an attendance.
CellsExist(d) ==
  \A w \in Crew, m \in Months : d.cell[w][m] \in ShiftIds => d.master[d.cell[w][m]] # Nil
RowsExist(d) ==
  \A w \in Crew, m \in Months :
    d.row[w][m] # Nil /\ d.row[w][m].shift # OffId => d.master[d.row[w][m].shift] # Nil

\* The branch of an employee who stayed keeps a link to the shifts of his cells.
CellsLinked(d, gone) ==
  \A w \in Crew \ gone, m \in Months :
    d.cell[w][m] \in ShiftIds => d.link[d.shop[w]][d.cell[w][m]] # Nil

Sound(d, gone) ==
  d \in Plans /\ LinkedExist(d) /\ CellsExist(d) /\ RowsExist(d) /\ CellsLinked(d, gone)

\* What a downloaded spreadsheet holds.
Sheets ==
  [shop : Shops, month : Months, cells : UNION {[W -> Cell] : W \in SUBSET Crew},
   seen : UNION {[W -> Cell] : W \in SUBSET Crew}, edited : SUBSET Crew]

SheetOK ==
  sheet # Nil =>
    /\ sheet \in Sheets
    /\ DOMAIN sheet.seen = DOMAIN sheet.cells
    /\ \A w \in DOMAIN sheet.cells \ sheet.edited : sheet.cells[w] = sheet.seen[w]

SInv == movers \subseteq Crew /\ uploads \in Nat /\ Sound(plan, movers) /\ SheetOK
------------------------------------------------------------------------------
(* The tables that the writes leave.                                        *)

LEMMA LinkIsThere ==
  ASSUME NEW c \in Codes \cup {Nil}
  PROVE  Link(c) \in Links /\ Link(c) # Nil
<1>1. Link(c) \in Links
  BY DEF Link, Links
<1> QED
  BY <1>1, LinksAssumption

\* Seeding links shifts that exist, and changes nothing else.
LEMMA SeededSound ==
  ASSUME NEW d, NEW gone, Sound(d, gone), NEW b \in Shops
  PROVE  /\ Sound(Seeded(d, b), gone)
         /\ Seeded(d, b).master = d.master /\ Seeded(d, b).cell = d.cell /\ Seeded(d, b).shop = d.shop
         /\ Seeded(d, b).row = d.row
<1>1. PICK L : L = Link(Nil)
  OBVIOUS
<1>2. L \in Links /\ L # Nil
  BY <1>1, LinkIsThere
<1>3. PICK e : e = Seeded(d, b)
  OBVIOUS
<1>4. PICK f : f = [i \in ShiftIds |->
                      IF i \in Legacy /\ d.link[b][i] = Nil /\ d.master[i] # Nil THEN L ELSE d.link[b][i]]
  OBVIOUS
<1>5. d \in Plans
  BY DEF Sound
<1>6. f \in [ShiftIds -> Links \cup {Nil}]
  BY <1>2, <1>4, <1>5 DEF Plans
<1>7. e = [d EXCEPT !.link[b] = f]
  BY <1>1, <1>3, <1>4 DEF Seeded
<1>8. /\ e \in Plans /\ e.link = [d.link EXCEPT ![b] = f]
      /\ e.master = d.master /\ e.cell = d.cell /\ e.shop = d.shop /\ e.row = d.row
  BY <1>5, <1>6, <1>7 DEF Plans
<1>9. \A s \in Shops, i \in ShiftIds : /\ d.link[s][i] # Nil => e.link[s][i] # Nil
                                       /\ e.link[s][i] # Nil => d.link[s][i] # Nil \/ d.master[i] # Nil
  BY <1>2, <1>4, <1>5, <1>8 DEF Plans
<1>10. LinkedExist(e)
  BY <1>8, <1>9 DEF Sound, LinkedExist
<1>11. CellsExist(e) /\ RowsExist(e)
  BY <1>8 DEF Sound, CellsExist, RowsExist
<1>12. CellsLinked(e, gone)
  BY <1>5, <1>8, <1>9 DEF Sound, CellsLinked, Plans
<1> QED
  BY <1>3, <1>8, <1>10, <1>11, <1>12 DEF Sound

\* Saved settings: links of branch b that were there are still there.
LEMMA RelinkedSound ==
  ASSUME NEW d, NEW gone, Sound(d, gone), NEW b \in Shops, NEW f \in [ShiftIds -> Links \cup {Nil}],
         \A i \in ShiftIds : /\ f[i] # Nil => d.master[i] # Nil
                             /\ d.link[b][i] # Nil =>
                                  \/ f[i] # Nil
                                  \/ \A w \in Crew, m \in Months :
                                       d.shop[w] = b => d.cell[w][m] # i
  PROVE  Sound([d EXCEPT !.link[b] = f], gone)
<1>1. PICK e : e = [d EXCEPT !.link[b] = f]
  OBVIOUS
<1>2. d \in Plans
  BY DEF Sound
<1>3. /\ e \in Plans /\ e.link = [d.link EXCEPT ![b] = f]
      /\ e.master = d.master /\ e.cell = d.cell /\ e.shop = d.shop /\ e.row = d.row
  BY <1>1, <1>2 DEF Plans
<1>4. LinkedExist(e)
  BY <1>2, <1>3 DEF Sound, LinkedExist, Plans
<1>5. CellsExist(e) /\ RowsExist(e)
  BY <1>3 DEF Sound, CellsExist, RowsExist
<1>6. CellsLinked(e, gone)
  <2>1. SUFFICES ASSUME NEW w \in Crew \ gone, NEW m \in Months, e.cell[w][m] \in ShiftIds
                 PROVE  e.link[e.shop[w]][e.cell[w][m]] # Nil
    BY DEF CellsLinked
  <2>2. d.link[d.shop[w]][d.cell[w][m]] # Nil /\ d.shop[w] \in Shops
    BY <1>2, <1>3, <2>1 DEF Sound, CellsLinked, Plans
  <2>3. CASE d.shop[w] = b
    BY <1>2, <1>3, <2>1, <2>2, <2>3 DEF Plans
  <2>4. CASE d.shop[w] # b
    BY <1>2, <1>3, <2>2, <2>4 DEF Plans
  <2> QED
    BY <2>3, <2>4
<1> QED
  BY <1>1, <1>3, <1>4, <1>5, <1>6 DEF Sound

\* A new or another code of a shift.
LEMMA NamedSound ==
  ASSUME NEW d, NEW gone, Sound(d, gone), NEW i \in ShiftIds, NEW c \in Codes
  PROVE  Sound([d EXCEPT !.master[i] = c], gone)
<1>1. PICK e : e = [d EXCEPT !.master[i] = c]
  OBVIOUS
<1>2. d \in Plans /\ c # Nil
  BY ScheduleAssumption DEF Sound, Codes
<1>3. /\ e \in Plans /\ e.master = [d.master EXCEPT ![i] = c]
      /\ e.link = d.link /\ e.cell = d.cell /\ e.shop = d.shop /\ e.row = d.row
  BY <1>1, <1>2 DEF Plans
<1>4. \A j \in ShiftIds : d.master[j] # Nil => e.master[j] # Nil
  BY <1>2, <1>3 DEF Plans
<1>5. LinkedExist(e) /\ CellsLinked(e, gone) /\ CellsExist(e)
  BY <1>3, <1>4 DEF Sound, LinkedExist, CellsLinked, CellsExist
<1>6. RowsExist(e)
  BY <1>2, <1>3, <1>4 DEF Sound, RowsExist, Plans, RowRecs
<1> QED
  BY <1>1, <1>3, <1>5, <1>6 DEF Sound

\* A shift goes that has no link and no user.
LEMMA GoneSound ==
  ASSUME NEW d, NEW gone, Sound(d, gone), NEW i \in ShiftIds, ~Used(d, i),
         \A b \in Shops : d.link[b][i] = Nil
  PROVE  Sound([d EXCEPT !.master[i] = Nil], gone)
<1>1. PICK e : e = [d EXCEPT !.master[i] = Nil]
  OBVIOUS
<1>2. d \in Plans
  BY DEF Sound
<1>3. /\ e \in Plans /\ e.master = [d.master EXCEPT ![i] = Nil]
      /\ e.link = d.link /\ e.cell = d.cell /\ e.shop = d.shop /\ e.row = d.row
  BY <1>1, <1>2 DEF Plans
<1>4. LinkedExist(e)
  BY <1>2, <1>3 DEF Sound, LinkedExist, Plans
<1>5. CellsLinked(e, gone)
  BY <1>3 DEF Sound, CellsLinked
<1>6. CellsExist(e)
  BY <1>2, <1>3 DEF Sound, CellsExist, Plans, Used
<1>7. RowsExist(e)
  BY <1>2, <1>3 DEF Sound, RowsExist, Plans, Used, RowRecs
<1> QED
  BY <1>1, <1>3, <1>4, <1>5, <1>6, <1>7 DEF Sound

\* Types, defaults and who has a type concern no cell and no attendance.
LEMMA TypesSound ==
  ASSUME NEW d, NEW gone, Sound(d, gone), NEW e \in Plans,
         e.master = d.master, e.link = d.link, e.cell = d.cell, e.shop = d.shop, e.row = d.row
  PROVE  Sound(e, gone)
BY DEF Sound, LinkedExist, CellsExist, RowsExist, CellsLinked

SoundPlans(gone) == {d \in Plans : Sound(d, gone)}

\* A call leaves one of its tables behind.
LEMMA Called ==
  ASSUME NEW S, NEW steps \in Seq(S), Calling(steps)
  PROVE  plan' \in S
BY DEF Calling

LEMMA CalledOne ==
  ASSUME NEW e, Calling(<<e>>)
  PROVE  plan' = e
BY DEF Calling
------------------------------------------------------------------------------
(* The handlers: whatever tables they leave are sound.                      *)

LEMMA SettingsSound ==
  ASSUME Sound(plan, movers), NEW b \in Shops, NEW some \in SUBSET ShiftIds, NEW on, NEW renamed,
         NEW c \in Codes \cup {Nil}, SaveBranchShiftSettings(b, some, on, renamed, c)
  PROVE  Sound(plan', movers)
<1>1. PICK d : d = Seeded(plan, b)
  OBVIOUS
<1>2. Sound(d, movers) /\ d \in Plans
  BY <1>1, SeededSound DEF Sound
<1>3. PICK code : code = [i \in ShiftIds |-> IF i \in renamed THEN c ELSE Label(d, b, i)]
  OBVIOUS
<1>4. \A i \in some : code[i] \in Codes \cup {Nil}
  <2>1. SUFFICES ASSUME NEW i \in some PROVE code[i] \in Codes \cup {Nil}
    OBVIOUS
  <2>2. d.link[b][i] \in Links
    BY <1>1, <1>2 DEF SaveBranchShiftSettings, Linked, Plans
  <2>3. Label(d, b, i) \in Codes \cup {Nil}
    BY <1>2, <2>2 DEF Label, Links, Plans
  <2> QED
    BY <1>3, <2>3
<1>5. PICK f : f = [i \in ShiftIds |->
        IF i \in some THEN [active |-> i \in on, removed |-> FALSE, code |-> code[i]] ELSE d.link[b][i]]
  OBVIOUS
<1>6. f \in [ShiftIds -> Links \cup {Nil}] /\ \A i \in some : f[i] \in Links
  BY <1>2, <1>4, <1>5 DEF Links, Plans
<1>7. \A i \in ShiftIds : d.link[b][i] # Nil <=> f[i] # Nil
  BY <1>1, <1>5, <1>6, LinksAssumption DEF SaveBranchShiftSettings, Linked
<1>8. Sound([d EXCEPT !.link[b] = f], movers)
  BY <1>2, <1>6, <1>7, RelinkedSound DEF Sound, LinkedExist
<1>9. PICK e : e = [d EXCEPT !.link[b] = f]
  OBVIOUS
<1>10. e \in SoundPlans(movers)
  BY <1>8, <1>9 DEF SoundPlans, Sound
<1> DEFINE g == [i \in ShiftIds |->
        IF i \in some
        THEN [active |-> i \in on, removed |-> FALSE, code |-> IF i \in renamed THEN c ELSE Label(d, b, i)]
        ELSE d.link[b][i]]
<1>11. Calling(<<[d EXCEPT !.link[b] = g]>>)
  BY <1>1, Zenon DEF SaveBranchShiftSettings
<1>12. f = g
  BY <1>3, <1>5
<1>13. Calling(<<e>>)
  BY <1>9, <1>11, <1>12
<1> QED
  BY <1>10, <1>13, CalledOne DEF SoundPlans

LEMMA CreateSound ==
  ASSUME Sound(plan, movers), NEW b \in Shops, NEW c \in Codes, CreateBranchShift(b, c)
  PROVE  Sound(plan', movers)
<1>1. PICK d : d = Seeded(plan, b)
  OBVIOUS
<1>2. PICK i \in ShiftIds :
        Calling(<<d, [d EXCEPT !.master[i] = c], [[d EXCEPT !.master[i] = c] EXCEPT !.link[b][i] = Link(c)]>>)
  BY <1>1 DEF CreateBranchShift, NextShiftId
<1>3. Sound(d, movers) /\ d \in Plans
  BY <1>1, SeededSound DEF Sound
<1>4. PICK named : named = [d EXCEPT !.master[i] = c]
  OBVIOUS
<1>5. Sound(named, movers) /\ named \in Plans
  BY <1>3, <1>4, NamedSound DEF Sound
<1>6. named.master[i] # Nil
  BY <1>3, <1>4, ScheduleAssumption DEF Plans, Codes
<1>7. PICK f : f = [named.link[b] EXCEPT ![i] = Link(c)]
  OBVIOUS
<1>8. Link(c) \in Links /\ Link(c) # Nil
  BY LinkIsThere
<1>9. f \in [ShiftIds -> Links \cup {Nil}] /\ f[i] # Nil /\ \A j \in ShiftIds \ {i} : f[j] = named.link[b][j]
  BY <1>5, <1>7, <1>8 DEF Plans
<1>10. Sound([named EXCEPT !.link[b] = f], movers)
  BY <1>5, <1>6, <1>9, RelinkedSound DEF Sound, LinkedExist
<1>11. PICK e : e = [named EXCEPT !.link[b] = f]
  OBVIOUS
<1>12. e = [named EXCEPT !.link[b][i] = Link(c)]
  BY <1>5, <1>7, <1>11 DEF Plans
<1>13. Calling(<<d, named, e>>)
  BY <1>2, <1>4, <1>12
<1>14. d \in SoundPlans(movers) /\ named \in SoundPlans(movers) /\ e \in SoundPlans(movers)
  BY <1>3, <1>5, <1>10, <1>11 DEF SoundPlans, Sound
<1>15. <<d, named, e>> \in Seq(SoundPlans(movers))
  BY <1>14
<1> QED
  BY <1>13, <1>15, Called DEF SoundPlans

\* The last two tables of a deletion.
LEMMA EndSound ==
  ASSUME NEW d, NEW gone, Sound(d, gone), NEW b \in Shops, NEW i \in ShiftIds
  PROVE  <<RemoveFromEmployeeTypes(d, b, i), Seeded(RemoveFromEmployeeTypes(d, b, i), b)>>
           \in Seq(SoundPlans(gone))
<1>1. PICK e : e = RemoveFromEmployeeTypes(d, b, i)
  OBVIOUS
<1>2. d \in Plans
  BY DEF Sound
<1>3. /\ e \in Plans
      /\ e.master = d.master /\ e.link = d.link /\ e.cell = d.cell /\ e.shop = d.shop /\ e.row = d.row
  BY <1>1, <1>2 DEF RemoveFromEmployeeTypes, Plans
<1>4. Sound(e, gone)
  BY <1>3, TypesSound
<1>5. Sound(Seeded(e, b), gone)
  BY <1>4, SeededSound
<1>6. e \in SoundPlans(gone) /\ Seeded(e, b) \in SoundPlans(gone)
  BY <1>4, <1>5 DEF SoundPlans, Sound
<1> QED
  BY <1>1, <1>6

LEMMA JoinedCall ==
  ASSUME NEW S, NEW s \in Seq(S), NEW t \in Seq(S)
  PROVE  s \o t \in Seq(S)
OBVIOUS

LEMMA DeleteSound ==
  ASSUME Sound(plan, movers), NEW b \in Shops, NEW i \in ShiftIds, DeleteBranchShift(b, i)
  PROVE  Sound(plan', movers)
<1> DEFINE end(d) == <<RemoveFromEmployeeTypes(d, b, i), Seeded(RemoveFromEmployeeTypes(d, b, i), b)>>
<1>1. plan \in Plans /\ plan.link[b][i] # Nil
  BY DEF Sound, DeleteBranchShift
<1>2. PICK removed : removed = [plan EXCEPT !.link[b][i] = [@ EXCEPT !.removed = TRUE, !.active = FALSE]]
  OBVIOUS
<1>3. PICK unlinked : unlinked = [plan EXCEPT !.link[b][i] = Nil]
  OBVIOUS
<1>4. PICK gone : gone = [unlinked EXCEPT !.master[i] = Nil]
  OBVIOUS
<1>5. \/ Calling(<<removed>> \o end(removed))
      \/ /\ ~BranchShiftHasBranchHistory(plan, b, i)
         /\ \/ Calling(<<unlinked, Seeded(unlinked, b)>>)
            \/ Calling(<<unlinked>> \o end(unlinked))
            \/ Calling(<<unlinked>>)
            \/ /\ ~Used(plan, i) /\ \A s \in Shops : unlinked.link[s][i] = Nil
               /\ Calling(<<unlinked, gone>> \o end(gone))
  BY <1>2, <1>3, <1>4, Zenon DEF DeleteBranchShift
<1>6. Sound(removed, movers)
  <2>1. PICK r : r = [plan.link[b][i] EXCEPT !.removed = TRUE, !.active = FALSE]
    OBVIOUS
  <2>2. plan.link[b][i] \in Links
    BY <1>1 DEF Plans
  <2>3. r \in Links /\ r # Nil
    BY <2>1, <2>2, LinksAssumption DEF Links
  <2>4. PICK f : f = [plan.link[b] EXCEPT ![i] = r]
    OBVIOUS
  <2>5. f \in [ShiftIds -> Links \cup {Nil}] /\ \A j \in ShiftIds : f[j] # Nil <=> plan.link[b][j] # Nil
    BY <1>1, <2>3, <2>4 DEF Plans
  <2>6. removed = [plan EXCEPT !.link[b] = f]
    BY <1>1, <1>2, <2>1, <2>4 DEF Plans
  <2> QED
    BY <2>5, <2>6, RelinkedSound DEF Sound, LinkedExist
<1>7. ASSUME ~BranchShiftHasBranchHistory(plan, b, i)
      PROVE  Sound(unlinked, movers) /\ unlinked \in Plans
  <2>1. PICK f : f = [plan.link[b] EXCEPT ![i] = Nil]
    OBVIOUS
  <2>2. f \in [ShiftIds -> Links \cup {Nil}]
        /\ \A j \in ShiftIds : f[j] = IF j = i THEN Nil ELSE plan.link[b][j]
    BY <1>1, <2>1 DEF Plans
  <2>3. unlinked = [plan EXCEPT !.link[b] = f]
    BY <1>1, <1>3, <2>1 DEF Plans
  <2>4. \A w \in Crew, m \in Months : plan.shop[w] = b => plan.cell[w][m] # i
    BY <1>7 DEF BranchShiftHasBranchHistory
  <2>5. Sound(unlinked, movers)
    BY <2>2, <2>3, <2>4, RelinkedSound DEF Sound, LinkedExist
  <2> QED
    BY <2>5 DEF Sound
<1>8. CASE Calling(<<removed>> \o end(removed))
  <2>1. <<removed>> \in Seq(SoundPlans(movers))
    BY <1>6 DEF SoundPlans, Sound
  <2>2. end(removed) \in Seq(SoundPlans(movers))
    BY <1>6, EndSound
  <2> HIDE DEF end
  <2>3. <<removed>> \o end(removed) \in Seq(SoundPlans(movers))
    BY <2>1, <2>2, JoinedCall
  <2> QED
    BY <1>8, <2>3, Called DEF SoundPlans
<1>9. ASSUME ~BranchShiftHasBranchHistory(plan, b, i),
             \/ Calling(<<unlinked, Seeded(unlinked, b)>>)
             \/ Calling(<<unlinked>> \o end(unlinked))
             \/ Calling(<<unlinked>>)
      PROVE  Sound(plan', movers)
  <2>1. unlinked \in SoundPlans(movers)
    BY <1>7, <1>9 DEF SoundPlans
  <2>2. Seeded(unlinked, b) \in SoundPlans(movers)
    BY <1>7, <1>9, SeededSound DEF SoundPlans, Sound
  <2>3. <<unlinked>> \in Seq(SoundPlans(movers)) /\ <<unlinked, Seeded(unlinked, b)>> \in Seq(SoundPlans(movers))
    BY <2>1, <2>2
  <2>4. end(unlinked) \in Seq(SoundPlans(movers))
    BY <1>7, <1>9, EndSound
  <2> HIDE DEF end
  <2>5. <<unlinked>> \o end(unlinked) \in Seq(SoundPlans(movers))
    BY <2>3, <2>4, JoinedCall
  <2> QED
    BY <1>9, <2>3, <2>5, Called DEF SoundPlans
<1>10. ASSUME ~BranchShiftHasBranchHistory(plan, b, i), ~Used(plan, i),
              \A s \in Shops : unlinked.link[s][i] = Nil, Calling(<<unlinked, gone>> \o end(gone))
       PROVE  Sound(plan', movers)
  <2>1. unlinked \in Plans /\ Sound(unlinked, movers)
    BY <1>7, <1>10
  <2>2. ~Used(unlinked, i)
    <3>1. unlinked.first = plan.first /\ unlinked.cell = plan.cell /\ unlinked.row = plan.row
      BY <1>1, <1>3 DEF Plans
    <3> QED
      BY <1>10, <3>1 DEF Used
  <2>3. Sound(gone, movers) /\ gone \in Plans
    BY <1>4, <1>10, <2>1, <2>2, GoneSound DEF Sound
  <2>4. <<unlinked, gone>> \in Seq(SoundPlans(movers))
    BY <2>1, <2>3 DEF SoundPlans
  <2>5. end(gone) \in Seq(SoundPlans(movers))
    BY <2>3, EndSound
  <2> HIDE DEF end
  <2>6. <<unlinked, gone>> \o end(gone) \in Seq(SoundPlans(movers))
    BY <2>4, <2>5, JoinedCall
  <2> QED
    BY <1>10, <2>6, Called DEF SoundPlans
<1> HIDE DEF end
<1> QED
  BY <1>5, <1>8, <1>9, <1>10

LEMMA ShiftsOfTypeSound ==
  ASSUME Sound(plan, movers), NEW b \in Shops, NEW ids \in SUBSET ShiftIds, NEW one,
         SaveShiftsOfType(b, ids, one)
  PROVE  Sound(plan', movers)
<1>1. PICK d : d = Seeded(plan, b)
  OBVIOUS
<1>2. Sound(d, movers) /\ d \in Plans
  BY <1>1, SeededSound DEF Sound
<1>3. PICK f : f = [w \in Crew |-> IF one # Nil /\ d.shop[w] = b /\ d.typed[w] THEN one ELSE d.first[w]]
  OBVIOUS
<1>4. f \in [Crew -> ShiftIds]
  BY <1>2, <1>3 DEF SaveShiftsOfType, Plans
<1>5. PICK e : e = [d EXCEPT !.types[b] = ids, !.first = f]
  OBVIOUS
<1>6. /\ e \in Plans
      /\ e.master = d.master /\ e.link = d.link /\ e.cell = d.cell /\ e.shop = d.shop /\ e.row = d.row
  BY <1>2, <1>4, <1>5 DEF Plans
<1> DEFINE g == [w \in Crew |-> IF one # Nil /\ d.shop[w] = b /\ d.typed[w] THEN one ELSE d.first[w]]
<1>7. Calling(<<[d EXCEPT !.types[b] = ids, !.first = g]>>)
  BY <1>1, Zenon DEF SaveShiftsOfType
<1>8. plan' = e
  BY <1>3, <1>5, <1>7, CalledOne
<1> QED
  BY <1>2, <1>6, <1>8, TypesSound

LEMMA TypeOfOneSound ==
  ASSUME Sound(plan, movers), NEW w \in Crew, UpdateEmployeeType(w)
  PROVE  Sound(plan', movers)
<1>1. plan \in Plans
  BY DEF Sound
<1>2. \/ plan' = [plan EXCEPT !.typed[w] = ~@]
      \/ \E i \in plan.types[plan.shop[w]] : plan' = [plan EXCEPT !.typed[w] = TRUE, !.first[w] = i]
  BY CalledOne, Zenon DEF UpdateEmployeeType
<1>3. /\ plan' \in Plans
      /\ plan'.master = plan.master /\ plan'.link = plan.link /\ plan'.cell = plan.cell
      /\ plan'.shop = plan.shop /\ plan'.row = plan.row
  <2>1. CASE plan' = [plan EXCEPT !.typed[w] = ~@]
    BY <1>1, <2>1 DEF Plans
  <2>2. CASE \E i \in plan.types[plan.shop[w]] : plan' = [plan EXCEPT !.typed[w] = TRUE, !.first[w] = i]
    <3>1. PICK i \in plan.types[plan.shop[w]] : plan' = [plan EXCEPT !.typed[w] = TRUE, !.first[w] = i]
      BY <2>2
    <3>2. i \in ShiftIds
      BY <1>1 DEF Plans
    <3> QED
      BY <1>1, <3>1, <3>2 DEF Plans
  <2> QED
    BY <1>2, <2>1, <2>2
<1> QED
  BY <1>3, TypesSound

LEMMA MoveSound ==
  ASSUME Sound(plan, movers), NEW w \in Crew, NEW b \in Shops, MoveToShop(w, b)
  PROVE  Sound(plan', movers')
<1>1. plan \in Plans
  BY DEF Sound
<1>2. plan' = [plan EXCEPT !.shop[w] = b] /\ movers' = movers \cup {w}
  BY CalledOne DEF MoveToShop
<1>3. PICK e : e = plan'
  OBVIOUS
<1>4. /\ e \in Plans /\ e.master = plan.master /\ e.link = plan.link /\ e.cell = plan.cell
      /\ e.row = plan.row /\ e.shop = [plan.shop EXCEPT ![w] = b]
  BY <1>1, <1>2, <1>3 DEF Plans
<1>5. LinkedExist(e) /\ CellsExist(e) /\ RowsExist(e)
  BY <1>4 DEF Sound, LinkedExist, CellsExist, RowsExist
<1>6. CellsLinked(e, movers \cup {w})
  BY <1>1, <1>4 DEF Sound, CellsLinked, Plans
<1> QED
  BY <1>2, <1>3, <1>4, <1>5, <1>6 DEF Sound

LEMMA CheckInSound ==
  ASSUME Sound(plan, movers), NEW w \in Crew, NEW m \in Months, CheckInAsScheduled(w, m)
  PROVE  Sound(plan', movers)
<1>1. plan \in Plans /\ plan.cell[w][m] \in ShiftIds
  BY DEF Sound, CheckInAsScheduled
<1>2. PICK r : r = [shop |-> plan.shop[w], shift |-> plan.cell[w][m]]
  OBVIOUS
<1>3. r \in RowRecs /\ r.shift = plan.cell[w][m] /\ plan.master[r.shift] # Nil
  BY <1>1, <1>2 DEF Plans, RowRecs, Sound, CellsExist
<1>4. plan' = [plan EXCEPT !.row[w][m] = r]
  BY <1>2, CalledOne DEF CheckInAsScheduled
<1>5. PICK e : e = plan'
  OBVIOUS
<1>6. /\ e \in Plans /\ e.master = plan.master /\ e.link = plan.link /\ e.cell = plan.cell /\ e.shop = plan.shop
      /\ e.row = [plan.row EXCEPT ![w] = [@ EXCEPT ![m] = r]]
  BY <1>1, <1>3, <1>4, <1>5 DEF Plans
<1>7. LinkedExist(e) /\ CellsExist(e) /\ CellsLinked(e, movers)
  BY <1>6 DEF Sound, LinkedExist, CellsExist, CellsLinked
<1>8. RowsExist(e)
  <2>1. SUFFICES ASSUME NEW x \in Crew, NEW n \in Months, e.row[x][n] # Nil, e.row[x][n].shift # OffId
                 PROVE  e.master[e.row[x][n].shift] # Nil
    BY DEF RowsExist
  <2>2. CASE x = w /\ n = m
    BY <1>1, <1>3, <1>6, <2>2 DEF Plans
  <2>3. CASE ~(x = w /\ n = m)
    <3>1. e.row[x][n] = plan.row[x][n]
      BY <1>1, <1>6, <2>3 DEF Plans
    <3> QED
      BY <1>6, <2>1, <3>1 DEF Sound, RowsExist
  <2> QED
    BY <2>2, <2>3
<1> QED
  BY <1>5, <1>6, <1>7, <1>8 DEF Sound
------------------------------------------------------------------------------
(* The grid.                                                                *)

\* The tables of a save: sound, and only the cells of the changes differ.
SavedTables(d, gone, changes) ==
  {e \in SoundPlans(gone) : \A x \in Crew \ DOMAIN changes : e.cell[x] = d.cell[x]}

LEMMA GridSound ==
  ASSUME NEW d, NEW gone, Sound(d, gone), NEW b \in Shops, NEW m \in Months, NEW changes,
         Acceptable(d, b, changes)
  PROVE  SavedGrid(d, m, changes) \in Seq(SavedTables(d, gone, changes))
<1>1. d \in Plans
  BY DEF Sound
<1>2. \A x \in DOMAIN changes :
        /\ x \in Crew /\ d.shop[x] = b /\ changes[x] \in Cell
        /\ changes[x] \in ShiftIds => d.link[b][changes[x]] # Nil /\ d.master[changes[x]] # Nil
  <2>1. SUFFICES ASSUME NEW x \in DOMAIN changes
                 PROVE  /\ x \in Crew /\ d.shop[x] = b /\ changes[x] \in Cell
                        /\ changes[x] \in ShiftIds =>
                             d.link[b][changes[x]] # Nil /\ d.master[changes[x]] # Nil
    OBVIOUS
  <2>2. x \in Crew /\ d.shop[x] = b /\ changes[x] \in {OffId, Nil} \cup Options(d, b)
    BY DEF Acceptable, Team
  <2>3. Options(d, b) \subseteq {i \in ShiftIds : d.link[b][i] # Nil}
    BY DEF Options, Linked
  <2>4. OffId \notin ShiftIds /\ Nil \notin ShiftIds
    BY ScheduleAssumption
  <2> QED
    BY <2>2, <2>3, <2>4 DEF Cell, Sound, LinkedExist
<1>3. PICK f : f = [x \in Crew |->
        IF x \in DOMAIN changes THEN [d.cell[x] EXCEPT ![m] = changes[x]] ELSE d.cell[x]]
  OBVIOUS
<1>4. /\ f \in [Crew -> [Months -> Cell]]
      /\ \A x \in Crew, n \in Months :
           f[x][n] = IF x \in DOMAIN changes /\ n = m THEN changes[x] ELSE d.cell[x][n]
  BY <1>1, <1>2, <1>3 DEF Plans
<1>5. PICK e : e = [d EXCEPT !.cell = f]
  OBVIOUS
<1>6. /\ e \in Plans /\ e.master = d.master /\ e.link = d.link /\ e.shop = d.shop /\ e.row = d.row
      /\ e.cell = f
  BY <1>1, <1>4, <1>5 DEF Plans
<1>7. LinkedExist(e) /\ RowsExist(e)
  BY <1>6 DEF Sound, LinkedExist, RowsExist
<1>8. CellsExist(e) /\ CellsLinked(e, gone)
  BY <1>2, <1>4, <1>6 DEF Sound, CellsExist, CellsLinked
<1>9. \A x \in Crew \ DOMAIN changes : e.cell[x] = d.cell[x]
  BY <1>3, <1>6
<1>10. e \in SavedTables(d, gone, changes)
  BY <1>6, <1>7, <1>8, <1>9 DEF SavedTables, SoundPlans, Sound
<1>11. PICK g : g = [x \in Crew |->
         IF x \in DOMAIN changes /\ changes[x] # Nil /\ e.row[x][m] # Nil
         THEN [e.row[x] EXCEPT ![m].shift = changes[x]] ELSE e.row[x]]
  OBVIOUS
<1>12. ASSUME NEW x \in Crew
       PROVE  /\ g[x] \in [Months -> RowRecs \cup {Nil}]
              /\ \A n \in Months :
                   g[x][n] # Nil => \/ g[x][n] = e.row[x][n]
                                    \/ x \in DOMAIN changes /\ changes[x] # Nil /\ g[x][n].shift = changes[x]
  <2>1. CASE x \in DOMAIN changes /\ changes[x] # Nil /\ e.row[x][m] # Nil
    <3>1. PICK r : r = [e.row[x][m] EXCEPT !.shift = changes[x]]
      OBVIOUS
    <3>2. e.row[x][m] \in RowRecs
      BY <1>6, <2>1 DEF Plans
    <3>3. changes[x] \in ShiftIds \cup {OffId}
      BY <1>2, <2>1 DEF Cell
    <3>4. r \in RowRecs /\ r.shift = changes[x]
      BY <3>1, <3>2, <3>3 DEF RowRecs
    <3>5. g[x] = [e.row[x] EXCEPT ![m] = r]
      BY <1>11, <2>1, <3>1
    <3> QED
      BY <1>6, <2>1, <3>4, <3>5 DEF Plans
  <2>2. CASE ~(x \in DOMAIN changes /\ changes[x] # Nil /\ e.row[x][m] # Nil)
    BY <1>6, <1>11, <2>2 DEF Plans
  <2> QED
    BY <2>1, <2>2
<1>13. g \in [Crew -> [Months -> RowRecs \cup {Nil}]]
  BY <1>11, <1>12
<1>14. PICK h : h = [e EXCEPT !.row = g]
  OBVIOUS
<1>15. /\ h \in Plans /\ h.master = d.master /\ h.link = d.link /\ h.shop = d.shop /\ h.cell = e.cell
       /\ h.row = g
  BY <1>6, <1>13, <1>14 DEF Plans
<1>16. LinkedExist(h) /\ CellsExist(h) /\ CellsLinked(h, gone)
  BY <1>6, <1>7, <1>8, <1>15 DEF LinkedExist, CellsExist, CellsLinked
<1>17. RowsExist(h)
  <2>1. SUFFICES ASSUME NEW x \in Crew, NEW n \in Months, h.row[x][n] # Nil, h.row[x][n].shift # OffId
                 PROVE  h.master[h.row[x][n].shift] # Nil
    BY DEF RowsExist
  <2>2. CASE h.row[x][n] = e.row[x][n]
    BY <1>6, <1>7, <1>15, <2>1, <2>2 DEF RowsExist
  <2>3. CASE x \in DOMAIN changes /\ changes[x] # Nil /\ h.row[x][n].shift = changes[x]
    BY <1>2, <1>15, <2>1, <2>3 DEF Cell
  <2> QED
    BY <1>12, <1>15, <2>1, <2>2, <2>3
<1>18. h \in SavedTables(d, gone, changes)
  BY <1>9, <1>15, <1>16, <1>17 DEF SavedTables, SoundPlans, Sound
<1>19. SavedGrid(d, m, changes) = <<e, h>>
  BY <1>3, <1>5, <1>11, <1>14, Zenon DEF SavedGrid
<1> QED
  BY <1>10, <1>18, <1>19

LEMMA SaveSound ==
  ASSUME Sound(plan, movers), NEW b \in Shops, NEW m \in Months, NEW changes,
         SaveBranchShiftSchedule(b, m, changes)
  PROVE  Sound(plan', movers) /\ \A x \in Crew \ DOMAIN changes : plan'.cell[x] = plan.cell[x]
<1>1. PICK d : d = Seeded(plan, b)
  OBVIOUS
<1>2. Sound(d, movers) /\ d.cell = plan.cell
  BY <1>1, SeededSound
<1>3. Acceptable(d, b, changes) /\ Calling(SavedGrid(d, m, changes))
  BY <1>1 DEF SaveBranchShiftSchedule
<1>4. plan' \in SavedTables(d, movers, changes)
  BY <1>2, <1>3, GridSound, Called
<1> QED
  BY <1>2, <1>4 DEF SavedTables, SoundPlans

\* What a download leaves: the tables seeded, and a sheet that shows the cells.
LEMMA DownloadSound ==
  ASSUME Sound(plan, movers), NEW b \in Shops, NEW m \in Months, Download(b, m)
  PROVE  Sound(plan', movers) /\ SheetOK'
<1>1. plan' = Seeded(plan, b)
  BY CalledOne DEF Download
<1>2. Sound(plan', movers) /\ plan'.cell = plan.cell /\ plan'.shop = plan.shop
  BY <1>1, SeededSound
<1>3. plan \in Plans
  BY DEF Sound
<1>4. PICK seen : seen = [w \in Team(plan, b) |-> plan.cell[w][m]]
  OBVIOUS
<1>5. seen \in [Team(plan, b) -> Cell] /\ Team(plan, b) \in SUBSET Crew
  BY <1>3, <1>4 DEF Plans, Team
<1>6. BuildTemplate(plan', b, m) = seen
  BY <1>2, <1>4 DEF BuildTemplate, Team
<1>7. PICK s : s = [shop |-> b, month |-> m, cells |-> seen, seen |-> seen, edited |-> {}]
  OBVIOUS
<1>8. sheet' = s
  BY <1>4, <1>6, <1>7 DEF Download
<1>9. s \in Sheets /\ s.seen = s.cells
  BY <1>5, <1>7 DEF Sheets
<1>10. SheetOK'
  BY <1>8, <1>9 DEF SheetOK
<1> QED
  BY <1>2, <1>10

LEMMA FilledSheet ==
  ASSUME SheetOK, NEW w \in Crew, NEW v \in Cell, FillIn(w, v)
  PROVE  SheetOK'
<1>1. sheet \in Sheets /\ sheet # Nil /\ w \in DOMAIN sheet.cells /\ sheet.edited = {}
  BY DEF SheetOK, FillIn
<1>2. PICK W \in SUBSET Crew : sheet.cells \in [W -> Cell]
  BY <1>1 DEF Sheets
<1>3. PICK f : f = [sheet.cells EXCEPT ![w] = v]
  OBVIOUS
<1>4. f \in [W -> Cell] /\ \A x \in W \ {w} : f[x] = sheet.cells[x]
  BY <1>2, <1>3
<1>5. PICK s : s = [sheet EXCEPT !.cells = f, !.edited = {w}]
  OBVIOUS
<1>6. /\ s \in Sheets /\ s.cells = f /\ s.edited = {w} /\ s.seen = sheet.seen
  BY <1>1, <1>4, <1>5 DEF Sheets
<1>7. sheet' = s
  BY <1>1, <1>3, <1>5 DEF FillIn, Sheets
<1>8. DOMAIN sheet.seen = W /\ \A x \in W : sheet.cells[x] = sheet.seen[x]
  BY <1>1, <1>2 DEF SheetOK
<1> QED
  BY <1>2, <1>4, <1>6, <1>7, <1>8 DEF SheetOK

\* An upload saves changes of the sheet's month, and no cell that shows what
\* the server holds is among them.
LEMMA UploadSound ==
  ASSUME Sound(plan, movers), SheetOK, ImportTemplate
  PROVE  /\ Sound(plan', movers)
         /\ \A w \in DOMAIN sheet.cells :
              sheet.cells[w] = plan.cell[w][sheet.month] => plan'.cell[w] = plan.cell[w]
<1>1. sheet # Nil /\ sheet \in Sheets
  BY DEF ImportTemplate, SheetOK
<1>2. sheet.shop \in Shops /\ sheet.month \in Months /\ DOMAIN sheet.cells \subseteq Crew
  BY <1>1 DEF Sheets
<1>3. PICK d : d = Seeded(plan, sheet.shop)
  OBVIOUS
<1>4. d.cell = plan.cell
  BY <1>2, <1>3, SeededSound
<1>5. \E changed \in SUBSET {w \in DOMAIN sheet.cells : sheet.cells[w] # d.cell[w][sheet.month]} :
        SaveBranchShiftSchedule(sheet.shop, sheet.month, [w \in changed |-> sheet.cells[w]])
  <2> DEFINE offered == WithHistorical(d, sheet.shop, CellsOf(d, sheet.shop, sheet.month))
             changed == {w \in DOMAIN sheet.cells \cap Team(d, sheet.shop) :
               /\ sheet.cells[w] # d.cell[w][sheet.month]
               /\ sheet.cells[w] \in {OffId, Nil} \cup MayAssign(d, w, offered)}
  <2>1. SaveBranchShiftSchedule(sheet.shop, sheet.month, [w \in changed |-> sheet.cells[w]])
    BY <1>3, Zenon DEF ImportTemplate
  <2>2. changed \in SUBSET {w \in DOMAIN sheet.cells : sheet.cells[w] # d.cell[w][sheet.month]}
    OBVIOUS
  <2> HIDE DEF changed
  <2> QED
    BY <2>1, <2>2
<1>6. PICK changed \in SUBSET {w \in DOMAIN sheet.cells : sheet.cells[w] # d.cell[w][sheet.month]} :
        SaveBranchShiftSchedule(sheet.shop, sheet.month, [w \in changed |-> sheet.cells[w]])
  BY <1>5
<1>7. PICK changes : changes = [w \in changed |-> sheet.cells[w]]
  OBVIOUS
<1>8. /\ Sound(plan', movers)
      /\ \A x \in Crew \ DOMAIN changes : plan'.cell[x] = plan.cell[x]
  BY <1>2, <1>6, <1>7, SaveSound
<1>9. DOMAIN changes = changed
  BY <1>7
<1> QED
  BY <1>2, <1>4, <1>6, <1>8, <1>9
------------------------------------------------------------------------------
LEMMA ScheduleStarts ==
  ASSUME ScheduleInit
  PROVE  SInv
<1>1. PICK home \in [Crew -> Shops] :
        plan = [master |-> [i \in ShiftIds |-> IF i \in Legacy THEN i ELSE Nil],
                link   |-> [b \in Shops |-> [i \in ShiftIds |-> IF i \in Legacy THEN Link(Nil) ELSE Nil]],
                types  |-> [b \in Shops |-> {}],
                typed  |-> [w \in Crew |-> TRUE],
                first  |-> [w \in Crew |-> FirstShift],
                shop   |-> home,
                cell   |-> [w \in Crew |-> [m \in Months |-> Nil]],
                row    |-> [w \in Crew |-> [m \in Months |-> Nil]]]
  BY DEF ScheduleInit
<1>2. PICK L : L = Link(Nil)
  OBVIOUS
<1>3. L \in Links /\ L # Nil
  BY <1>2, LinkIsThere
<1>4. PICK least : least = FirstShift
  OBVIOUS
<1>5. least \in ShiftIds
  BY <1>4, ScheduleAssumption DEF FirstShift
<1>6. PICK e : e = plan
  OBVIOUS
<1>7. /\ e = [master |-> e.master, link |-> e.link, types |-> e.types, typed |-> e.typed,
               first |-> e.first, shop |-> e.shop, cell |-> e.cell, row |-> e.row]
      /\ e.master = [i \in ShiftIds |-> IF i \in Legacy THEN i ELSE Nil]
      /\ e.link = [b \in Shops |-> [i \in ShiftIds |-> IF i \in Legacy THEN L ELSE Nil]]
      /\ e.types = [b \in Shops |-> {}] /\ e.typed = [w \in Crew |-> TRUE]
      /\ e.first = [w \in Crew |-> least]
      /\ e.shop = home
      /\ e.cell = [w \in Crew |-> [m \in Months |-> Nil]]
      /\ e.row = [w \in Crew |-> [m \in Months |-> Nil]]
  <2>1. e = [master |-> e.master, link |-> e.link, types |-> e.types, typed |-> e.typed,
             first |-> e.first, shop |-> e.shop, cell |-> e.cell, row |-> e.row]
    BY <1>1, <1>6
  <2>2. e.master = [i \in ShiftIds |-> IF i \in Legacy THEN i ELSE Nil] /\ e.shop = home
    BY <1>1, <1>6
  <2>3. e.types = [b \in Shops |-> {}] /\ e.typed = [w \in Crew |-> TRUE]
    BY <1>1, <1>6
  <2>4. /\ e.cell = [w \in Crew |-> [m \in Months |-> Nil]]
        /\ e.row = [w \in Crew |-> [m \in Months |-> Nil]]
    BY <1>1, <1>6
  <2>5. e.link = [b \in Shops |-> [i \in ShiftIds |-> IF i \in Legacy THEN Link(Nil) ELSE Nil]]
    BY <1>1, <1>6
  <2>6. e.first = [w \in Crew |-> FirstShift]
    BY <1>1, <1>6
  <2>7. e.link = [b \in Shops |-> [i \in ShiftIds |-> IF i \in Legacy THEN L ELSE Nil]]
    BY <1>2, <2>5
  <2>8. e.first = [w \in Crew |-> least]
    BY <1>4, <2>6
  <2> QED
    BY <2>1, <2>2, <2>3, <2>4, <2>7, <2>8
<1>8. e \in Plans
  <2>1. /\ e.master \in [ShiftIds -> Codes \cup {Nil}]
        /\ e.link \in [Shops -> [ShiftIds -> Links \cup {Nil}]]
    BY <1>3, <1>7, ScheduleAssumption DEF Codes
  <2>2. /\ e.types \in [Shops -> SUBSET ShiftIds] /\ e.typed \in [Crew -> BOOLEAN]
        /\ e.first \in [Crew -> ShiftIds] /\ e.shop \in [Crew -> Shops]
    BY <1>5, <1>7
  <2>3. /\ e.cell \in [Crew -> [Months -> Cell]]
        /\ e.row \in [Crew -> [Months -> RowRecs \cup {Nil}]]
    BY <1>7 DEF Cell
  <2> QED
    BY <1>7, <2>1, <2>2, <2>3 DEF Plans
<1>9. Nil \notin ShiftIds
  BY ScheduleAssumption
<1>10. LinkedExist(e)
  BY <1>3, <1>7, <1>9 DEF LinkedExist
<1>11. CellsExist(e) /\ CellsLinked(e, {}) /\ RowsExist(e)
  BY <1>7, <1>9 DEF CellsExist, CellsLinked, RowsExist
<1>12. Sound(plan, {})
  BY <1>6, <1>8, <1>10, <1>11 DEF Sound
<1> QED
  BY <1>12 DEF SInv, ScheduleInit, SheetOK

\* Every step keeps the invariant, and an upload writes no cell that the sheet
\* shows as it is.
LEMMA ScheduleStep ==
  ASSUME SInv, [ScheduleNext]_scheduleVars
  PROVE  SInv'
<1>1. Sound(plan, movers) /\ SheetOK /\ movers \subseteq Crew /\ uploads \in Nat
  BY DEF SInv
<1> DEFINE Tables == Sound(plan', movers) /\ UNCHANGED <<sheet, movers, uploads>>
<1>2. ASSUME Tables
      PROVE  SInv'
  BY <1>1, <1>2 DEF SInv, SheetOK
<1>3. ASSUME NEW b \in Shops, NEW on \in SUBSET ShiftIds,
             SaveBranchShiftSettings(b, Linked(Seeded(plan, b), b), on, {}, Nil)
      PROVE  Tables
  <2>1. Linked(Seeded(plan, b), b) \in SUBSET ShiftIds /\ Nil \in Codes \cup {Nil}
    BY DEF Linked
  <2>2. PICK some : some = Linked(Seeded(plan, b), b)
    OBVIOUS
  <2>3. Sound(plan', movers)
    BY <1>1, <1>3, <2>1, <2>2, SettingsSound
  <2> QED
    BY <1>3, <2>3 DEF SaveBranchShiftSettings
<1>4. ASSUME NEW b \in Shops, NEW i \in ShiftIds, NEW c \in Codes,
             SaveBranchShiftSettings(b, {i}, {i}, {i}, c)
      PROVE  Tables
  <2>1. {i} \in SUBSET ShiftIds /\ c \in Codes \cup {Nil}
    OBVIOUS
  <2>2. PICK one : one = {i}
    OBVIOUS
  <2>3. Sound(plan', movers)
    BY <1>1, <1>4, <2>1, <2>2, SettingsSound
  <2> QED
    BY <1>4, <2>3 DEF SaveBranchShiftSettings
<1>5. ASSUME NEW b \in Shops, NEW c \in Codes, CreateBranchShift(b, c)
      PROVE  Tables
  BY <1>1, <1>5, CreateSound DEF CreateBranchShift
<1>6. ASSUME NEW b \in Shops, NEW i \in ShiftIds, DeleteBranchShift(b, i)
      PROVE  Tables
  BY <1>1, <1>6, DeleteSound DEF DeleteBranchShift
<1>7. ASSUME NEW b \in Shops, NEW ids \in SUBSET ShiftIds, NEW one \in ShiftIds \cup {Nil},
             SaveShiftsOfType(b, ids, one)
      PROVE  Tables
  BY <1>1, <1>7, ShiftsOfTypeSound DEF SaveShiftsOfType
<1>8. ASSUME NEW b \in Shops, NEW m \in Months, NEW w \in Crew, NEW v \in Cell, EditGrid(b, m, w, v)
      PROVE  Tables
  <2>1. PICK changes : changes = [x \in {w} |-> v]
    OBVIOUS
  <2>2. SaveBranchShiftSchedule(b, m, changes) /\ UNCHANGED <<sheet, movers, uploads>>
    BY <1>8, <2>1 DEF EditGrid
  <2> QED
    BY <1>1, <2>2, SaveSound
<1>9. ASSUME NEW b \in Shops, NEW m \in Months, CopyFromPreviousMonth(b, m)
      PROVE  Tables
  <2>1. PICK some : some = {w \in Team(plan, b) : plan.cell[w][m - 1] # Nil}
    OBVIOUS
  <2>2. PICK changes : changes = [w \in some |-> plan.cell[w][m - 1]]
    OBVIOUS
  <2>3. SaveBranchShiftSchedule(b, m, changes) /\ UNCHANGED <<sheet, movers, uploads>>
    BY <1>9, <2>1, <2>2 DEF CopyFromPreviousMonth
  <2> QED
    BY <1>1, <2>3, SaveSound
<1>10. ASSUME NEW b \in Shops, NEW m \in Months, Download(b, m)
       PROVE  SInv'
  BY <1>1, <1>10, DownloadSound DEF SInv, Download
<1>11. ASSUME NEW w \in Crew, UpdateEmployeeType(w)
       PROVE  Tables
  BY <1>1, <1>11, TypeOfOneSound DEF UpdateEmployeeType
<1>12. ASSUME NEW w \in Crew, NEW b \in Shops, MoveToShop(w, b)
       PROVE  SInv'
  BY <1>1, <1>12, MoveSound DEF SInv, SheetOK, MoveToShop
<1>13. ASSUME NEW w \in Crew, NEW m \in Months, CheckInAsScheduled(w, m)
       PROVE  Tables
  BY <1>1, <1>13, CheckInSound DEF CheckInAsScheduled
<1>14. ASSUME NEW w \in Crew, NEW v \in Cell, FillIn(w, v)
       PROVE  SInv'
  BY <1>1, <1>14, FilledSheet DEF SInv, FillIn
<1>15. ASSUME ImportTemplate
       PROVE  SInv'
  BY <1>1, <1>15, UploadSound DEF SInv, SheetOK, ImportTemplate
<1>16. ASSUME UNCHANGED scheduleVars
       PROVE  SInv'
  BY <1>1, <1>16 DEF scheduleVars, SInv, SheetOK
<1> HIDE DEF Tables
<1> QED
  BY <1>2, <1>3, <1>4, <1>5, <1>6, <1>7, <1>8, <1>9, <1>10, <1>11, <1>12, <1>13, <1>14, <1>15, <1>16
     DEF ScheduleNext

\* Schedule's tables, and the sheet, stay as their readers need them.
THEOREM ScheduleSInv == ScheduleSpec => []SInv
<1>1. ScheduleInit => SInv
  BY ScheduleStarts
<1>2. SInv /\ [ScheduleNext]_scheduleVars => SInv'
  BY ScheduleStep
<1> QED
  BY <1>1, <1>2, PTL DEF ScheduleSpec

LEMMA SoundIsReadable ==
  ASSUME SInv
  PROVE  HistoryIsReadable
<1>1. /\ plan \in Plans /\ LinkedExist(plan) /\ CellsExist(plan) /\ RowsExist(plan)
      /\ CellsLinked(plan, movers)
  BY DEF SInv, Sound
<1>2. OffId # Nil /\ OffId \notin ShiftIds
  BY ScheduleAssumption
<1>3. ASSUME NEW b \in Shops, NEW i \in ShiftIds, plan.link[b][i] # Nil
      PROVE  Label(plan, b, i) # Nil
  BY <1>1, <1>3 DEF Label, LinkedExist
<1>4. ASSUME NEW w \in Crew \ movers, NEW m \in Months, plan.cell[w][m] # Nil
      PROVE  LET groups == Upcoming(plan, plan.shop[w], m)
             IN  /\ plan.cell[w][m] \in DOMAIN groups /\ w \in groups[plan.cell[w][m]]
                 /\ OwnCode(plan, w, m) # Nil
  <2>1. plan.shop[w] \in Shops /\ plan.cell[w][m] \in ShiftIds \cup {OffId}
    BY <1>1, <1>4 DEF Plans, Cell
  <2>2. w \in Team(plan, plan.shop[w])
    BY DEF Team
  <2>3. plan.cell[w][m] \in ShiftIds => plan.link[plan.shop[w]][plan.cell[w][m]] # Nil
    BY <1>1 DEF CellsLinked
  <2>4. plan.cell[w][m] \in WithHistorical(plan, plan.shop[w], CellsOf(plan, plan.shop[w], m)) \cup {OffId}
    BY <2>1, <2>2, <2>3 DEF WithHistorical, CellsOf
  <2>5. OwnCode(plan, w, m) # Nil
    <3>1. CASE plan.cell[w][m] = OffId
      <4>1. OffId \notin WithHistorical(plan, plan.shop[w], {plan.cell[w][m]})
        BY <1>2 DEF WithHistorical, Options, Linked
      <4> QED
        BY <1>2, <3>1, <4>1 DEF OwnCode
    <3>2. CASE plan.cell[w][m] \in ShiftIds
      <4>1. plan.cell[w][m] \in WithHistorical(plan, plan.shop[w], {plan.cell[w][m]})
        BY <2>3, <3>2 DEF WithHistorical
      <4>2. OwnCode(plan, w, m) = Label(plan, plan.shop[w], plan.cell[w][m])
        BY <1>2, <3>2, <4>1 DEF OwnCode
      <4> QED
        BY <1>3, <2>1, <2>3, <3>2, <4>2
    <3> QED
      BY <2>1, <3>1, <3>2
  <2> QED
    BY <2>2, <2>4, <2>5 DEF Upcoming
<1>5. ASSUME NEW w \in Crew, NEW m \in Months, plan.row[w][m] # Nil
      PROVE  HistoricalCode(plan, plan.row[w][m].shop, plan.row[w][m].shift) # Nil
  <2>1. plan.row[w][m].shop \in Shops /\ plan.row[w][m].shift \in ShiftIds \cup {OffId}
    BY <1>1, <1>5 DEF Plans, RowRecs
  <2>2. plan.row[w][m].shift # OffId => plan.master[plan.row[w][m].shift] # Nil
    BY <1>1, <1>5 DEF RowsExist
  <2> QED
    BY <1>2, <1>3, <2>1, <2>2 DEF HistoricalCode
<1> QED
  BY <1>4, <1>5 DEF HistoryIsReadable

\* The grid and the attendance of those who stayed are read under codes that
\* exist, whatever is renamed, removed, restored or deleted, and wherever a
\* call stops.
THEOREM ScheduleHistoryIsReadable == ScheduleSpec => []HistoryIsReadable
<1>1. SInv => HistoryIsReadable
  BY SoundIsReadable
<1> QED
  BY <1>1, ScheduleSInv, PTL

LEMMA UploadStep ==
  ASSUME SInv, ScheduleNext, uploads' # uploads
  PROVE  \A w \in DOMAIN sheet.cells \ sheet.edited :
           plan.cell[w][sheet.month] = sheet.seen[w] =>
             plan'.cell[w][sheet.month] = sheet.seen[w]
<1>1. ImportTemplate
  <2>1. ASSUME NEW b, NEW some, NEW on, NEW renamed, NEW c, SaveBranchShiftSettings(b, some, on, renamed, c) PROVE uploads' = uploads
    BY <2>1 DEF SaveBranchShiftSettings
  <2>2. ASSUME NEW b, NEW c, CreateBranchShift(b, c) PROVE uploads' = uploads
    BY <2>2 DEF CreateBranchShift
  <2>3. ASSUME NEW b, NEW i, DeleteBranchShift(b, i) PROVE uploads' = uploads
    BY <2>3 DEF DeleteBranchShift
  <2>4. ASSUME NEW b, NEW ids, NEW one, SaveShiftsOfType(b, ids, one) PROVE uploads' = uploads
    BY <2>4 DEF SaveShiftsOfType
  <2>5. ASSUME NEW b, NEW m, NEW w, NEW v, EditGrid(b, m, w, v) PROVE uploads' = uploads
    BY <2>5 DEF EditGrid
  <2>6. ASSUME NEW b, NEW m, CopyFromPreviousMonth(b, m) PROVE uploads' = uploads
    BY <2>6 DEF CopyFromPreviousMonth
  <2>7. ASSUME NEW b, NEW m, Download(b, m) PROVE uploads' = uploads
    BY <2>7 DEF Download
  <2>8. ASSUME NEW w, UpdateEmployeeType(w) PROVE uploads' = uploads
    BY <2>8 DEF UpdateEmployeeType
  <2>9. ASSUME NEW w, NEW b, MoveToShop(w, b) PROVE uploads' = uploads
    BY <2>9 DEF MoveToShop
  <2>10. ASSUME NEW w, NEW m, CheckInAsScheduled(w, m) PROVE uploads' = uploads
    BY <2>10 DEF CheckInAsScheduled
  <2>11. ASSUME NEW w, NEW v, FillIn(w, v) PROVE uploads' = uploads
    BY <2>11 DEF FillIn
  <2> QED
    BY <2>1, <2>2, <2>3, <2>4, <2>5, <2>6, <2>7, <2>8, <2>9, <2>10, <2>11 DEF ScheduleNext
<1>2. Sound(plan, movers) /\ SheetOK
  BY DEF SInv
<1>3. \A w \in DOMAIN sheet.cells \ sheet.edited : sheet.cells[w] = sheet.seen[w]
  BY <1>1, <1>2 DEF SheetOK, ImportTemplate
<1> QED
  BY <1>1, <1>2, <1>3, UploadSound

\* An uploaded spreadsheet leaves the cells alone that nobody has changed since
\* it was downloaded.
THEOREM ScheduleUploadKeepsOthers == ScheduleSpec => UploadKeepsOthers
<1>1. SInv /\ [ScheduleNext]_scheduleVars =>
        [uploads' # uploads =>
           \A w \in DOMAIN sheet.cells \ sheet.edited :
             plan.cell[w][sheet.month] = sheet.seen[w] =>
               plan'.cell[w][sheet.month] = sheet.seen[w]]_scheduleVars
  BY UploadStep
<1> QED
  BY <1>1, ScheduleSInv, PTL DEF ScheduleSpec, UploadKeepsOthers
================================================================================
