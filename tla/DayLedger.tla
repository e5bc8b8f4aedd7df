------------------------------ MODULE DayLedger ------------------------------
(***************************************************************************)
(* What the ingest pipeline promises about a day of bare scans: the day is *)
(* a ledger of four slots, filled one at a time and in order, each with    *)
(* the instant of a scan that fills no other slot, and never rewritten.    *)
(* An approved two-scan day may go from check-in straight to check-out.    *)
(***************************************************************************)
EXTENDS ScanSlots

CONSTANTS
  Employees,
  ScansOf         \* ScansOf[e]: the instants at which e scanned

VARIABLES
  slot,           \* slot[e][s]: the instant in slot s of e's day, 0 if empty
  short           \* short[e]: e's day is approved for two scans

Empty == [s \in Slots |-> 0]

Init ==
  /\ slot  = [e \in Employees |-> Empty]
  /\ short = [e \in Employees |-> FALSE]

Before(s) ==
  CASE s = "check_in"    -> {}
    [] s = "break_start" -> {"check_in"}
    [] s = "break_end"   -> {"check_in", "break_start"}
    [] s = "check_out"   -> {"check_in", "break_start", "break_end"}

\* May slot s be the next one to be filled?
IsNext(e, s) ==
  /\ slot[e][s] = 0
  /\ \/ \A earlier \in Before(s) : slot[e][earlier] # 0
     \/ /\ s = "check_out" /\ short[e]
        /\ slot[e]["check_in"] # 0 /\ slot[e]["break_start"] = 0

Fill(e, s, t) ==
  /\ t \in ScansOf[e]
  /\ IsNext(e, s)
  /\ \A other \in Slots : slot[e][other] # t
  /\ slot' = [slot EXCEPT ![e][s] = t]
  /\ UNCHANGED short

Shorten(e) ==
  /\ ~short[e]
  /\ short' = [short EXCEPT ![e] = TRUE]
  /\ UNCHANGED slot

Next ==
  \E e \in Employees :
    \/ Shorten(e)
    \/ \E s \in Slots, t \in ScansOf[e] : Fill(e, s, t)

Spec == Init /\ [][Next]_<<slot, short>>
=============================================================================
