------------------------------ MODULE ScanSlots ------------------------------
(***************************************************************************)
(* The pure part of services/telegramIngestService.ts: which of the four   *)
(* daily slots (masuk, istirahat mulai, istirahat selesai, pulang) a scan  *)
(* of the BioFinger machine fills.                                         *)
(*                                                                         *)
(* An instant is a positive natural number; 0 stands for SQL NULL and for  *)
(* an absent field of a parsed message.  A day's break sessions are a set  *)
(* of records: no two sessions of a day start at the same instant.         *)
(***************************************************************************)
EXTENDS Naturals, FiniteSets

Slots == {"check_in", "break_start", "break_end", "check_out"}

\* The times a message carries: jamMasuk, jamPulang, istirahatMulai / Selesai.
ParsedTimes == [masuk : Nat, pulang : Nat, mulai : Nat, selesai : Nat]

BreakSession == [from : Nat \ {0}, to : Nat]

OpenBreaks(breaks) == {b \in breaks : b.to = 0}

ClosedBreaks(breaks) == breaks \ OpenBreaks(breaks)

\* A message with jamMasuk alone is a bare scan: the day decides its slot.
NeedsScanResolution(p) ==
  p.masuk # 0 /\ p.pulang = 0 /\ p.mulai = 0 /\ p.selesai = 0

\* findExistingScanSlot: the slot that already holds this instant, or "none".
ExistingScanSlot(in, out, breaks, t) ==
  IF in = t                            THEN "check_in"
  ELSE IF \E b \in breaks : b.from = t THEN "break_start"
  ELSE IF \E b \in breaks : b.to = t   THEN "break_end"
  ELSE IF out = t                      THEN "check_out"
  ELSE "none"

\* resolveDailyScanSlot: the next slot of the day; "full" is the thrown
\* DUPLICATE_ATTENDANCE:all_slots_filled.
ResolveDailyScanSlot(in, out, breaks, twoScan) ==
  IF in = 0                                   THEN "check_in"
  ELSE IF twoScan /\ out = 0 /\ breaks = {}   THEN "check_out"
  ELSE IF OpenBreaks(breaks) # {}             THEN "break_end"
  ELSE IF ClosedBreaks(breaks) = {}           THEN "break_start"
  ELSE IF out = 0                             THEN "check_out"
  ELSE "full"

\* remapParsedByScanSlot: the scan's instant moves to the field of its slot.
RemapParsedByScanSlot(slot, t) ==
  LET at(s) == IF slot = s THEN t ELSE 0
  IN  [masuk |-> at("check_in"), pulang |-> at("check_out"),
       mulai |-> at("break_start"), selesai |-> at("break_end")]

\* Mutant: an instant the day already has is not looked up.
ReconcileAfresh(in, out, breaks, twoScan, t) ==
  ResolveDailyScanSlot(in, out, breaks, twoScan)

\* The slot reconcileParsedScan gives to a bare scan.
ReconciledSlot(in, out, breaks, twoScan, t) ==
  LET existing == ExistingScanSlot(in, out, breaks, t)
  IN  IF existing # "none" THEN existing
      ELSE ResolveDailyScanSlot(in, out, breaks, twoScan)

\* Branches and employee types without break attendance drop break times.
DropBreakTimes(p) ==
  [masuk |-> p.masuk, pulang |-> p.pulang, mulai |-> 0, selesai |-> 0]
=============================================================================
