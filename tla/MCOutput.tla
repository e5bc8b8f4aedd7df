------------------------------- MODULE MCOutput -------------------------------
(* Small instances of Notices and of Boards, which share no state: a         *)
(* behaviour is one of the first or one of the second.                       *)
EXTENDS Notices, Boards, TLC

CONSTANTS amy, ben   \* Notices: an employee and his superior

VARIABLE part

Output == <<part, nvars, bvars>>

OutputInit ==
  /\ part \in {"notices", "boards"}
  /\ NoticesInit /\ BoardsInit
  \* An owner hears of everything everywhere, whatever came before: he is
  \* tried where calls overlap, and a head of branch in longer histories too.
  /\ part = "notices" => ~boverlap /\ (rank[ben] = "owner" => noverlap)
  /\ part = "boards" =>
       /\ ~noverlap /\ hour = "day"
       /\ rank = CHOOSE r \in Ranks : TRUE
       /\ sites = [f \in Folk |-> {CHOOSE s \in Sites : TRUE}]

\* Bound: a deletion is lost in a history of more reads, where none overlap; a
\* load that overlaps a deletion leaves the same behind.  Of two changes of
\* the branch one is quiet; then no deletion is lost and there is a read less.
\* The leaderboard of all branches, which has no part and is part of nothing,
\* is read where calls do not overlap.
OutputNext ==
  \/ part = "notices" /\ NoticesNext /\ UNCHANGED <<part, bvars>>
  \/ /\ part = "boards" /\ BoardsNext /\ UNCHANGED <<part, nvars>>
     /\ misses' > 0 => ~boverlap /\ fact' = 1
     /\ announced = 1 => announced' = 1
     /\ fact' = 2 => asks' <= 2
     /\ boverlap => \A c \in BCalls : bcall'[c] # [do |-> "entry", show |-> "global"]

OutputSpec == OutputInit /\ [][OutputNext]_Output

SomeRanks == {(amy :> "employee") @@ (ben :> k) : k \in {"head", "owner"}}
SomeMaxNCalls == (TRUE :> 2) @@ (FALSE :> 3)

\* Nothing may be shown that has been old for more than 2 units, and the clock
\* goes to 3.
SomeTtl == [k \in Entries |-> IF PartsOf(k) = {} THEN 2 ELSE 1]
SomeMaxReads == (TRUE :> 2) @@ (FALSE :> 3)
SomeMaxEdits == (TRUE :> 1) @@ (FALSE :> 2)

\* Calls, branches and devices are interchangeable.
OutputSymmetry == Permutations(NCalls) \cup Permutations(Sites) \cup Permutations(Devices)
===============================================================================
