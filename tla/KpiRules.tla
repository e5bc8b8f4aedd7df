------------------------------- MODULE KpiRules --------------------------------
(***************************************************************************)
(* How a check-in becomes points: the scoring rules and the threshold for  *)
(* being late, which an owner edits, the caches through which the API and  *)
(* the worker process read them, and the score itself (kpiScoringService,  *)
(* defaultKpiRules, organizationConfigService, computeCheckInKpiFields).   *)
(*                                                                         *)
(* A delta is the seconds from the start of the shift to the check-in.  An *)
(* owner's table of rules is limited to default rules that are kept and    *)
(* switched on or off, so that the rules are known by their sort order; a  *)
(* default rule that was created twice scores as one.  An await on the     *)
(* database ends a step.                                                   *)
(***************************************************************************)
EXTENDS Integers, FiniteSets

CONSTANTS
  Nodes,       \* processes of the program, each with caches of its own
  KCalls,      \* computations of a score that overlap
  Deltas,      \* deltas of the check-ins
  Thresholds,  \* the late_threshold_seconds an owner asks for
  AskedTables, \* the tables of rules an owner asks for
  CacheMs,     \* CACHE_MS
  Bounds,      \* bounds: saves, scores, failing queries and ticks of the clock, and
               \* whether the rules exist at the start
  NoValue

\* The rules by sort_order; a rule whose max_seconds is null has no upper end.
RuleIds == 1 .. 8

\* The upper end of a rule whose max_seconds is null.
NoLimit == 1000000000

\* KPI_OFFSET_UNBOUNDED_EARLY
UnboundedEarly == -999999

Rule(points, min, max) == [points |-> points, min |-> min, max |-> max]

\* Mutant of DefaultRule: the points of the early tiers are swapped.
DefaultRuleSwapped == << Rule(0, 0, 0), Rule(0, -119, 0), Rule(2, -299, -120), Rule(1, -599, -300),
  Rule(3, UnboundedEarly, -600), Rule(-1, 0, 119), Rule(-2, 120, 299), Rule(-3, 300, NoLimit) >>
\* DEFAULT_KPI_POINT_RULES
DefaultRule == << Rule(0, 0, 0), Rule(0, -119, 0), Rule(1, -299, -120), Rule(2, -599, -300),
  Rule(3, UnboundedEarly, -600), Rule(-1, 0, 119), Rule(-2, 120, 299), Rule(-3, 300, NoLimit) >>

Table == [kept : SUBSET RuleIds, off : SUBSET RuleIds]
Seeded == [kept |-> RuleIds, off |-> {}]
Active(table) == table.kept \ table.off

ASSUME KpiRulesAssumption ==
  /\ Deltas \subseteq Int /\ Thresholds \subseteq Int /\ AskedTables \subseteq Table
  /\ CacheMs \in Nat \ {0}
  /\ Bounds \subseteq [seeded : BOOLEAN, saves : Nat, scores : Nat, stops : Nat, ticks : Nat]
------------------------------------------------------------------------------
(* The score of a delta d, with the threshold t and the active rules A.     *)

OnTime(d, t) == -t <= d /\ d <= t

\* resolveScoringMinutes: whole minutes, towards the start of the shift.
ScoringMinutes(d, t) ==
  CASE OnTime(d, t) -> 0
    [] d > t        -> d \div 60
    [] d < -t       -> -((-d) \div 60)

\* calculateKpiScore: the points of whole minutes, when no rule matches.
FallbackPoints(m) ==
  CASE m <= -10             -> 3
    [] m \in -9 .. -5       -> 2
    [] m \in -4 .. -2       -> 1
    [] m \in {-1, 0}        -> 0
    [] m = 1                -> -1
    [] m \in 2 .. 4         -> -2
    [] m >= 5               -> -3

\* Does the rule i match?  The rule for 0 points at 0 seconds is the one for
\* being on time, and its range is the threshold.
Matches(i, d, t) ==
  LET r == DefaultRule[i]
  IN  IF r.points = 0 /\ r.min = 0 /\ r.max = 0
      THEN OnTime(d, t)
      ELSE r.min <= d /\ (r.max = NoLimit \/ d <= r.max)

Matching(A, d, t) == {i \in A : Matches(i, d, t)}

FirstOf(S) == CHOOSE i \in S : \A j \in S : i <= j

\* calculateKpiScoreFromRules
PointsFromRules(A, d, t) ==
  IF Matching(A, d, t) # {}
  THEN DefaultRule[FirstOf(Matching(A, d, t))].points
  ELSE FallbackPoints(ScoringMinutes(d, t))

Status(d, t) == IF d > t THEN "late" ELSE "present"

AtLeast(low, n) == IF n < low THEN low ELSE n

\* lateMinutesAttendance: at least 1 when late.
LateMinutes(d, t) == AtLeast(IF Status(d, t) = "late" THEN 1 ELSE 0, ScoringMinutes(d, t))

\* computeCheckInKpiFields
Fields(d, t, A) ==
  [delta |-> d, threshold |-> t, active |-> A, points |-> PointsFromRules(A, d, t),
   status |-> Status(d, t), late |-> LateMinutes(d, t)]
------------------------------------------------------------------------------
VARIABLES
  settings,   \* gamification_settings: lateThresholdSeconds
  rules,      \* kpi_point_rules
  cached,     \* cached[<<n, k>>]: settingsCache and rulesCache of node n
  ask,        \* ask[c]: the computation that call c is at
  fill,       \* fill[<<c, k>>]: where the call stands with the settings or the rules
  saving,     \* saving[n]: the save that node n is at
  scored,     \* scored[c]: the last score of call c
  retired,    \* history: retired[k], what settings or rules have been, and until when
  clean,      \* history: clean[n], nothing was saved since n dropped its caches
  clock,
  left        \* how many saves, scores, failing queries and ticks there may still be

dbVars == <<settings, rules, retired>>
kvars == <<settings, rules, cached, ask, fill, saving, scored, retired, clean, clock, left>>

Kinds == {"settings", "rules"}
Idle == [st |-> "none"]

KpiRulesInit ==
  /\ left \in Bounds
  /\ settings = 1 /\ rules = IF left.seeded THEN Seeded ELSE [kept |-> {}, off |-> {}]
  /\ cached = [x \in Nodes \X Kinds |-> NoValue]
  /\ ask = [c \in KCalls |-> NoValue] /\ fill = [x \in KCalls \X Kinds |-> Idle]
  /\ saving = [n \in Nodes |-> Idle] /\ scored = [c \in KCalls |-> NoValue]
  /\ retired = [k \in Kinds |-> {}] /\ clean = [n \in Nodes |-> TRUE]
  /\ clock = 0

\* What the database holds now.
Live(k) == IF k = "settings" THEN settings ELSE Active(rules)

\* The table of the kind k is about to change.
Retire(k) == retired' = [retired EXCEPT ![k] = @ \cup {[val |-> Live(k), till |-> clock]}]

Spend(what) == left[what] > 0 /\ left' = [left EXCEPT ![what] = @ - 1]

Fill(c, k, next) == fill' = [fill EXCEPT ![<<c, k>>] = next]

InTime(n, k) == cached[<<n, k>>] # NoValue /\ clock - cached[<<n, k>>].at < CacheMs

\* computeCheckInKpiFields asks for the settings and the rules at once: what is
\* cached is used as it is now, the rest is loaded.
Ask(c, n) ==
  /\ ask[c] = NoValue /\ Spend("scores")
  /\ ask' = [ask EXCEPT ![c] = [node |-> n, now |-> clock]]
  /\ fill' = [x \in KCalls \X Kinds |->
                IF x[1] # c THEN fill[x]
                ELSE IF InTime(n, x[2]) THEN [st |-> "have", val |-> cached[<<n, x[2]>>].val]
                                     ELSE [st |-> "count"]]
  /\ scored' = [scored EXCEPT ![c] = NoValue]
  /\ UNCHANGED <<dbVars, cached, saving, clean, clock>>

\* ensureOrganizationDefaults: only an empty table is filled.
Count(c, k) ==
  /\ fill[<<c, k>>].st = "count"
  /\ Fill(c, k, IF rules.kept = {} THEN [st |-> "seed", next |-> 1] ELSE [st |-> "read"])
  /\ UNCHANGED <<dbVars, cached, ask, saving, scored, clean, clock, left>>

\* ... with one rule after another.
Seed(c, k) ==
  /\ fill[<<c, k>>].st = "seed"
  /\ LET i == fill[<<c, k>>].next
     IN  /\ rules' = [kept |-> rules.kept \cup {i}, off |-> rules.off \ {i}]
         /\ Fill(c, k, IF i = 8 THEN [st |-> "read"] ELSE [st |-> "seed", next |-> i + 1])
  /\ Retire("rules")
  /\ clean' = [n \in Nodes |-> FALSE]
  /\ UNCHANGED <<settings, cached, ask, saving, scored, clock, left>>

\* getGamificationSettings, listKpiPointRules
LoadTable(c, k) ==
  /\ fill[<<c, k>>].st = "read"
  /\ Fill(c, k, [st |-> "store", val |-> Live(k)])
  /\ UNCHANGED <<dbVars, cached, ask, saving, scored, clean, clock, left>>

\* Mutant of StoredAt: the age of an entry counts from the answer.
StoredNow(c) == clock
\* The age of an entry counts from the request: now is taken before the await.
StoredAt(c) == ask[c].now

\* getGamificationSettingsCached, getActiveKpiRulesCached
Keep(c, k) ==
  /\ fill[<<c, k>>].st = "store"
  /\ cached' = [cached EXCEPT ![<<ask[c].node, k>>] = [val |-> fill[<<c, k>>].val, at |-> StoredAt(c)]]
  /\ Fill(c, k, [st |-> "have", val |-> fill[<<c, k>>].val])
  /\ UNCHANGED <<dbVars, ask, saving, scored, clean, clock, left>>

\* A failing query ends the load of this kind; the other one goes on.
Fail(c, k) ==
  /\ fill[<<c, k>>].st \in {"count", "seed", "read"} /\ Spend("stops")
  /\ Fill(c, k, [st |-> "failed"])
  /\ UNCHANGED <<dbVars, cached, ask, saving, scored, clean, clock>>

\* Both are settled: the score of the check-in, whose delta d matters only now,
\* or the error of the load that failed.
Score(c, d) ==
  /\ ask[c] # NoValue
  /\ \A k \in Kinds : fill[<<c, k>>].st \in {"have", "failed"}
  /\ scored' =
       IF \A k \in Kinds : fill[<<c, k>>].st = "have"
       THEN [scored EXCEPT ![c] =
               [now |-> ask[c].now,
                of  |-> Fields(d, fill[<<c, "settings">>].val, fill[<<c, "rules">>].val)]]
       ELSE scored
  /\ ask' = [ask EXCEPT ![c] = NoValue]
  /\ fill' = [x \in KCalls \X Kinds |-> IF x[1] = c THEN Idle ELSE fill[x]]
  /\ UNCHANGED <<dbVars, cached, saving, clean, clock, left>>
------------------------------------------------------------------------------
(* saveGamificationConfig.                                                  *)

Accepted(t, table) ==
  /\ t # NoValue => t \in 0 .. 300
  /\ table # NoValue => Cardinality(table.kept) >= 3

\* The settings are written; a field that is not given stays.
Save(n, t, table) ==
  /\ saving[n].st = "none" /\ Accepted(t, table) /\ Spend("saves")
  /\ settings' = IF t = NoValue THEN settings ELSE t
  /\ IF t = NoValue THEN UNCHANGED <<retired, clean>>
     ELSE Retire("settings") /\ clean' = [m \in Nodes |-> FALSE]
  /\ saving' = [saving EXCEPT ![n] = IF table = NoValue THEN [st |-> "drop"]
                                     ELSE [st |-> "existing", table |-> table]]
  /\ UNCHANGED <<rules, cached, ask, fill, scored, clock>>

\* The rules there are now, and those of them that go.
Existing(n) ==
  /\ saving[n].st = "existing"
  /\ saving' = [saving EXCEPT ![n] =
       [st |-> "replace", table |-> saving[n].table, gone |-> rules.kept \ saving[n].table.kept]]
  /\ UNCHANGED <<dbVars, cached, ask, fill, scored, clean, clock, left>>

\* The transaction; it fails when a rule that is to go has gone already.
Replace(n) ==
  /\ saving[n].st = "replace"
  /\ LET new == saving[n].table
         gone == saving[n].gone
     IN  IF gone \subseteq rules.kept
         THEN /\ rules' = [kept |-> (rules.kept \ gone) \cup new.kept,
                           off  |-> (rules.off \ (gone \cup new.kept)) \cup (new.off \cap new.kept)]
              /\ Retire("rules") /\ clean' = [m \in Nodes |-> FALSE]
              /\ saving' = [saving EXCEPT ![n] = [st |-> "drop"]]
         ELSE /\ saving' = [saving EXCEPT ![n] = Idle]
              /\ UNCHANGED <<rules, retired, clean>>
  /\ UNCHANGED <<settings, cached, ask, fill, scored, clock, left>>

\* invalidateConfigCache empties both caches of its own process.
Dropped(n) == {<<n, k>> : k \in Kinds}

\* Does a load of node n hold what it has read and not stored?
Loading(n) ==
  \E c \in KCalls : (\E k \in Kinds : fill[<<c, k>>].st = "store") /\ ask[c].node = n

InvalidateConfigCache(n) ==
  /\ saving[n].st = "drop"
  /\ cached' = [x \in Nodes \X Kinds |-> IF x \in Dropped(n) THEN NoValue ELSE cached[x]]
  /\ clean' = [clean EXCEPT ![n] = ~Loading(n)]
  /\ saving' = [saving EXCEPT ![n] = Idle]
  /\ UNCHANGED <<dbVars, ask, fill, scored, clock, left>>

\* A failing query ends the save where it is, and the caches stay.
FailSave(n) ==
  /\ saving[n].st \in {"existing", "replace"} /\ Spend("stops")
  /\ saving' = [saving EXCEPT ![n] = Idle]
  /\ UNCHANGED <<dbVars, cached, ask, fill, scored, clean, clock>>

Tick ==
  /\ Spend("ticks") /\ clock' = clock + 1
  /\ UNCHANGED <<dbVars, cached, ask, fill, saving, scored, clean>>

KpiRulesNext ==
  \/ \E c \in KCalls, n \in Nodes : Ask(c, n)
  \/ \E c \in KCalls, k \in Kinds : Count(c, k) \/ Seed(c, k) \/ LoadTable(c, k) \/ Keep(c, k) \/ Fail(c, k)
  \/ \E c \in KCalls, d \in Deltas : Score(c, d)
  \/ \E n \in Nodes : \/ \E t \in Thresholds \cup {NoValue}, table \in AskedTables \cup {NoValue} : Save(n, t, table)
                      \/ Existing(n) \/ Replace(n) \/ InvalidateConfigCache(n) \/ FailSave(n)
  \/ Tick

KpiRulesSpec == KpiRulesInit /\ [][KpiRulesNext]_kvars
------------------------------------------------------------------------------
ScoresMade == {scored[c].of : c \in {x \in KCalls : scored[x] # NoValue}}

\* The score of a check-in says what its status says: late minutes exactly when
\* it is late and then no points to gain, and no points to lose when it is not,
\* whatever threshold and whatever default rules the owner has switched on, as
\* long as the rule for being on time is among them.
ScoreFitsStatus ==
  \A s \in ScoresMade :
    /\ (s.status = "late") <=> (s.late > 0)
    /\ 1 \in s.active => IF s.status = "late" THEN s.points <= 0 ELSE s.points >= 0

\* Of two check-ins scored with the same threshold and the same rules, the
\* earlier never scores less, even where a rule is off or not yet created and
\* the minutes decide.
EarlierScoresNoLess ==
  \A r, s \in ScoresMade :
    r.threshold = s.threshold /\ r.active = s.active /\ 1 \in s.active /\ r.delta <= s.delta
      => r.points >= s.points

\* A score uses a threshold and rules that were in force less than CACHE_MS
\* before the check-in was scored, however slow a load was.
RulesAreRecent ==
  \A c \in KCalls : scored[c] # NoValue =>
    LET InForce(k, v) == v = Live(k) \/ \E r \in retired[k] : r.val = v /\ scored[c].now < r.till + CacheMs
    IN  InForce("settings", scored[c].of.threshold) /\ InForce("rules", scored[c].of.active)

\* A process that saved while none of its loads was on the way, and no other
\* process since, has what was saved in its caches or nothing.
SavedIsCached ==
  \A n \in Nodes, k \in Kinds : clean[n] /\ cached[<<n, k>>] # NoValue => cached[<<n, k>>].val = Live(k)
==============================================================================
