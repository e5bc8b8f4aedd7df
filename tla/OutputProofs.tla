------------------------------ MODULE OutputProofs ------------------------------
(***************************************************************************)
(* Proofs about Boards and about Notices, what the program shows and what  *)
(* it sends.                                                               *)
(***************************************************************************)
EXTENDS Notices, Boards, FiniteSetTheorems, TLAPS

(***************************************************************************)
(* Proofs about Boards: how old what is shown may be, for any number of    *)
(* requests and changes, lives of the entries, and lost deletions; and     *)
(* that it is not old after a change that invalidates, where calls do not  *)
(* overlap.                                                                *)
(*                                                                         *)
(* A change says when what was true before has ceased to be (ended).  What *)
(* a call holds, and what an entry holds, can be no older than the sources *)
(* it came from allow: BInv names that age for every await of a call, and  *)
(* for every entry, at the time when it expires.                           *)
(***************************************************************************)
\* What the age of a version depends on.
Now == [fact |-> fact, ended |-> ended, clock |-> clock]

NowOK(w) ==
  /\ w.fact \in Nat /\ w.clock \in Nat
  /\ \A v \in 0 .. w.fact : w.ended[v] \in Nat

\* Version v has been true, and ceased to be at most n units ago.
Young(v, n, w) ==
  v \in 0 .. w.fact /\ (v < w.fact => w.clock <= w.ended[v] + n)

\* The entry e, which lives for ttl: when it expires, its version has ceased to
\* be true at most n units ago.
EntryOK(e, ttl, n, w) ==
  e # NoEntry =>
    /\ e.ver \in 0 .. w.fact /\ e.till \in Nat /\ e.till <= w.clock + ttl
    /\ e.ver < w.fact => e.till <= w.ended[e.ver] + n

\* How old is what entry k is made from, and what a call that shows k holds.
Base(k) ==
  CASE k = "rows" -> ShiftsTtl - 1
    [] k = "picker" -> AgeOfRows
    [] k \in {"board", "wall"} -> Longest({AgeOfRows, Age("ranks")})
    [] OTHER -> 0
Held(k) == IF k = "rows" THEN AgeOfRows ELSE Base(k)

\* The same of the rows that a call has just loaded, and of those that it has
\* found in Redis.
AgeLoaded == ShiftsTtl - 1
AgeFound == AgeLoaded + Ttl["rows"] - 1

HasLeast(S) == \E v \in S : \A w \in S : v <= w
------------------------------------------------------------------------------
(* The calls.                                                               *)

Fetching == {"rows", "askredis"}
Finding == {"redis", "load", "wait", "loaded", "store"}

Readers ==
  [do : {"next", "ranks"} \cup Fetching, show : Entries, parts : SUBSET Entries, got : SUBSET Nat]
Finders ==
  [do : Finding, show : Entries, parts : SUBSET Entries, got : SUBSET Nat, found : Nat \cup {NoEntry}]
Rankers ==
  [do : {"ranked"}, show : Entries, parts : SUBSET Entries, got : SUBSET Nat, ver : Nat]

\* The call fetches part k for what it shows.
For(b, k) == k \in PartsOf(b.show) \/ k = b.show

\* What a call holds is young enough for what it shows.
HoldsYoung(b, w) ==
  /\ b.parts \subseteq PartsOf(b.show)
  /\ \A v \in b.got : Young(v, Held(b.show), w)
  /\ b.got # {} => HasLeast(b.got)

ReaderOK(b, w) ==
  /\ b \in Readers /\ HoldsYoung(b, w)
  /\ b.do = "next" => b.got # {}
  /\ b.do = "ranks" => "ranks" \in PartsOf(b.show)
  /\ b.do \in Fetching => For(b, "rows")
FinderOK(b, w) ==
  /\ b \in Finders /\ HoldsYoung(b, w) /\ For(b, "rows")
  /\ b.do = "redis" => b.found = NoEntry \/ Young(b.found, AgeFound, w)
  /\ b.do \in {"loaded", "store"} => Young(b.found, AgeLoaded, w)
RankerOK(b, w) ==
  b \in Rankers /\ HoldsYoung(b, w) /\ "ranks" \in PartsOf(b.show) /\ Young(b.ver, 0, w)
SetterOK(b, w) ==
  b \in [do : {"set"}, show : Entries, ver : Nat] /\ Young(b.ver, Held(b.show), w)

CallOK(b, w) ==
  \/ b = Rest
  \/ b \in [do : {"entry"}, show : Entries \ {"rows"}]
  \/ ReaderOK(b, w) \/ FinderOK(b, w) \/ RankerOK(b, w) \/ SetterOK(b, w)
  \/ b \in [do : {"edited"}, worker : BOOLEAN]
  \/ b \in [do : {"delete"}, keys : SUBSET Stale]

BInv ==
  /\ boverlap \in BOOLEAN /\ NowOK(Now)
  /\ fact <= MaxEdits[boverlap] /\ ended \in [0 .. MaxEdits[boverlap] -> Nat]
  /\ DOMAIN redis = Entries /\ DOMAIN bcall = BCalls
  /\ EntryOK(codes, ShiftsTtl, ShiftsTtl, Now)
  /\ EntryOK(mem, RowsMemTtl, AgeFound + RowsMemTtl, Now)
  /\ \A k \in Entries : EntryOK(redis[k], Ttl[k], Base(k) + Ttl[k], Now)
  /\ \A c \in BCalls : CallOK(bcall[c], Now)

\* The last change that invalidated, and those since.
Since == announced .. fact

\* All versions that a call holds are in S.
HoldsOnly(b, S) ==
  /\ "got" \in DOMAIN b => b.got \subseteq S
  /\ "found" \in DOMAIN b => b.found \in S \cup {NoEntry}
  /\ "ver" \in DOMAIN b => b.ver \in S

\* Calls do not overlap, Redis has missed nothing, the worker process has
\* changed nothing, and the shifts are as they were.
Plain == ~boverlap /\ misses = 0 /\ ~byWorker /\ ~renamed

\* What is kept, and what call c holds, is no older than the last change that
\* invalidated, but for the entries that it is about to delete.
LastFor(c) ==
  /\ HoldsOnly(bcall[c], Since)
  /\ bcall[c].do = "edited" => ~bcall[c].worker
  /\ mem # NoEntry => mem.ver \in Since \/ bcall[c].do = "edited"
  /\ \A k \in Entries \ {"global"} :
       redis[k] # NoEntry =>
         \/ redis[k].ver \in Since \/ bcall[c].do = "edited"
         \/ bcall[c].do = "delete" /\ k \in bcall[c].keys

\* Calls other than c are at rest.
AloneIs(c) == \A d \in BCalls \ {c} : bcall[d] = Rest

LInv ==
  /\ misses \in Nat /\ announced \in 0 .. fact
  /\ ~renamed /\ codes # NoEntry => codes.ver = fact
  /\ ~boverlap => \A c \in BCalls : bcall[c] # Rest => AloneIs(c)
  /\ Plain => \A c \in BCalls : AloneIs(c) => LastFor(c)
------------------------------------------------------------------------------
(* Ages.                                                                    *)

LEMMA LongestOfTwo ==
  ASSUME NEW a \in Nat, NEW b \in Nat
  PROVE  Longest({a, b}) \in Nat /\ a <= Longest({a, b}) /\ b <= Longest({a, b})
<1>1. \E n \in {a, b} : \A m \in {a, b} : m <= n
  <2>1. CASE a <= b BY <2>1
  <2>2. CASE b <= a BY <2>2
  <2> QED BY <2>1, <2>2
<1>2. Longest({a, b}) \in {a, b} /\ \A m \in {a, b} : m <= Longest({a, b})
  BY <1>1 DEF Longest
<1> QED BY <1>2

\* What a part of k may add to the age of k is counted in it.
LEMMA Ages ==
  /\ AgeOfRows \in Nat /\ RowsMemTtl \in Nat \ {0} /\ ShiftsTtl \in Nat \ {0}
  /\ AgeLoaded \in Nat /\ AgeFound \in Nat /\ AgeLoaded <= AgeFound /\ AgeFound <= AgeOfRows
  /\ Base("rows") = AgeLoaded /\ AgeFound = Base("rows") + Ttl["rows"] - 1
  /\ AgeOfRows = AgeFound + RowsMemTtl - 1
  /\ \A k \in Entries :
       /\ Ttl[k] \in Nat \ {0} /\ Base(k) \in Nat /\ Held(k) \in Nat /\ Oldest(k) \in Nat
       /\ Held(k) <= Oldest(k)
       /\ k # "rows" => Held(k) = Base(k) /\ Oldest(k) = Base(k) + (Ttl[k] - 1)
       /\ k = "rows" \/ "rows" \in PartsOf(k) => AgeOfRows <= Held(k)
       /\ "ranks" \in PartsOf(k) => Ttl["ranks"] - 1 <= Held(k)
<1>1. \A k \in Entries : Ttl[k] \in Nat \ {0} BY BoardsAssumption
<1>2. RowsMemTtl \in Nat \ {0} /\ ShiftsTtl \in Nat \ {0} BY BoardsAssumption
<1>3. /\ AgeOfRows \in Nat /\ Age("ranks") \in Nat /\ AgeOfRows = AgeFound + RowsMemTtl - 1
      /\ AgeLoaded \in Nat /\ AgeFound \in Nat /\ AgeLoaded <= AgeFound /\ AgeFound <= AgeOfRows
  BY <1>1, <1>2 DEF AgeOfRows, Age, Entries, AgeLoaded, AgeFound
<1>a. Base("rows") = AgeLoaded /\ AgeFound = Base("rows") + Ttl["rows"] - 1
  BY DEF Base, AgeLoaded, AgeFound
<1>4. /\ Longest({AgeOfRows, Age("ranks")}) \in Nat
      /\ AgeOfRows <= Longest({AgeOfRows, Age("ranks")})
      /\ Age("ranks") <= Longest({AgeOfRows, Age("ranks")})
  BY <1>3, LongestOfTwo
<1>5. ASSUME NEW k \in Entries
      PROVE  /\ Base(k) \in Nat /\ Held(k) \in Nat /\ Oldest(k) \in Nat
             /\ Held(k) <= Oldest(k)
             /\ k # "rows" => Held(k) = Base(k) /\ Oldest(k) = Base(k) + (Ttl[k] - 1)
             /\ k = "rows" \/ "rows" \in PartsOf(k) => AgeOfRows <= Held(k)
             /\ "ranks" \in PartsOf(k) => Ttl["ranks"] - 1 <= Held(k)
  <2>1. CASE k = "rows"
    <3>1. Base(k) = AgeLoaded /\ Held(k) = AgeOfRows /\ Oldest(k) = AgeOfRows
      BY <1>a, <2>1 DEF Held, Oldest
    <3>2. PartsOf(k) = {} BY <2>1 DEF PartsOf
    <3> QED BY <1>3, <2>1, <3>1, <3>2
  <2>2. CASE k = "picker"
    <3>1. Base(k) = AgeOfRows /\ Held(k) = AgeOfRows /\ Oldest(k) = AgeOfRows + (Ttl[k] - 1)
      BY <2>2 DEF Base, Held, Oldest, Age
    <3>2. PartsOf(k) = {"rows"} BY <2>2 DEF PartsOf
    <3> QED BY <1>1, <1>3, <2>2, <3>1, <3>2
  <2>3. CASE k \in {"board", "wall"}
    <3> DEFINE L == Longest({AgeOfRows, Age("ranks")})
    <3>1. Base(k) = L /\ Held(k) = L /\ Oldest(k) = L + (Ttl[k] - 1)
      BY <2>3 DEF Base, Held, Oldest, Age
    <3>2. L \in Nat /\ AgeOfRows <= L /\ Ttl["ranks"] - 1 <= L BY <1>4 DEF Age
    <3> HIDE DEF L
    <3> QED BY <1>1, <1>3, <2>3, <3>1, <3>2
  <2>4. CASE k \in {"ranks", "global"}
    <3>1. Base(k) = 0 /\ Held(k) = 0 /\ Oldest(k) = Ttl[k] - 1
      BY <2>4 DEF Base, Held, Oldest, Age
    <3>2. PartsOf(k) = {} BY <2>4 DEF PartsOf
    <3> QED BY <1>1, <2>4, <3>1, <3>2
  <2> QED BY <2>1, <2>2, <2>3, <2>4 DEF Entries
<1> QED BY <1>1, <1>2, <1>3, <1>5, <1>a

\* What was read just now is as young as can be.
LEMMA JustRead ==
  ASSUME NEW w, NowOK(w), NEW n \in Nat
  PROVE  Young(w.fact, n, w) /\ w.fact \in Nat
BY DEF Young, NowOK

LEMMA Younger ==
  ASSUME NEW w, NowOK(w), NEW v, NEW m \in Nat, NEW n \in Nat, m <= n, Young(v, m, w)
  PROVE  Young(v, n, w) /\ v \in Nat
<1>1. v \in 0 .. w.fact /\ v \in Nat BY DEF Young, NowOK
<1>2. w.ended[v] \in Nat /\ w.clock \in Nat BY <1>1 DEF NowOK
<1> QED BY <1>1, <1>2 DEF Young

\* What an entry that has not expired holds is younger than it says.
LEMMA Found ==
  ASSUME NEW w, NowOK(w), NEW e, NEW ttl \in Nat, NEW n \in Nat \ {0},
         EntryOK(e, ttl, n, w), e # NoEntry, w.clock < e.till
  PROVE  Young(e.ver, n - 1, w) /\ e.ver \in Nat
<1>1. e.ver \in 0 .. w.fact /\ e.ver \in Nat /\ e.till \in Nat BY DEF EntryOK, NowOK
<1>2. w.ended[e.ver] \in Nat /\ w.clock \in Nat BY <1>1 DEF NowOK
<1>3. e.ver < w.fact => e.till <= w.ended[e.ver] + n BY DEF EntryOK
<1> QED BY <1>1, <1>2, <1>3 DEF Young

\* An entry made from what was young.
LEMMA Stored ==
  ASSUME NEW w, NowOK(w), NEW v, NEW m \in Nat, Young(v, m, w), NEW ttl \in Nat
  PROVE  EntryOK([ver |-> v, till |-> w.clock + ttl], ttl, m + ttl, w)
<1>1. v \in 0 .. w.fact /\ v \in Nat BY DEF Young, NowOK
<1>2. w.ended[v] \in Nat /\ w.clock \in Nat BY <1>1 DEF NowOK
<1> DEFINE e == [ver |-> v, till |-> w.clock + ttl]
<1>3. e.ver = v /\ e.till = w.clock + ttl OBVIOUS
<1>4. v < w.fact => w.clock <= w.ended[v] + m BY DEF Young
<1> HIDE DEF e
<1>5. EntryOK(e, ttl, m + ttl, w) BY <1>1, <1>2, <1>3, <1>4 DEF EntryOK
<1> QED BY <1>5 DEF e

\* A change ends one version, now.
LEMMA Changed ==
  ASSUME NEW w, NowOK(w), NEW w2, w2.fact = w.fact + 1, w2.clock = w.clock,
         \A v \in 0 .. w.fact : w2.ended[v] = IF v = w.fact THEN w.clock ELSE w.ended[v],
         w2.ended[w2.fact] \in Nat
  PROVE  /\ NowOK(w2)
         /\ \A v, n : n \in Nat /\ Young(v, n, w) => Young(v, n, w2)
         /\ \A e, ttl, n : ttl \in Nat /\ n \in Nat /\ ttl <= n /\ EntryOK(e, ttl, n, w)
              => EntryOK(e, ttl, n, w2)
<1>1. w.fact \in Nat /\ w.clock \in Nat BY DEF NowOK
<1>2. 0 .. w2.fact = (0 .. w.fact) \cup {w2.fact} BY <1>1
<1>3. \A v \in 0 .. w.fact : w.ended[v] \in Nat /\ w2.ended[v] \in Nat BY <1>1 DEF NowOK
<1>4. NowOK(w2) BY <1>1, <1>2, <1>3 DEF NowOK
<1>5. ASSUME NEW v, NEW n \in Nat, Young(v, n, w) PROVE Young(v, n, w2)
  <2>1. v \in 0 .. w.fact BY <1>5 DEF Young
  <2>2. CASE v = w.fact BY <1>1, <2>1, <2>2 DEF Young
  <2>3. CASE v # w.fact
    <3>1. v < w.fact /\ w2.ended[v] = w.ended[v] BY <1>1, <2>1, <2>3
    <3> QED BY <1>1, <1>5, <2>1, <3>1 DEF Young
  <2> QED BY <2>2, <2>3
<1>6. ASSUME NEW e, NEW ttl \in Nat, NEW n \in Nat, ttl <= n, EntryOK(e, ttl, n, w)
      PROVE  EntryOK(e, ttl, n, w2)
  <2> SUFFICES ASSUME e # NoEntry PROVE EntryOK(e, ttl, n, w2) BY DEF EntryOK
  <2>1. e.ver \in 0 .. w.fact /\ e.till \in Nat /\ e.till <= w.clock + ttl
    BY <1>6 DEF EntryOK
  <2>2. CASE e.ver = w.fact
    <3>1. w2.ended[e.ver] = w.clock BY <2>1, <2>2
    <3>2. e.till <= w2.ended[e.ver] + n BY <1>1, <1>6, <2>1, <3>1
    <3> QED BY <1>1, <2>1, <3>2 DEF EntryOK
  <2>3. CASE e.ver # w.fact
    <3>1. e.ver < w.fact /\ w2.ended[e.ver] = w.ended[e.ver] BY <1>1, <2>1, <2>3
    <3> QED BY <1>1, <1>6, <2>1, <3>1 DEF EntryOK
  <2> QED BY <2>2, <2>3
<1> QED BY <1>4, <1>5, <1>6

LEMMA Ticked ==
  ASSUME NEW w, NowOK(w), NEW w2, w2.fact = w.fact, w2.clock = w.clock + 1, w2.ended = w.ended,
         NEW e, NEW ttl \in Nat, NEW n, EntryOK(e, ttl, n, w)
  PROVE  EntryOK(e, ttl, n, w2) /\ NowOK(w2)
<1>1. w.fact \in Nat /\ w.clock \in Nat BY DEF NowOK
<1>2. NowOK(w2) BY <1>1 DEF NowOK
<1>3. ASSUME e # NoEntry PROVE EntryOK(e, ttl, n, w2)
  <2>1. e.ver \in 0 .. w.fact /\ e.till \in Nat /\ e.till <= w.clock + ttl
    BY <1>3 DEF EntryOK
  <2> QED BY <1>1, <1>3, <2>1 DEF EntryOK
<1> QED BY <1>2, <1>3 DEF EntryOK
------------------------------------------------------------------------------
(* What a call may turn into.                                               *)

LEMMA PartsAreEntries ==
  /\ {"rows", "ranks"} \subseteq Entries
  /\ \A k \in Entries : PartsOf(k) \subseteq {"rows", "ranks"} /\ PartsOf(k) \in SUBSET Entries
<1>1. {"rows", "ranks"} \subseteq Entries BY DEF Entries
<1>2. ASSUME NEW k \in Entries PROVE PartsOf(k) \subseteq {"rows", "ranks"}
  <2>1. CASE k \in {"board", "wall"} BY <2>1 DEF PartsOf
  <2>2. CASE k = "picker" BY <2>2 DEF PartsOf
  <2>3. CASE k \notin {"board", "wall", "picker"} BY <2>3 DEF PartsOf
  <2> QED BY <2>1, <2>2, <2>3
<1> QED BY <1>1, <1>2

\* A reading call, whatever it is about to do.
Reading(b) == b.show \in Entries /\ b.parts \in SUBSET Entries /\ b.got \in SUBSET Nat

LEMMA ReadersRead ==
  ASSUME NEW b, b \in Readers \cup Finders \cup Rankers
  PROVE  /\ Reading(b)
         /\ b.do \in {"next", "ranks", "ranked"} \cup Fetching \cup Finding
         /\ b # Rest
<1>1. CASE b \in Readers
  <2>1. Reading(b) /\ b.do \in {"next", "ranks"} \cup Fetching BY <1>1 DEF Readers, Reading
  <2> QED BY <2>1 DEF Fetching, Rest
<1>2. CASE b \in Finders
  <2>1. Reading(b) /\ b.do \in Finding BY <1>2 DEF Finders, Reading
  <2> QED BY <2>1 DEF Finding, Rest
<1>3. CASE b \in Rankers
  <2>1. Reading(b) /\ b.do = "ranked" BY <1>3 DEF Rankers, Reading
  <2> QED BY <2>1 DEF Rest
<1> QED BY <1>1, <1>2, <1>3

LEMMA GotMore ==
  ASSUME NEW w, NowOK(w), NEW b, Reading(b), HoldsYoung(b, w),
         NEW v, Young(v, Held(b.show), w)
  PROVE  CallOK(Got(b, v), w) /\ Got(b, v) # Rest
<1> DEFINE r == Got(b, v)
<1>1. /\ r.do = "next" /\ r.show = b.show /\ r.parts = b.parts /\ r.got = b.got \cup {v}
      /\ r = [do |-> "next", show |-> b.show, parts |-> b.parts, got |-> b.got \cup {v}]
  BY DEF Got, Showing
<1>2. v \in Nat BY DEF Young, NowOK
<1>3. r \in Readers BY <1>1, <1>2 DEF Readers, Reading
<1>4. HasLeast(r.got)
  <2>1. CASE b.got = {} BY <1>1, <1>2, <2>1 DEF HasLeast
  <2>2. CASE b.got # {}
    <3>1. PICK n \in b.got : \A m \in b.got : n <= m BY <2>2 DEF HoldsYoung, HasLeast
    <3>2. n \in Nat /\ \A m \in b.got : m \in Nat BY DEF Reading
    <3>3. CASE n <= v BY <1>1, <3>1, <3>3 DEF HasLeast
    <3>4. CASE v < n BY <1>1, <1>2, <3>1, <3>2, <3>4 DEF HasLeast
    <3> QED BY <1>2, <3>2, <3>3, <3>4
  <2> QED BY <2>1, <2>2
<1>5. \A u \in r.got : Young(u, Held(r.show), w) BY <1>1 DEF HoldsYoung
<1>6. r.parts \subseteq PartsOf(r.show) BY <1>1 DEF HoldsYoung
<1>7. HoldsYoung(r, w) BY <1>4, <1>5, <1>6 DEF HoldsYoung
<1>8. r.got # {} BY <1>1
<1>9. r.do \notin {"ranks"} \cup Fetching BY <1>1 DEF Fetching
<1>10. r # Rest BY <1>3, ReadersRead
<1> HIDE DEF r
<1>11. CallOK(r, w) BY <1>1, <1>3, <1>7, <1>8, <1>9 DEF CallOK, ReaderOK
<1> QED BY <1>10, <1>11 DEF r

\* The next part is fetched.
LEMMA Turned ==
  ASSUME NEW w, NEW b \in Readers, HoldsYoung(b, w), NEW k \in b.parts
  PROVE  /\ CallOK([b EXCEPT !.do = k, !.parts = @ \ {k}], w)
         /\ [b EXCEPT !.do = k, !.parts = @ \ {k}] # Rest
<1> DEFINE r == [b EXCEPT !.do = k, !.parts = @ \ {k}]
<1>1. b.show \in Entries /\ k \in PartsOf(b.show) /\ k \in {"rows", "ranks"}
  BY PartsAreEntries DEF HoldsYoung, Readers
<1>2. r \in [do : {k}, show : Entries, parts : SUBSET Entries, got : SUBSET Nat]
  BY DEF Readers
<1>3. r.do = k /\ r.show = b.show /\ r.parts = b.parts \ {k} /\ r.got = b.got
  BY DEF Readers
<1> HIDE DEF r
<1>4. r \in Readers BY <1>1, <1>2 DEF Readers, Fetching
<1>5. HoldsYoung(r, w) BY <1>3 DEF HoldsYoung
<1>6. r # Rest BY <1>4, ReadersRead
<1>7. ReaderOK(r, w) BY <1>1, <1>3, <1>4, <1>5 DEF ReaderOK, For, Fetching
<1>8. CallOK(r, w) BY <1>7 DEF CallOK
<1> QED BY <1>6, <1>8 DEF r

LEMMA AskingRedis ==
  ASSUME NEW w, NEW b \in Readers, HoldsYoung(b, w), For(b, "rows")
  PROVE  CallOK([b EXCEPT !.do = "askredis"], w) /\ [b EXCEPT !.do = "askredis"] # Rest
<1> DEFINE r == [b EXCEPT !.do = "askredis"]
<1>1. r \in [do : {"askredis"}, show : Entries, parts : SUBSET Entries, got : SUBSET Nat]
  BY DEF Readers
<1>2. r.do = "askredis" /\ r.show = b.show /\ r.parts = b.parts /\ r.got = b.got
  BY DEF Readers
<1> HIDE DEF r
<1>3. r \in Readers BY <1>1 DEF Readers, Fetching
<1>4. HoldsYoung(r, w) /\ For(r, "rows") BY <1>2 DEF HoldsYoung, For
<1>5. ReaderOK(r, w) BY <1>2, <1>3, <1>4 DEF ReaderOK
<1>6. CallOK(r, w) BY <1>5 DEF CallOK
<1> QED BY <1>3, <1>6, ReadersRead DEF r

\* The loading of the rows goes on.
LEMMA Finds ==
  ASSUME NEW w, NEW b \in Finders, HoldsYoung(b, w), For(b, "rows"),
         NEW step \in Finding \ {"redis"}, NEW v \in Nat \cup {NoEntry},
         step \in {"loaded", "store"} => Young(v, AgeLoaded, w)
  PROVE  /\ CallOK([b EXCEPT !.do = step, !.found = v], w)
         /\ [b EXCEPT !.do = step, !.found = v] # Rest
<1> DEFINE r == [b EXCEPT !.do = step, !.found = v]
<1>1. r \in [do : {step}, show : Entries, parts : SUBSET Entries, got : SUBSET Nat,
             found : Nat \cup {NoEntry}]
  BY DEF Finders
<1>2. r.do = step /\ r.show = b.show /\ r.parts = b.parts /\ r.got = b.got /\ r.found = v
  BY DEF Finders
<1> HIDE DEF r
<1>3. r \in Finders BY <1>1 DEF Finders
<1>4. HoldsYoung(r, w) /\ For(r, "rows") BY <1>2 DEF HoldsYoung, For
<1>5. FinderOK(r, w) BY <1>2, <1>3, <1>4 DEF FinderOK
<1>6. CallOK(r, w) BY <1>5 DEF CallOK
<1> QED BY <1>3, <1>6, ReadersRead DEF r

\* A change ages nothing that a call holds.
LEMMA CallChanged ==
  ASSUME NEW w, NEW w2, NEW b, CallOK(b, w),
         \A v, n : n \in Nat /\ Young(v, n, w) => Young(v, n, w2)
  PROVE  CallOK(b, w2)
<1>1. \A k \in Entries : Held(k) \in Nat BY Ages
<1>2. AgeFound \in Nat /\ AgeLoaded \in Nat BY Ages
<1>3. ASSUME b \in Readers \cup Finders \cup Rankers, HoldsYoung(b, w) PROVE HoldsYoung(b, w2)
  BY <1>1, <1>3, ReadersRead DEF HoldsYoung, Reading
<1>4. CASE b = Rest BY <1>4 DEF CallOK
<1>5. CASE b \in [do : {"entry"}, show : Entries \ {"rows"}] BY <1>5 DEF CallOK
<1>6. CASE ReaderOK(b, w) BY <1>3, <1>6 DEF CallOK, ReaderOK
<1>7. CASE FinderOK(b, w) BY <1>2, <1>3, <1>7 DEF CallOK, FinderOK
<1>8. CASE RankerOK(b, w) BY <1>3, <1>8 DEF CallOK, RankerOK
<1>9. CASE SetterOK(b, w) BY <1>1, <1>9 DEF CallOK, SetterOK
<1>10. CASE b \in [do : {"edited"}, worker : BOOLEAN] BY <1>10 DEF CallOK
<1>11. CASE b \in [do : {"delete"}, keys : SUBSET Stale] BY <1>11 DEF CallOK
<1> QED BY <1>4, <1>5, <1>6, <1>7, <1>8, <1>9, <1>10, <1>11 DEF CallOK

LEMMA WhatItIs ==
  ASSUME NEW w, NEW b, CallOK(b, w)
  PROVE  /\ b.do = "entry" => b.show \in Entries \ {"rows"}
         /\ b.do \in {"next", "ranks"} \cup Fetching => ReaderOK(b, w)
         /\ b.do \in Finding => FinderOK(b, w)
         /\ b.do = "ranked" => RankerOK(b, w)
         /\ b.do = "set" => SetterOK(b, w)
         /\ b.do = "edited" => b \in [do : {"edited"}, worker : BOOLEAN]
         /\ b.do = "delete" => b \in [do : {"delete"}, keys : SUBSET Stale]
<1> DEFINE R == {"next", "ranks"} \cup Fetching
<1>1. CASE b = Rest
  <2>1. b.do = "rest" BY <1>1 DEF Rest
  <2> QED BY <2>1 DEF Fetching, Finding
<1>2. CASE b \in [do : {"entry"}, show : Entries \ {"rows"}]
  <2>1. b.do = "entry" /\ b.show \in Entries \ {"rows"} BY <1>2
  <2> QED BY <2>1 DEF Fetching, Finding
<1>3. CASE ReaderOK(b, w)
  <2>1. b.do \in {"next", "ranks"} \cup Fetching BY <1>3 DEF ReaderOK, Readers
  <2> QED BY <1>3, <2>1 DEF Fetching, Finding
<1>4. CASE FinderOK(b, w)
  <2>1. b.do \in Finding BY <1>4 DEF FinderOK, Finders
  <2> QED BY <1>4, <2>1 DEF Fetching, Finding
<1>5. CASE RankerOK(b, w)
  <2>1. b.do = "ranked" BY <1>5 DEF RankerOK, Rankers
  <2> QED BY <1>5, <2>1 DEF Fetching, Finding
<1>6. CASE SetterOK(b, w)
  <2>1. b.do = "set" BY <1>6 DEF SetterOK
  <2> QED BY <1>6, <2>1 DEF Fetching, Finding
<1>7. CASE b \in [do : {"edited"}, worker : BOOLEAN]
  <2>1. b.do = "edited" BY <1>7
  <2> QED BY <1>7, <2>1 DEF Fetching, Finding
<1>8. CASE b \in [do : {"delete"}, keys : SUBSET Stale]
  <2>1. b.do = "delete" BY <1>8
  <2> QED BY <1>8, <2>1 DEF Fetching, Finding
<1> QED BY <1>1, <1>2, <1>3, <1>4, <1>5, <1>6, <1>7, <1>8 DEF CallOK
------------------------------------------------------------------------------
(* The steps.                                                               *)

LEMMA InitBInv == BoardsInit => BInv
<1> SUFFICES ASSUME BoardsInit PROVE BInv OBVIOUS
<1> USE DEF BoardsInit
<1>1. MaxEdits[boverlap] \in Nat BY BoardsAssumption
<1>2. Now.fact = 0 /\ Now.clock = 0 /\ Now.ended = ended BY DEF Now
<1>3. NowOK(Now) BY <1>1, <1>2 DEF NowOK
<1>4. EntryOK(mem, RowsMemTtl, AgeFound + RowsMemTtl, Now) /\ EntryOK(codes, ShiftsTtl, ShiftsTtl, Now)
  BY DEF EntryOK
<1>5. \A k \in Entries : EntryOK(redis[k], Ttl[k], Base(k) + Ttl[k], Now) BY DEF EntryOK
<1>6. \A c \in BCalls : CallOK(bcall[c], Now) BY DEF CallOK
<1> QED BY <1>1, <1>3, <1>4, <1>5, <1>6 DEF BInv

\* Time stands still, and nothing is changed.
Still == UNCHANGED <<boverlap, fact, ended, clock, codes>>

\* A step that moves one call, and writes what is young enough.
LEMMA Moved ==
  ASSUME BInv, Still, NEW c \in BCalls, NEW b, CallOK(b, Now),
         bcall' = [bcall EXCEPT ![c] = b],
         DOMAIN redis' = Entries,
         EntryOK(mem', RowsMemTtl, AgeFound + RowsMemTtl, Now),
         \A k \in Entries : EntryOK(redis'[k], Ttl[k], Base(k) + Ttl[k], Now)
  PROVE  BInv'
<1>1. Now' = Now BY DEF Now, Still
<1>2. DOMAIN bcall' = BCalls /\ \A d \in BCalls : CallOK(bcall'[d], Now) BY DEF BInv
<1> QED BY <1>1, <1>2 DEF BInv, Still

\* Of redis, one entry at most is written.
LEMMA MovedOne ==
  ASSUME BInv, Still, NEW c \in BCalls, NEW b, CallOK(b, Now),
         bcall' = [bcall EXCEPT ![c] = b], UNCHANGED mem,
         NEW k \in Entries, NEW e, EntryOK(e, Ttl[k], Base(k) + Ttl[k], Now),
         redis' = [redis EXCEPT ![k] = e]
  PROVE  BInv'
<1>1. DOMAIN redis' = Entries BY DEF BInv
<1>2. \A j \in Entries : EntryOK(redis'[j], Ttl[j], Base(j) + Ttl[j], Now) BY DEF BInv
<1>3. EntryOK(mem', RowsMemTtl, AgeFound + RowsMemTtl, Now) BY DEF BInv
<1> QED BY <1>1, <1>2, <1>3, Moved

LEMMA MovedNone ==
  ASSUME BInv, Still, NEW c \in BCalls, NEW b, CallOK(b, Now),
         bcall' = [bcall EXCEPT ![c] = b], UNCHANGED <<mem, redis>>
  PROVE  BInv'
<1>1. DOMAIN redis' = Entries BY DEF BInv
<1>2. \A j \in Entries : EntryOK(redis'[j], Ttl[j], Base(j) + Ttl[j], Now) BY DEF BInv
<1>3. EntryOK(mem', RowsMemTtl, AgeFound + RowsMemTtl, Now) BY DEF BInv
<1> QED BY <1>1, <1>2, <1>3, Moved

LEMMA MovedMem ==
  ASSUME BInv, Still, NEW c \in BCalls, NEW b, CallOK(b, Now),
         bcall' = [bcall EXCEPT ![c] = b], UNCHANGED redis,
         EntryOK(mem', RowsMemTtl, AgeFound + RowsMemTtl, Now)
  PROVE  BInv'
<1>1. DOMAIN redis' = Entries BY DEF BInv
<1>2. \A j \in Entries : EntryOK(redis'[j], Ttl[j], Base(j) + Ttl[j], Now) BY DEF BInv
<1> QED BY <1>1, <1>2, Moved

LEMMA StepAsk ==
  ASSUME BInv, NEW c \in BCalls, NEW k \in Entries, Ask(c, k) PROVE BInv'
<1> DEFINE b == IF k = "rows" THEN Showing("rows", k, {}, {}) ELSE [do |-> "entry", show |-> k]
<1>1. bcall' = [bcall EXCEPT ![c] = b] /\ Still /\ UNCHANGED <<mem, redis>>
  BY DEF Ask, Goto, Still, changes
<1>2. CASE k = "rows"
  <2> DEFINE r == [do |-> "rows", show |-> k, parts |-> {}, got |-> {}]
  <2>1. b = r BY <1>2 DEF Showing
  <2>2. r \in Readers /\ r.do = "rows" /\ r.show = "rows" /\ r.parts = {} /\ r.got = {}
    BY <1>2 DEF Readers, Fetching
  <2> HIDE DEF r
  <2>3. ReaderOK(r, Now) BY <2>2 DEF ReaderOK, HoldsYoung, For
  <2>4. CallOK(b, Now) BY <2>1, <2>3 DEF CallOK
  <2> HIDE DEF b
  <2> QED BY <1>1, <2>4, MovedNone
<1>3. CASE k # "rows"
  <2>1. b \in [do : {"entry"}, show : Entries \ {"rows"}] BY <1>3
  <2>2. CallOK(b, Now) BY <2>1 DEF CallOK
  <2> HIDE DEF b
  <2> QED BY <1>1, <2>2, MovedNone
<1> QED BY <1>2, <1>3

\* What a step shows is at most as old as what it shows may be.
ShownYoung ==
  shown' # NoEntry => shown'.kind \in Entries /\ Young(shown'.ver, Oldest(shown'.kind), Now)

LEMMA StepCacheGet ==
  ASSUME BInv, NEW c \in BCalls, CacheGet(c) PROVE BInv' /\ ShownYoung
<1> DEFINE k == bcall[c].show
<1>1. CallOK(bcall[c], Now) /\ NowOK(Now) /\ Now.fact = fact /\ Now.clock = clock
  BY DEF BInv, Now
<1>2. k \in Entries \ {"rows"} BY <1>1, WhatItIs DEF CacheGet
<1>3. UNCHANGED <<mem, redis>> BY DEF CacheGet
<1>4. CASE Fresh(redis[k])
  <2>1. shown' = [kind |-> k, ver |-> redis[k].ver] /\ bcall' = [bcall EXCEPT ![c] = Rest] /\ Still
    BY <1>4 DEF CacheGet, Goto, Still, changes
  <2>2. CallOK(Rest, Now) BY DEF CallOK
  <2>3. BInv' BY <1>3, <2>1, <2>2, MovedNone
  <2> DEFINE n == Base(k) + Ttl[k]
             e == redis[k]
  <2>4. EntryOK(e, Ttl[k], n, Now) BY <1>2 DEF BInv
  <2>5. e # NoEntry /\ Now.clock < e.till BY <1>1, <1>4 DEF Fresh
  <2>6. Ttl[k] \in Nat /\ n \in Nat \ {0} /\ Oldest(k) = n - 1
    <3>1. Ttl[k] \in Nat \ {0} /\ Base(k) \in Nat /\ Oldest(k) = Base(k) + (Ttl[k] - 1)
      BY <1>2, Ages
    <3> QED BY <3>1
  <2>7. shown'.ver = e.ver /\ shown'.kind = k BY <2>1
  <2> HIDE DEF n, e, k
  <2>8. Young(e.ver, n - 1, Now) BY <1>1, <2>4, <2>5, <2>6, Found
  <2>9. ShownYoung BY <1>2, <2>6, <2>7, <2>8 DEF ShownYoung
  <2> QED BY <2>3, <2>9
<1>5. CASE ~Fresh(redis[k])
  <2> DEFINE b == [do |-> "next", show |-> k, parts |-> PartsOf(k), got |-> {fact}]
  <2>1. shown' = NoEntry /\ bcall' = [bcall EXCEPT ![c] = b] /\ Still
    BY <1>5 DEF CacheGet, Goto, Showing, Silent, Still, changes
  <2>2. fact \in Nat /\ Young(fact, Held(k), Now) BY <1>1, <1>2, Ages, JustRead
  <2>3. b.do = "next" /\ b.show = k /\ b.parts = PartsOf(k) /\ b.got = {fact} OBVIOUS
  <2>4. b \in Readers BY <1>2, <2>2, PartsAreEntries DEF Readers
  <2> HIDE DEF b, k
  <2>5. HasLeast(b.got) BY <2>2, <2>3 DEF HasLeast
  <2>6. HoldsYoung(b, Now) BY <2>2, <2>3, <2>5 DEF HoldsYoung
  <2>7. ReaderOK(b, Now) BY <2>3, <2>4, <2>6 DEF ReaderOK, Fetching
  <2>8. CallOK(b, Now) BY <2>7 DEF CallOK
  <2>9. BInv' BY <1>3, <2>1, <2>8, MovedNone
  <2> QED BY <2>1, <2>9 DEF ShownYoung
<1> QED BY <1>4, <1>5

\* The least of the versions that a call holds.
LEMMA LeastIsHeld ==
  ASSUME NEW S, HasLeast(S) PROVE Least(S) \in S
BY DEF HasLeast, Least

LEMMA StepNextPart ==
  ASSUME BInv, NEW c \in BCalls, NextPart(c) PROVE BInv'
<1> DEFINE b == bcall[c]
<1>1. NowOK(Now) /\ CallOK(b, Now) BY DEF BInv
<1>2. ReaderOK(b, Now) /\ b.do = "next" BY <1>1, WhatItIs DEF NextPart
<1>3. UNCHANGED <<mem, redis>> BY DEF NextPart
<1>4. ASSUME NEW k \in b.parts, Goto(c, [b EXCEPT !.do = k, !.parts = @ \ {k}]) PROVE BInv'
  <2> DEFINE r == [b EXCEPT !.do = k, !.parts = @ \ {k}]
  <2>1. CallOK(r, Now) BY <1>2, Turned DEF ReaderOK
  <2>2. bcall' = [bcall EXCEPT ![c] = r] /\ Still BY <1>4 DEF Goto, Still, NextPart, changes
  <2> HIDE DEF r
  <2> QED BY <1>3, <2>1, <2>2, MovedNone
<1>5. ASSUME Goto(c, [do |-> "set", show |-> b.show, ver |-> Least(b.got)]) PROVE BInv'
  <2> DEFINE r == [do |-> "set", show |-> b.show, ver |-> Least(b.got)]
  <2>1. Least(b.got) \in b.got BY <1>2, LeastIsHeld DEF ReaderOK, HoldsYoung
  <2>2. Young(Least(b.got), Held(b.show), Now) BY <1>2, <2>1 DEF ReaderOK, HoldsYoung
  <2>3. Reading(b) BY <1>2, ReadersRead DEF ReaderOK
  <2>4. r \in [do : {"set"}, show : Entries, ver : Nat] BY <2>1, <2>3 DEF Reading
  <2>5. r.ver = Least(b.got) /\ r.show = b.show OBVIOUS
  <2>6. bcall' = [bcall EXCEPT ![c] = r] /\ Still BY <1>5 DEF Goto, Still, NextPart, changes
  <2> HIDE DEF r
  <2>7. SetterOK(r, Now) BY <2>2, <2>4, <2>5 DEF SetterOK
  <2>8. CallOK(r, Now) BY <2>7 DEF CallOK
  <2> QED BY <1>3, <2>6, <2>8, MovedNone
<1> QED BY <1>4, <1>5 DEF NextPart

\* An entry of redis that was made just now.
LEMMA NewEntry ==
  ASSUME NowOK(Now), NEW k \in Entries, NEW v, Young(v, Base(k), Now)
  PROVE  EntryOK([ver |-> v, till |-> Till(k)], Ttl[k], Base(k) + Ttl[k], Now)
<1>1. Now.clock + Ttl[k] = Till(k) BY DEF Now, Till
<1>2. Ttl[k] \in Nat /\ Base(k) \in Nat BY Ages
<1>3. EntryOK([ver |-> v, till |-> Now.clock + Ttl[k]], Ttl[k], Base(k) + Ttl[k], Now)
  BY <1>2, Stored
<1> QED BY <1>1, <1>3

LEMMA StepCacheSet ==
  ASSUME BInv, NEW c \in BCalls, CacheSet(c) PROVE BInv' /\ ShownYoung
<1> DEFINE k == bcall[c].show
           v == bcall[c].ver
<1>1. NowOK(Now) /\ CallOK(bcall[c], Now) BY DEF BInv
<1>2. SetterOK(bcall[c], Now) BY <1>1, WhatItIs DEF CacheSet
<1>3. k \in Entries /\ Young(v, Held(k), Now) BY <1>2 DEF SetterOK
<1>4. bcall' = [bcall EXCEPT ![c] = Rest] /\ Still /\ UNCHANGED mem
  BY DEF CacheSet, Goto, Still, changes
<1>5. CallOK(Rest, Now) BY DEF CallOK
<1>6. shown' = [kind |-> k, ver |-> v] BY DEF CacheSet
<1>7. /\ k = "rows" => UNCHANGED redis
      /\ k # "rows" => redis' = [redis EXCEPT ![k] = [ver |-> v, till |-> Till(k)]]
  BY DEF CacheSet
<1>8. shown'.kind = k /\ shown'.ver = v BY <1>6
<1> HIDE DEF k, v
<1>9. Held(k) \in Nat /\ Oldest(k) \in Nat /\ Held(k) <= Oldest(k) BY <1>3, Ages
<1>10. Young(v, Oldest(k), Now) BY <1>1, <1>3, <1>9, Younger
<1>11. ShownYoung BY <1>3, <1>8, <1>10 DEF ShownYoung
<1>12. CASE k = "rows" BY <1>4, <1>5, <1>7, <1>11, <1>12, MovedNone
<1>13. CASE k # "rows"
  <2> DEFINE e == [ver |-> v, till |-> Till(k)]
  <2>1. Held(k) = Base(k) BY <1>3, <1>13, Ages
  <2>2. EntryOK(e, Ttl[k], Base(k) + Ttl[k], Now) BY <1>1, <1>3, <2>1, NewEntry
  <2>3. redis' = [redis EXCEPT ![k] = e] BY <1>7, <1>13
  <2> HIDE DEF e
  <2>4. BInv' BY <1>3, <1>4, <1>5, <2>2, <2>3, MovedOne
  <2> QED BY <1>11, <2>4
<1> QED BY <1>12, <1>13

LEMMA StepBranchLeaderboardBase ==
  ASSUME BInv, NEW c \in BCalls, BranchLeaderboardBase(c) PROVE BInv'
<1> DEFINE b == bcall[c]
<1>1. NowOK(Now) /\ CallOK(b, Now) /\ Now.fact = fact /\ Now.clock = clock BY DEF BInv, Now
<1>2. ReaderOK(b, Now) /\ b.do = "ranks" BY <1>1, WhatItIs DEF BranchLeaderboardBase
<1>3. Reading(b) /\ HoldsYoung(b, Now) /\ "ranks" \in PartsOf(b.show) /\ b.show \in Entries
  BY <1>2, ReadersRead DEF ReaderOK, Reading
<1>4. UNCHANGED <<mem, redis>> BY DEF BranchLeaderboardBase
<1>5. Ttl["ranks"] \in Nat \ {0} /\ Base("ranks") = 0 /\ "ranks" \in Entries
  BY Ages, PartsAreEntries DEF Base
<1>6. CASE Fresh(redis["ranks"])
  <2> DEFINE e == redis["ranks"]
             r == Got(b, e.ver)
  <2>1. bcall' = [bcall EXCEPT ![c] = r] /\ Still
    BY <1>6 DEF BranchLeaderboardBase, Goto, Still, changes
  <2>2. EntryOK(e, Ttl["ranks"], Base("ranks") + Ttl["ranks"], Now) BY <1>5 DEF BInv
  <2>3. e # NoEntry /\ Now.clock < e.till BY <1>1, <1>6 DEF Fresh
  <2>4. Base("ranks") + Ttl["ranks"] = Ttl["ranks"] BY <1>5
  <2> HIDE DEF e
  <2>5. Young(e.ver, Ttl["ranks"] - 1, Now) BY <1>1, <1>5, <2>2, <2>3, <2>4, Found
  <2>6. Ttl["ranks"] - 1 \in Nat /\ Held(b.show) \in Nat /\ Ttl["ranks"] - 1 <= Held(b.show)
    BY <1>3, <1>5, Ages
  <2>7. Young(e.ver, Held(b.show), Now) BY <1>1, <2>5, <2>6, Younger
  <2>8. CallOK(r, Now) BY <1>1, <1>3, <2>7, GotMore
  <2> HIDE DEF r
  <2> QED BY <1>4, <2>1, <2>8, MovedNone
<1>7. CASE ~Fresh(redis["ranks"])
  <2> DEFINE r == [do |-> "ranked", show |-> b.show, parts |-> b.parts, got |-> b.got, ver |-> fact]
  <2>1. bcall' = [bcall EXCEPT ![c] = r] /\ Still
    BY <1>7 DEF BranchLeaderboardBase, Goto, Still, changes
  <2>2. fact \in Nat /\ Young(fact, 0, Now) BY <1>1, JustRead
  <2>3. r \in Rankers BY <1>3, <2>2 DEF Rankers, Reading
  <2>4. r.show = b.show /\ r.parts = b.parts /\ r.got = b.got /\ r.ver = fact OBVIOUS
  <2> HIDE DEF r
  <2>5. RankerOK(r, Now) BY <1>3, <2>2, <2>3, <2>4 DEF RankerOK, HoldsYoung
  <2>6. CallOK(r, Now) BY <2>5 DEF CallOK
  <2> QED BY <1>4, <2>1, <2>6, MovedNone
<1> QED BY <1>6, <1>7

LEMMA StepSetRanks ==
  ASSUME BInv, NEW c \in BCalls, SetRanks(c) PROVE BInv'
<1> DEFINE b == bcall[c]
           r == Got(b, b.ver)
           e == [ver |-> b.ver, till |-> Till("ranks")]
<1>1. NowOK(Now) /\ CallOK(b, Now) BY DEF BInv
<1>2. RankerOK(b, Now) BY <1>1, WhatItIs DEF SetRanks
<1>3. Reading(b) /\ HoldsYoung(b, Now) /\ b.show \in Entries /\ Young(b.ver, 0, Now)
  BY <1>2, ReadersRead DEF RankerOK, Reading
<1>4. UNCHANGED mem /\ bcall' = [bcall EXCEPT ![c] = r] /\ Still /\ redis' = [redis EXCEPT !["ranks"] = e]
  BY DEF SetRanks, Goto, Still, changes
<1>5. Base("ranks") = 0 /\ "ranks" \in Entries BY PartsAreEntries DEF Base
<1>6. EntryOK(e, Ttl["ranks"], Base("ranks") + Ttl["ranks"], Now)
  BY <1>1, <1>3, <1>5, NewEntry
<1>7. Held(b.show) \in Nat /\ 0 <= Held(b.show) BY <1>3, Ages
<1>8. Young(b.ver, Held(b.show), Now) BY <1>1, <1>3, <1>7, Younger
<1>9. CallOK(r, Now) BY <1>1, <1>3, <1>8, GotMore
<1> HIDE DEF r, e
<1> QED BY <1>4, <1>5, <1>6, <1>9, MovedOne

LEMMA StepRowsFromMemory ==
  ASSUME BInv, NEW c \in BCalls, RowsFromMemory(c) PROVE BInv'
<1> DEFINE b == bcall[c]
<1>1. NowOK(Now) /\ CallOK(b, Now) /\ Now.clock = clock BY DEF BInv, Now
<1>2. ReaderOK(b, Now) /\ b.do = "rows" BY <1>1, WhatItIs DEF RowsFromMemory, Fetching
<1>3. Reading(b) /\ HoldsYoung(b, Now) /\ For(b, "rows") /\ b.show \in Entries
  BY <1>2, ReadersRead DEF ReaderOK, Reading, Fetching
<1>4. UNCHANGED <<mem, redis>> BY DEF RowsFromMemory
<1>5. CASE Fresh(mem)
  <2> DEFINE r == Got(b, mem.ver)
             n == AgeFound + RowsMemTtl
  <2>1. bcall' = [bcall EXCEPT ![c] = r] /\ Still BY <1>5 DEF RowsFromMemory, Goto, Still, changes
  <2>2. EntryOK(mem, RowsMemTtl, n, Now) BY DEF BInv
  <2>3. mem # NoEntry /\ Now.clock < mem.till BY <1>1, <1>5 DEF Fresh
  <2>4. RowsMemTtl \in Nat /\ n \in Nat \ {0} /\ n - 1 = AgeOfRows /\ AgeOfRows \in Nat
    BY Ages
  <2> HIDE DEF n
  <2>5. Young(mem.ver, n - 1, Now) BY <1>1, <2>2, <2>3, <2>4, Found
  <2>6. Held(b.show) \in Nat /\ AgeOfRows <= Held(b.show) BY <1>3, Ages DEF For
  <2>7. Young(mem.ver, Held(b.show), Now) BY <1>1, <2>4, <2>5, <2>6, Younger
  <2>8. CallOK(r, Now) BY <1>1, <1>3, <2>7, GotMore
  <2> HIDE DEF r
  <2> QED BY <1>4, <2>1, <2>8, MovedNone
<1>6. CASE ~Fresh(mem)
  <2> DEFINE r == [b EXCEPT !.do = "askredis"]
  <2>1. bcall' = [bcall EXCEPT ![c] = r] /\ Still BY <1>6 DEF RowsFromMemory, Goto, Still, changes
  <2>2. CallOK(r, Now) BY <1>2, <1>3, AskingRedis DEF ReaderOK
  <2> HIDE DEF r
  <2> QED BY <1>4, <2>1, <2>2, MovedNone
<1> QED BY <1>5, <1>6

LEMMA StepRowsFromRedis ==
  ASSUME BInv, NEW c \in BCalls, RowsFromRedis(c) PROVE BInv'
<1> DEFINE b == bcall[c]
           v == IF Fresh(redis["rows"]) THEN redis["rows"].ver ELSE NoEntry
           r == [do |-> "redis", show |-> b.show, parts |-> b.parts, got |-> b.got, found |-> v]
<1>1. NowOK(Now) /\ CallOK(b, Now) /\ Now.clock = clock BY DEF BInv, Now
<1>2. ReaderOK(b, Now) /\ b.do = "askredis" BY <1>1, WhatItIs DEF RowsFromRedis, Fetching
<1>3. Reading(b) /\ HoldsYoung(b, Now) /\ For(b, "rows")
  BY <1>2, ReadersRead DEF ReaderOK, Fetching
<1>4. UNCHANGED <<mem, redis>> /\ bcall' = [bcall EXCEPT ![c] = r] /\ Still
  BY DEF RowsFromRedis, Goto, Still, changes
<1>5. v = NoEntry \/ (Young(v, AgeFound, Now) /\ v \in Nat)
  <2> SUFFICES ASSUME Fresh(redis["rows"])
               PROVE  Young(redis["rows"].ver, AgeFound, Now) /\ redis["rows"].ver \in Nat
    OBVIOUS
  <2> DEFINE e == redis["rows"]
  <2>1. PICK n \in Nat \ {0} : n = Base("rows") + Ttl["rows"] /\ n - 1 = AgeFound /\ Ttl["rows"] \in Nat
    <3>1. Ttl["rows"] \in Nat \ {0} /\ Base("rows") \in Nat /\ AgeFound = Base("rows") + Ttl["rows"] - 1
      BY Ages, PartsAreEntries
    <3> QED BY <3>1
  <2>2. EntryOK(e, Ttl["rows"], Base("rows") + Ttl["rows"], Now) BY PartsAreEntries DEF BInv
  <2>3. e # NoEntry /\ Now.clock < e.till BY <1>1 DEF Fresh
  <2> HIDE DEF e
  <2>4. Young(e.ver, AgeFound, Now) /\ e.ver \in Nat BY <1>1, <2>1, <2>2, <2>3, Found
  <2> QED BY <2>4 DEF e
<1> HIDE DEF v
<1>6. r \in Finders BY <1>3, <1>5 DEF Finders, Finding, Reading
<1>7. r.do = "redis" /\ r.show = b.show /\ r.parts = b.parts /\ r.got = b.got /\ r.found = v
  OBVIOUS
<1> HIDE DEF r
<1>8. FinderOK(r, Now) BY <1>3, <1>5, <1>6, <1>7 DEF FinderOK, HoldsYoung, For
<1>9. CallOK(r, Now) BY <1>8 DEF CallOK
<1> QED BY <1>4, <1>9, MovedNone

\* An entry of the memory.
LEMMA NewMemEntry ==
  ASSUME NowOK(Now), NEW v, Young(v, AgeFound, Now)
  PROVE  EntryOK(MemEntry(v), RowsMemTtl, AgeFound + RowsMemTtl, Now)
<1>1. MemEntry(v) = [ver |-> v, till |-> Now.clock + RowsMemTtl] BY DEF Now, MemEntry
<1>2. RowsMemTtl \in Nat /\ AgeFound \in Nat BY Ages
<1>3. EntryOK([ver |-> v, till |-> Now.clock + RowsMemTtl], RowsMemTtl,
              AgeFound + RowsMemTtl, Now)
  BY <1>2, Stored
<1> QED BY <1>1, <1>3

LEMMA StepRowsOrLoad ==
  ASSUME BInv, NEW c \in BCalls, RowsOrLoad(c) PROVE BInv'
<1> DEFINE b == bcall[c]
<1>1. NowOK(Now) /\ CallOK(b, Now) BY DEF BInv
<1>2. FinderOK(b, Now) /\ b.do = "redis" BY <1>1, WhatItIs DEF RowsOrLoad, Finding
<1>3. Reading(b) /\ HoldsYoung(b, Now) /\ For(b, "rows") /\ b.show \in Entries /\ b \in Finders
  BY <1>2, ReadersRead DEF FinderOK, Reading
<1>4. UNCHANGED redis BY DEF RowsOrLoad
<1>5. ASSUME b.found # NoEntry, mem' = MemEntry(b.found), Goto(c, Got(b, b.found)) PROVE BInv'
  <2> DEFINE v == b.found
             r == Got(b, v)
  <2>1. Young(v, AgeFound, Now) BY <1>2, <1>5 DEF FinderOK
  <2>2. bcall' = [bcall EXCEPT ![c] = r] /\ Still BY <1>5 DEF RowsOrLoad, Goto, Still, changes
  <2>3. EntryOK(mem', RowsMemTtl, AgeFound + RowsMemTtl, Now)
    BY <1>1, <1>5, <2>1, NewMemEntry
  <2>4. AgeFound \in Nat /\ Held(b.show) \in Nat /\ AgeFound <= Held(b.show)
    <3>1. AgeOfRows <= Held(b.show) /\ Held(b.show) \in Nat BY <1>3, Ages DEF For
    <3>2. AgeFound \in Nat /\ AgeOfRows \in Nat /\ AgeFound <= AgeOfRows BY Ages
    <3> QED BY <3>1, <3>2
  <2> HIDE DEF v
  <2>5. Young(v, Held(b.show), Now) BY <1>1, <2>1, <2>4, Younger
  <2>6. CallOK(r, Now) BY <1>1, <1>3, <2>5, GotMore
  <2> HIDE DEF r
  <2> QED BY <1>4, <2>2, <2>3, <2>6, MovedMem
<1>6. ASSUME NEW step \in {"wait", "load"}, b.found = NoEntry, UNCHANGED mem,
             Goto(c, [b EXCEPT !.do = step])
      PROVE  BInv'
  <2> DEFINE r == [b EXCEPT !.do = step, !.found = NoEntry]
  <2>1. r = [b EXCEPT !.do = step] BY <1>3, <1>6 DEF Finders
  <2>2. bcall' = [bcall EXCEPT ![c] = r] /\ Still BY <1>6, <2>1 DEF RowsOrLoad, Goto, Still, changes
  <2>3. CallOK(r, Now) BY <1>3, <1>6, Finds DEF Finding
  <2> HIDE DEF r
  <2> QED BY <1>4, <1>6, <2>2, <2>3, MovedNone
<1> QED BY <1>5, <1>6 DEF RowsOrLoad

\* The rows are as old as the shifts that the memory has.
LEMMA StepReadRows ==
  ASSUME BInv, NEW c \in BCalls, ReadRows(c) PROVE BInv'
<1>1. NowOK(Now) /\ CallOK(bcall[c], Now) /\ Now.fact = fact /\ Now.clock = clock BY DEF BInv, Now
<1>2. FinderOK(bcall[c], Now) BY <1>1, WhatItIs DEF ReadRows, Finding
<1>3. ShiftsTtl \in Nat \ {0} /\ AgeLoaded \in Nat /\ AgeLoaded = ShiftsTtl - 1 BY Ages DEF AgeLoaded
<1>4. EntryOK(codes', ShiftsTtl, ShiftsTtl, Now) /\ Young(codes'.ver, AgeLoaded, Now)
  <2>1. CASE Fresh(codes)
    <3>1. codes' = codes /\ codes # NoEntry /\ Now.clock < codes.till
      BY <1>1, <2>1 DEF ReadRows, Fresh
    <3>2. EntryOK(codes, ShiftsTtl, ShiftsTtl, Now) BY DEF BInv
    <3>3. Young(codes.ver, ShiftsTtl - 1, Now) BY <1>1, <1>3, <3>1, <3>2, Found
    <3> QED BY <1>3, <3>1, <3>2, <3>3
  <2>2. CASE ~Fresh(codes)
    <3>1. codes' = [ver |-> fact, till |-> Now.clock + ShiftsTtl]
      BY <1>1, <2>2 DEF ReadRows
    <3>2. Young(fact, 0, Now) /\ Young(fact, AgeLoaded, Now) BY <1>1, <1>3, JustRead
    <3>3. EntryOK(codes', ShiftsTtl, 0 + ShiftsTtl, Now) BY <1>1, <1>3, <3>1, <3>2, Stored
    <3>4. 0 + ShiftsTtl = ShiftsTtl BY <1>3
    <3>5. codes'.ver = fact BY <3>1
    <3> QED BY <3>2, <3>3, <3>4, <3>5
  <2> QED BY <2>1, <2>2
<1>5. PICK v : v = codes'.ver OBVIOUS
<1>6. v \in Nat BY <1>1, <1>4, <1>5 DEF Young, NowOK
<1> DEFINE r == [bcall[c] EXCEPT !.do = "loaded", !.found = v]
<1>7. /\ UNCHANGED <<boverlap, fact, ended, clock, mem, redis>>
      /\ bcall' = [bcall EXCEPT ![c] = r]
  BY <1>5 DEF ReadRows, Goto, changes
<1>8. CallOK(r, Now) BY <1>2, <1>4, <1>5, <1>6, Finds DEF FinderOK, Finding
<1> HIDE DEF r
<1>9. DOMAIN bcall' = BCalls /\ \A d \in BCalls : CallOK(bcall'[d], Now)
  BY <1>7, <1>8 DEF BInv
<1>10. Now' = Now BY <1>7 DEF Now
<1> QED BY <1>4, <1>7, <1>9, <1>10 DEF BInv

LEMMA StepRowsToMemory ==
  ASSUME BInv, NEW c \in BCalls, RowsToMemory(c) PROVE BInv'
<1> DEFINE b == bcall[c]
           r == [b EXCEPT !.do = "store", !.found = b.found]
<1>1. NowOK(Now) /\ CallOK(b, Now) BY DEF BInv
<1>2. FinderOK(b, Now) /\ b.do = "loaded" BY <1>1, WhatItIs DEF RowsToMemory, Finding
<1>3. Young(b.found, AgeLoaded, Now) /\ b.found \in Nat \cup {NoEntry} /\ b \in Finders
  BY <1>2 DEF FinderOK, Finders
<1>4. r = [b EXCEPT !.do = "store"] BY <1>3 DEF Finders
<1>5. UNCHANGED redis /\ bcall' = [bcall EXCEPT ![c] = r] /\ Still /\ mem' = MemEntry(b.found)
  BY <1>4 DEF RowsToMemory, Goto, Still, changes
<1>6. CallOK(r, Now) BY <1>2, <1>3, Finds DEF FinderOK, Finding
<1>7. AgeLoaded \in Nat /\ AgeFound \in Nat /\ AgeLoaded <= AgeFound BY Ages
<1>8. Young(b.found, AgeFound, Now) BY <1>1, <1>3, <1>7, Younger
<1>9. EntryOK(mem', RowsMemTtl, AgeFound + RowsMemTtl, Now)
  BY <1>1, <1>5, <1>8, NewMemEntry
<1> HIDE DEF r
<1> QED BY <1>5, <1>6, <1>9, MovedMem

LEMMA StepRowsToRedis ==
  ASSUME BInv, NEW c \in BCalls, RowsToRedis(c) PROVE BInv'
<1> DEFINE v == bcall[c].found
           e == [ver |-> v, till |-> Till("rows")]
<1>1. NowOK(Now) /\ CallOK(bcall[c], Now) BY DEF BInv
<1>2. FinderOK(bcall[c], Now) /\ For(bcall[c], "rows") /\ Young(v, AgeLoaded, Now)
  BY <1>1, WhatItIs DEF RowsToRedis, Finding, FinderOK
<1>3. ASSUME NEW d \in BCalls, d = c \/ bcall[d].do = "wait"
      PROVE  CallOK(Got(bcall[d], v), Now)
  <2>1. CallOK(bcall[d], Now) BY DEF BInv
  <2>2. FinderOK(bcall[d], Now) BY <1>2, <1>3, <2>1, WhatItIs DEF Finding
  <2>3. /\ Reading(bcall[d]) /\ HoldsYoung(bcall[d], Now) /\ bcall[d].show \in Entries
        /\ For(bcall[d], "rows")
    BY <2>2, ReadersRead DEF FinderOK, Reading
  <2>4. AgeLoaded \in Nat /\ Held(bcall[d].show) \in Nat /\ AgeLoaded <= Held(bcall[d].show)
    <3>1. AgeOfRows <= Held(bcall[d].show) /\ Held(bcall[d].show) \in Nat BY <2>3, Ages DEF For
    <3>2. /\ AgeLoaded \in Nat /\ AgeFound \in Nat /\ AgeOfRows \in Nat
          /\ AgeLoaded <= AgeFound /\ AgeFound <= AgeOfRows
      BY Ages
    <3> QED BY <3>1, <3>2
  <2>5. Young(v, Held(bcall[d].show), Now) BY <1>1, <1>2, <2>4, Younger
  <2> QED BY <1>1, <2>3, <2>5, GotMore
<1>4. bcall' = [d \in BCalls |-> IF d = c \/ bcall[d].do = "wait" THEN Got(bcall[d], v) ELSE bcall[d]]
  BY DEF RowsToRedis
<1>5. Still /\ UNCHANGED mem /\ redis' = [redis EXCEPT !["rows"] = e] BY DEF RowsToRedis, Still, changes
<1>6. Base("rows") = AgeLoaded /\ "rows" \in Entries BY Ages, PartsAreEntries
<1>7. EntryOK(e, Ttl["rows"], Base("rows") + Ttl["rows"], Now) BY <1>1, <1>2, <1>6, NewEntry
<1> HIDE DEF v, e
<1>8. \A d \in BCalls : CallOK(bcall'[d], Now)
  <2> TAKE d \in BCalls
  <2>1. CASE d = c \/ bcall[d].do = "wait" BY <1>3, <1>4, <2>1
  <2>2. CASE ~(d = c \/ bcall[d].do = "wait")
    <3>1. bcall'[d] = bcall[d] BY <1>4, <2>2
    <3> QED BY <3>1 DEF BInv
  <2> QED BY <2>1, <2>2
<1>9. DOMAIN bcall' = BCalls BY <1>4
<1>10. DOMAIN redis' = Entries /\ \A k \in Entries : EntryOK(redis'[k], Ttl[k], Base(k) + Ttl[k], Now)
  BY <1>5, <1>7 DEF BInv
<1>11. Now' = Now BY <1>5 DEF Now, Still
<1> QED BY <1>5, <1>8, <1>9, <1>10, <1>11 DEF BInv, Still

LEMMA StepEdit ==
  ASSUME BInv, NEW c \in BCalls, NEW worker \in BOOLEAN, NEW kind \in EditKinds,
         Edit(c, worker, kind) PROVE BInv'
<1> DEFINE w == Now
           w2 == [fact |-> fact', ended |-> ended', clock |-> clock']
<1>1. Now' = w2 /\ NowOK(w) /\ MaxEdits[boverlap] \in Nat /\ fact \in Nat /\ clock \in Nat
  BY BoardsAssumption DEF Now, BInv, NowOK
<1>2. /\ fact < MaxEdits[boverlap] /\ fact' = fact + 1 /\ ended' = [ended EXCEPT ![fact] = clock]
      /\ UNCHANGED <<boverlap, mem, redis, clock>>
  BY DEF Edit
<1>3. w2.fact = w.fact + 1 /\ w2.clock = w.clock BY <1>2 DEF Now
<1>4. DOMAIN ended = 0 .. MaxEdits[boverlap] BY DEF BInv
<1>5. \A v \in 0 .. w.fact : w2.ended[v] = IF v = w.fact THEN w.clock ELSE w.ended[v]
  BY <1>1, <1>2, <1>4 DEF Now
<1>6. PICK b : b = [do |-> "edited", worker |-> worker] OBVIOUS
<1>7. bcall' = [bcall EXCEPT ![c] = b] \/ bcall' = bcall BY <1>6 DEF Edit
<1>8. b \in [do : {"edited"}, worker : BOOLEAN] BY <1>6
<1>9. w2.ended[w2.fact] \in Nat
  <2>1. w2.fact \in 0 .. MaxEdits[boverlap] BY <1>1, <1>2, <1>3 DEF Now
  <2>2. ended' \in [0 .. MaxEdits[boverlap] -> Nat] BY <1>1, <1>2 DEF BInv
  <2> QED BY <2>1, <2>2
<1>10. /\ NowOK(w2)
       /\ \A v, n : n \in Nat /\ Young(v, n, w) => Young(v, n, w2)
       /\ \A e, ttl, n : ttl \in Nat /\ n \in Nat /\ ttl <= n /\ EntryOK(e, ttl, n, w)
            => EntryOK(e, ttl, n, w2)
  <2> HIDE DEF w, w2
  <2> QED BY <1>1, <1>3, <1>5, <1>9, Changed
<1>11. /\ RowsMemTtl \in Nat /\ AgeFound + RowsMemTtl \in Nat
       /\ RowsMemTtl <= AgeFound + RowsMemTtl /\ ShiftsTtl \in Nat
  <2>1. RowsMemTtl \in Nat \ {0} /\ AgeFound \in Nat /\ ShiftsTtl \in Nat \ {0} BY Ages
  <2> QED BY <2>1
<1>12. \A k \in Entries :
         Ttl[k] \in Nat /\ Base(k) + Ttl[k] \in Nat /\ Ttl[k] <= Base(k) + Ttl[k]
  <2> TAKE k \in Entries
  <2>1. Ttl[k] \in Nat \ {0} /\ Base(k) \in Nat BY Ages
  <2> QED BY <2>1
<1>13. \A d \in BCalls : CallOK(bcall[d], w) BY DEF BInv
<1>14. EntryOK(mem, RowsMemTtl, AgeFound + RowsMemTtl, w) BY DEF BInv
<1>15. \A k \in Entries : EntryOK(redis[k], Ttl[k], Base(k) + Ttl[k], w) BY DEF BInv
<1>a. EntryOK(codes, ShiftsTtl, ShiftsTtl, w) BY DEF BInv
<1>b. codes' = codes \/ (codes # NoEntry /\ codes' = [ver |-> w2.fact, till |-> codes.till] /\ codes.ver = fact)
  BY <1>2 DEF Edit
<1>16. ended' \in [0 .. MaxEdits[boverlap] -> Nat] /\ fact' <= MaxEdits[boverlap]
  BY <1>1, <1>2 DEF BInv
<1> HIDE DEF w, w2
<1>17. EntryOK(mem, RowsMemTtl, AgeFound + RowsMemTtl, w2) BY <1>10, <1>11, <1>14
<1>18. \A k \in Entries : EntryOK(redis[k], Ttl[k], Base(k) + Ttl[k], w2)
  BY <1>10, <1>12, <1>15
<1>c. EntryOK(codes', ShiftsTtl, ShiftsTtl, w2)
  <2>1. EntryOK(codes, ShiftsTtl, ShiftsTtl, w2) BY <1>10, <1>11, <1>a
  <2>2. CASE codes' = codes BY <2>1, <2>2
  <2>3. CASE codes # NoEntry /\ codes' = [ver |-> w2.fact, till |-> codes.till]
    <3>1. codes.till \in Nat /\ codes.till <= w2.clock + ShiftsTtl BY <2>1, <2>3 DEF EntryOK
    <3>2. codes'.till = codes.till BY <2>3
    <3>3. codes'.ver = w2.fact \/ codes'.ver = codes.ver BY <2>3
    <3> QED BY <1>10, <2>1, <2>3, <3>1, <3>2, <3>3 DEF EntryOK, NowOK
  <2> QED BY <1>b, <2>2, <2>3
<1>19. CallOK(b, w2) BY <1>8 DEF CallOK
<1>20. DOMAIN bcall' = BCalls /\ \A d \in BCalls : CallOK(bcall'[d], w2)
  <2>1. \A d \in BCalls : CallOK(bcall[d], w2) BY <1>10, <1>13, CallChanged
  <2> QED BY <1>7, <1>19, <2>1 DEF BInv
<1> QED BY <1>1, <1>2, <1>10, <1>16, <1>17, <1>18, <1>20, <1>c DEF BInv

LEMMA StepInvalidatePapanCaches ==
  ASSUME BInv, NEW c \in BCalls, InvalidatePapanCaches(c) PROVE BInv'
<1> DEFINE b == [do |-> "delete", keys |-> Stale]
<1>1. bcall' = [bcall EXCEPT ![c] = b] /\ Still /\ UNCHANGED redis
  BY DEF InvalidatePapanCaches, Goto, Still, changes
<1>2. b \in [do : {"delete"}, keys : SUBSET Stale] OBVIOUS
<1>3. EntryOK(mem', RowsMemTtl, AgeFound + RowsMemTtl, Now)
  <2>1. mem' = mem \/ mem' = NoEntry BY DEF InvalidatePapanCaches
  <2>2. CASE mem' = mem BY <2>2 DEF BInv
  <2>3. CASE mem' = NoEntry BY <2>3 DEF EntryOK
  <2> QED BY <2>1, <2>2, <2>3
<1>4. CallOK(b, Now) BY <1>2 DEF CallOK
<1> HIDE DEF b
<1> QED BY <1>1, <1>3, <1>4, MovedMem

LEMMA StepCacheDelete ==
  ASSUME BInv, NEW c \in BCalls, CacheDelete(c) PROVE BInv'
<1>1. CallOK(bcall[c], Now) BY DEF BInv
<1>2. bcall[c] \in [do : {"delete"}, keys : SUBSET Stale] BY <1>1, WhatItIs DEF CacheDelete
<1>3. PICK k \in bcall[c].keys :
        /\ redis' = [redis EXCEPT ![k] = NoEntry] \/ UNCHANGED redis
        /\ Goto(c, IF bcall[c].keys = {k} THEN Rest ELSE [bcall[c] EXCEPT !.keys = @ \ {k}])
  BY DEF CacheDelete
<1> DEFINE b == IF bcall[c].keys = {k} THEN Rest ELSE [bcall[c] EXCEPT !.keys = @ \ {k}]
<1>4. bcall' = [bcall EXCEPT ![c] = b] /\ Still /\ UNCHANGED mem
  BY <1>3 DEF CacheDelete, Goto, Still, changes
<1>5. b = Rest \/ b \in [do : {"delete"}, keys : SUBSET Stale] BY <1>2
<1>6. k \in Entries BY <1>2 DEF Stale, Entries
<1>7. EntryOK(NoEntry, Ttl[k], Base(k) + Ttl[k], Now) BY DEF EntryOK
<1>8. CallOK(b, Now) BY <1>5 DEF CallOK
<1> HIDE DEF b
<1>9. CASE redis' = [redis EXCEPT ![k] = NoEntry] BY <1>4, <1>6, <1>7, <1>8, <1>9, MovedOne
<1>10. CASE UNCHANGED redis BY <1>4, <1>8, <1>10, MovedNone
<1> QED BY <1>3, <1>9, <1>10

LEMMA StepTick ==
  ASSUME BInv, Tick PROVE BInv'
<1> DEFINE w == Now
           w2 == [fact |-> fact', ended |-> ended', clock |-> clock']
<1>1. Now' = w2 /\ NowOK(w) /\ w2.fact = w.fact /\ w2.ended = w.ended /\ w2.clock = w.clock + 1
  BY DEF Now, BInv, Tick, changes
<1>2. UNCHANGED <<boverlap, fact, ended, codes, mem, redis, bcall>> /\ \A c \in BCalls : bcall[c] = Rest
  BY DEF Tick, changes
<1>3. ShiftsTtl \in Nat /\ RowsMemTtl \in Nat /\ \A k \in Entries : Ttl[k] \in Nat BY Ages
<1>4. EntryOK(mem, RowsMemTtl, AgeFound + RowsMemTtl, w) /\ EntryOK(codes, ShiftsTtl, ShiftsTtl, w)
  BY DEF BInv
<1>5. \A k \in Entries : EntryOK(redis[k], Ttl[k], Base(k) + Ttl[k], w) BY DEF BInv
<1> HIDE DEF w, w2
<1>6. /\ EntryOK(mem, RowsMemTtl, AgeFound + RowsMemTtl, w2) /\ NowOK(w2)
      /\ EntryOK(codes, ShiftsTtl, ShiftsTtl, w2)
  BY <1>1, <1>3, <1>4, Ticked
<1>7. \A k \in Entries : EntryOK(redis[k], Ttl[k], Base(k) + Ttl[k], w2)
  BY <1>1, <1>3, <1>5, Ticked
<1>8. \A c \in BCalls : CallOK(bcall[c], w2) BY <1>2 DEF CallOK
<1> QED BY <1>1, <1>2, <1>6, <1>7, <1>8 DEF BInv

\* Most steps show nothing.
LEMMA NextBInv ==
  ASSUME BInv, [BoardsNext]_bvars
  PROVE  BInv' /\ (ShownYoung \/ UNCHANGED bvars)
<1>1. ASSUME NEW c \in BCalls, CacheGet(c) \/ CacheSet(c) PROVE BInv' /\ ShownYoung
  BY <1>1, StepCacheGet, StepCacheSet
<1>2. ASSUME NEW c \in BCalls,
             \/ \E k \in Entries : Ask(c, k)
             \/ NextPart(c) \/ BranchLeaderboardBase(c) \/ SetRanks(c)
             \/ RowsFromMemory(c) \/ RowsFromRedis(c) \/ RowsOrLoad(c) \/ ReadRows(c)
             \/ RowsToMemory(c) \/ RowsToRedis(c)
             \/ \E worker \in BOOLEAN, kind \in EditKinds : Edit(c, worker, kind)
             \/ InvalidatePapanCaches(c) \/ CacheDelete(c)
      PROVE  BInv' /\ ShownYoung
  <2>1. BInv'
    BY <1>2, StepAsk, StepNextPart, StepBranchLeaderboardBase, StepSetRanks,
       StepRowsFromMemory, StepRowsFromRedis, StepRowsOrLoad, StepReadRows, StepRowsToMemory,
       StepRowsToRedis, StepEdit, StepInvalidatePapanCaches, StepCacheDelete
  <2>2. Silent
    BY <1>2 DEF Ask, NextPart, BranchLeaderboardBase, SetRanks, RowsFromMemory, RowsFromRedis,
      RowsOrLoad, ReadRows, RowsToMemory, RowsToRedis, Edit, InvalidatePapanCaches, CacheDelete
  <2> QED BY <2>1, <2>2 DEF Silent, ShownYoung
<1>3. ASSUME Tick PROVE BInv' /\ ShownYoung
  <2>1. Silent BY <1>3 DEF Tick
  <2> QED BY <1>3, <2>1, StepTick DEF Silent, ShownYoung
<1>4. ASSUME UNCHANGED bvars PROVE BInv'
  <2>1. Now' = Now BY <1>4 DEF bvars, changes, Now
  <2> QED BY <1>4, <2>1 DEF bvars, changes, BInv
<1> QED BY <1>1, <1>2, <1>3, <1>4 DEF BoardsNext

(* However reads and changes overlap, in whichever process, and whatever   *)
(* deletion is lost or never made, nothing is shown that was no longer     *)
(* true longer ago than its caches live one after the other, that of the   *)
(* shifts among them: for every number of calls and changes, and every     *)
(* life of the entries.                                                    *)
THEOREM NothingTooOld == BoardsSpec => StaleBound
<1>1. BInv /\ [BoardsNext]_bvars => BInv' BY NextBInv
<1>2. ASSUME BInv, ShownYoung, shown' # NoEntry, shown'.ver < fact
      PROVE  clock - ended[shown'.ver] <= Oldest(shown'.kind)
  <2> DEFINE v == shown'.ver
             k == shown'.kind
  <2>1. k \in Entries /\ Young(v, Oldest(k), Now) BY <1>2 DEF ShownYoung
  <2>2. NowOK(Now) /\ Now.fact = fact /\ Now.ended = ended /\ Now.clock = clock
    BY <1>2 DEF BInv, Now
  <2>3. v < fact BY <1>2
  <2> HIDE DEF v, k
  <2>4. v \in 0 .. fact /\ clock <= ended[v] + Oldest(k) BY <2>1, <2>2, <2>3 DEF Young
  <2>5. ended[v] \in Nat /\ clock \in Nat /\ Oldest(k) \in Nat BY <2>1, <2>2, <2>4, Ages DEF NowOK
  <2>6. clock - ended[v] <= Oldest(k) BY <2>4, <2>5
  <2> QED BY <2>6 DEF v, k
<1>3. BInv /\ [BoardsNext]_bvars =>
        [shown' # NoEntry /\ shown'.ver < fact =>
           clock - ended[shown'.ver] <= Oldest(shown'.kind)]_bvars
  BY <1>2, NextBInv
<1> QED BY <1>1, <1>3, InitBInv, PTL DEF BoardsSpec, StaleBound
------------------------------------------------------------------------------
(* One call at a time.                                                      *)

LEMMA OnlyRest == ASSUME NEW S PROVE HoldsOnly(Rest, S) /\ Rest.do = "rest"
<1>1. DOMAIN Rest = {"do"} /\ Rest.do = "rest" BY DEF Rest
<1> QED BY <1>1 DEF HoldsOnly

\* What it means for each kind of call.
LEMMA HeldOnly ==
  ASSUME NEW b, NEW S
  PROVE  /\ b \in Readers => (HoldsOnly(b, S) <=> b.got \subseteq S)
         /\ b \in Finders => (HoldsOnly(b, S) <=> b.got \subseteq S /\ b.found \in S \cup {NoEntry})
         /\ b \in Rankers => (HoldsOnly(b, S) <=> b.got \subseteq S /\ b.ver \in S)
         /\ b \in [do : {"set"}, show : Entries, ver : Nat] => (HoldsOnly(b, S) <=> b.ver \in S)
         /\ b \in [do : {"entry"}, show : Entries \ {"rows"}] => HoldsOnly(b, S)
         /\ b \in [do : {"edited"}, worker : BOOLEAN] => HoldsOnly(b, S)
         /\ b \in [do : {"delete"}, keys : SUBSET Stale] => HoldsOnly(b, S)
<1>1. ASSUME b \in Readers PROVE DOMAIN b = {"do", "show", "parts", "got"}
  BY <1>1 DEF Readers
<1>2. ASSUME b \in Finders PROVE DOMAIN b = {"do", "show", "parts", "got", "found"}
  BY <1>2 DEF Finders
<1>3. ASSUME b \in Rankers PROVE DOMAIN b = {"do", "show", "parts", "got", "ver"}
  BY <1>3 DEF Rankers
<1>4. ASSUME b \in [do : {"set"}, show : Entries, ver : Nat] PROVE DOMAIN b = {"do", "show", "ver"}
  BY <1>4
<1>5. ASSUME b \in [do : {"entry"}, show : Entries \ {"rows"}] PROVE DOMAIN b = {"do", "show"}
  BY <1>5
<1>6. ASSUME b \in [do : {"edited"}, worker : BOOLEAN] PROVE DOMAIN b = {"do", "worker"}
  BY <1>6
<1>7. ASSUME b \in [do : {"delete"}, keys : SUBSET Stale] PROVE DOMAIN b = {"do", "keys"}
  BY <1>7
<1> QED BY <1>1, <1>2, <1>3, <1>4, <1>5, <1>6, <1>7 DEF HoldsOnly

LEMMA InitLInv == BoardsInit => LInv
<1> SUFFICES ASSUME BoardsInit PROVE LInv OBVIOUS
<1> USE DEF BoardsInit
<1>1. ASSUME NEW c \in BCalls PROVE LastFor(c)
  <2>1. bcall[c] = Rest OBVIOUS
  <2> QED BY <2>1, OnlyRest DEF LastFor
<1> QED BY <1>1 DEF LInv

LEMMA FactSince == ASSUME BInv, LInv PROVE fact \in Since /\ Since \subseteq Nat
<1>1. fact \in Nat BY DEF BInv, NowOK, Now
<1> QED BY <1>1 DEF LInv, Since

\* A step of c that leaves it with the last version leaves all so.
LEMMA Leads ==
  ASSUME BInv, LInv, NEW c \in BCalls,
         boverlap' = boverlap, misses' \in Nat, announced' \in 0 .. fact',
         ~renamed' /\ codes' # NoEntry => codes'.ver = fact',
         ~boverlap => AloneIs(c)',
         Plain' => LastFor(c)'
  PROVE  LInv'
<1>1. ASSUME ~boverlap', NEW d \in BCalls, bcall'[d] # Rest PROVE AloneIs(d)'
  BY <1>1 DEF AloneIs
<1>2. ASSUME Plain', NEW d \in BCalls, AloneIs(d)' PROVE LastFor(d)'
  <2>1. CASE d = c BY <1>2, <2>1
  <2>2. CASE d # c
    <3>1. bcall'[d] = Rest /\ bcall'[c] = Rest BY <1>2, <2>2 DEF AloneIs, Plain
    <3>2. Rest.do = "rest" /\ HoldsOnly(Rest, Since') BY OnlyRest
    <3> QED BY <1>2, <3>1, <3>2 DEF LastFor
  <2> QED BY <2>1, <2>2
<1> QED BY <1>1, <1>2 DEF LInv

\* A step of c that neither changes the branch nor deletes anything.
LEMMA LeadsReading ==
  ASSUME BInv, LInv, NEW c \in BCalls, NEW b, bcall' = [bcall EXCEPT ![c] = b],
         UNCHANGED <<boverlap, misses, changes>>, codes' = codes \/ codes'.ver = fact,
         ~boverlap => AloneIs(c),
         Plain => /\ HoldsOnly(b, Since) /\ b.do \notin {"edited", "delete"}
                  /\ mem' # NoEntry => mem'.ver \in Since
                  /\ \A k \in Entries \ {"global"} : redis'[k] # NoEntry => redis'[k].ver \in Since
  PROVE  LInv'
<1>a. Since' = Since /\ (Plain' <=> Plain) BY DEF changes, Since, Plain
<1>b. announced' \in 0 .. fact' /\ (~renamed' /\ codes' # NoEntry => codes'.ver = fact')
  BY DEF LInv, changes
<1>1. ASSUME ~boverlap PROVE AloneIs(c)' BY <1>1 DEF AloneIs, BInv
<1>2. ASSUME Plain' PROVE LastFor(c)'
  <2>1. Plain BY <1>2, <1>a
  <2>2. bcall'[c] = b BY DEF BInv
  <2> QED BY <1>a, <2>1, <2>2 DEF LastFor
<1>3. misses' \in Nat BY DEF LInv
<1> QED BY <1>1, <1>2, <1>3, <1>b, Leads

\* What a call that does neither relies on.
LEMMA Relied ==
  ASSUME LInv, NEW c \in BCalls, bcall[c] # Rest \/ \A d \in BCalls : bcall[d] = Rest, ~boverlap
  PROVE  /\ AloneIs(c)
         /\ Plain /\ bcall[c].do \notin {"edited", "delete"} =>
              /\ HoldsOnly(bcall[c], Since)
              /\ mem # NoEntry => mem.ver \in Since
              /\ \A k \in Entries \ {"global"} : redis[k] # NoEntry => redis[k].ver \in Since
BY DEF LInv, LastFor, AloneIs

LEMMA NotResting == ASSUME NEW b, b.do # "rest" PROVE b # Rest
BY OnlyRest

ShownLast == shown' # NoEntry /\ Plain /\ shown'.kind # "global" => shown'.ver \in Since

LEMMA LastAsk ==
  ASSUME BInv, LInv, NEW c \in BCalls, NEW k \in Entries, Ask(c, k) PROVE LInv'
<1>1. PICK b : b = IF k = "rows" THEN Showing("rows", k, {}, {}) ELSE [do |-> "entry", show |-> k]
  OBVIOUS
<1>2. /\ bcall' = [bcall EXCEPT ![c] = b]
      /\ UNCHANGED <<boverlap, misses, changes, codes, mem, redis>>
      /\ bcall[c] = Rest /\ (~boverlap => \A d \in BCalls : bcall[d] = Rest)
  BY <1>1 DEF Ask, Goto, MayBegin
<1>3. HoldsOnly(b, Since) /\ b.do \notin {"edited", "delete"}
  <2>1. CASE k = "rows"
    <3>1. /\ b = [do |-> "rows", show |-> k, parts |-> {}, got |-> {}]
      BY <1>1, <2>1 DEF Showing
    <3>2. b.do = "rows" /\ b.got = {} /\ b \in Readers BY <3>1 DEF Readers, Fetching
    <3> QED BY <3>2, HeldOnly
  <2>2. CASE k # "rows"
    <3>1. b \in [do : {"entry"}, show : Entries \ {"rows"}] BY <1>1, <2>2
    <3>2. b.do = "entry" BY <3>1
    <3> QED BY <3>1, <3>2, HeldOnly
  <2> QED BY <2>1, <2>2
<1>4. Rest.do \notin {"edited", "delete"} BY OnlyRest
<1>5. ~boverlap => AloneIs(c) BY <1>2, Relied
<1>6. Plain => /\ mem' # NoEntry => mem'.ver \in Since
               /\ \A j \in Entries \ {"global"} : redis'[j] # NoEntry => redis'[j].ver \in Since
  BY <1>2, <1>4, Relied DEF Plain
<1> QED BY <1>2, <1>3, <1>5, <1>6, LeadsReading

LEMMA LastCacheGet ==
  ASSUME BInv, LInv, NEW c \in BCalls, CacheGet(c) PROVE LInv' /\ ShownLast
<1> DEFINE k == bcall[c].show
<1>1. CallOK(bcall[c], Now) /\ NowOK(Now) /\ Now.fact = fact BY DEF BInv, Now
<1>2. k \in Entries \ {"rows"} /\ fact \in Nat BY <1>1, WhatItIs DEF CacheGet, NowOK
<1>3. bcall[c] # Rest /\ bcall[c].do \notin {"edited", "delete"} BY NotResting DEF CacheGet
<1>4. UNCHANGED <<boverlap, misses, changes, codes, mem, redis>> BY DEF CacheGet, Goto
<1>5. ~boverlap => AloneIs(c) BY <1>3, Relied
<1>6. Plain => /\ mem # NoEntry => mem.ver \in Since
               /\ \A j \in Entries \ {"global"} : redis[j] # NoEntry => redis[j].ver \in Since
  BY <1>3, Relied DEF Plain
<1>7. CASE Fresh(redis[k])
  <2>1. shown' = [kind |-> k, ver |-> redis[k].ver] /\ bcall' = [bcall EXCEPT ![c] = Rest]
    BY <1>7 DEF CacheGet, Goto
  <2>2. shown'.kind = k /\ shown'.ver = redis[k].ver BY <2>1
  <2>3. redis[k] # NoEntry BY <1>7 DEF Fresh
  <2> HIDE DEF k
  <2>4. ShownLast BY <1>2, <1>6, <2>2, <2>3 DEF ShownLast
  <2>5. LInv' BY <1>4, <1>5, <1>6, <2>1, OnlyRest, LeadsReading
  <2> QED BY <2>4, <2>5
<1>8. CASE ~Fresh(redis[k])
  <2>1. PICK b : b = [do |-> "next", show |-> k, parts |-> PartsOf(k), got |-> {fact}] OBVIOUS
  <2>2. shown' = NoEntry /\ bcall' = [bcall EXCEPT ![c] = b]
    BY <1>8, <2>1 DEF CacheGet, Goto, Showing, Silent
  <2>3. b \in Readers /\ b.got = {fact} /\ b.do = "next"
    BY <1>2, <2>1, PartsAreEntries DEF Readers
  <2>4. HoldsOnly(b, Since) BY <2>3, HeldOnly, FactSince
  <2>5. LInv' BY <1>4, <1>5, <1>6, <2>2, <2>3, <2>4, LeadsReading
  <2> QED BY <2>2, <2>5 DEF ShownLast
<1> QED BY <1>7, <1>8

LEMMA GotOnly ==
  ASSUME NEW b, Reading(b), NEW S \in SUBSET Nat, NEW v \in S, b.got \subseteq S
  PROVE  HoldsOnly(Got(b, v), S) /\ Got(b, v).do = "next"
<1>1. PICK r : r = [do |-> "next", show |-> b.show, parts |-> b.parts, got |-> b.got \cup {v}]
  OBVIOUS
<1>2. r.do = "next" /\ r.got = b.got \cup {v} /\ r \in Readers BY <1>1 DEF Readers, Reading
<1>3. r.got \subseteq S BY <1>2
<1>4. HoldsOnly(r, S) BY <1>2, <1>3, HeldOnly
<1>5. Got(b, v) = r BY <1>1 DEF Got, Showing
<1> QED BY <1>2, <1>4, <1>5

\* A record that differs in its fields do and parts holds the same.
LEMMA SameHeld ==
  ASSUME NEW b, NEW r, NEW S, DOMAIN r = DOMAIN b, HoldsOnly(b, S),
         "got" \in DOMAIN b => r.got = b.got,
         "found" \in DOMAIN b => r.found \in S \cup {b.found},
         "ver" \in DOMAIN b => r.ver = b.ver
  PROVE  HoldsOnly(r, S)
BY DEF HoldsOnly

LEMMA LastNextPart ==
  ASSUME BInv, LInv, NEW c \in BCalls, NextPart(c) PROVE LInv'
<1>1. PICK b : b = bcall[c] OBVIOUS
<1>2. CallOK(b, Now) BY <1>1 DEF BInv
<1>3. ReaderOK(b, Now) /\ b.do = "next" BY <1>1, <1>2, WhatItIs DEF NextPart
<1>4. b \in Readers /\ Reading(b) /\ b.got # {} /\ HoldsYoung(b, Now)
  BY <1>3, ReadersRead DEF ReaderOK
<1>5. bcall[c] # Rest /\ bcall[c].do \notin {"edited", "delete"} BY NotResting DEF NextPart
<1>6. UNCHANGED <<boverlap, misses, changes, codes, mem, redis>> BY DEF NextPart, Goto
<1>7. ~boverlap => AloneIs(c) BY <1>5, Relied
<1>8. Plain => /\ HoldsOnly(b, Since)
               /\ mem # NoEntry => mem.ver \in Since
               /\ \A j \in Entries \ {"global"} : redis[j] # NoEntry => redis[j].ver \in Since
  BY <1>1, <1>5, Relied DEF Plain
<1>9. PICK r : /\ bcall' = [bcall EXCEPT ![c] = r]
               /\ \/ \E k \in b.parts : r = [b EXCEPT !.do = k, !.parts = @ \ {k}]
                  \/ r = [do |-> "set", show |-> b.show, ver |-> Least(b.got)]
  BY <1>1 DEF NextPart, Goto
<1>10. r.do \notin {"edited", "delete"} /\ (Plain => HoldsOnly(r, Since))
  <2>1. CASE r = [do |-> "set", show |-> b.show, ver |-> Least(b.got)]
    <3>1. Least(b.got) \in b.got BY <1>4, LeastIsHeld DEF HoldsYoung
    <3>2. r \in [do : {"set"}, show : Entries, ver : Nat] /\ r.ver = Least(b.got) /\ r.do = "set"
      BY <1>4, <2>1, <3>1 DEF Reading
    <3>3. Plain => b.got \subseteq Since BY <1>4, <1>8, HeldOnly
    <3> QED BY <3>1, <3>2, <3>3, HeldOnly
  <2>2. ASSUME NEW k \in b.parts, r = [b EXCEPT !.do = k, !.parts = @ \ {k}]
        PROVE  r.do \notin {"edited", "delete"} /\ (Plain => HoldsOnly(r, Since))
    <3>1. k \in {"rows", "ranks"} BY <1>4, PartsAreEntries DEF HoldsYoung, Reading
    <3>2. DOMAIN r = DOMAIN b /\ r.got = b.got /\ r.do = k BY <1>4, <2>2 DEF Readers
    <3>3. "found" \notin DOMAIN b /\ "ver" \notin DOMAIN b BY <1>4 DEF Readers
    <3> QED BY <1>8, <3>1, <3>2, <3>3, SameHeld
  <2> QED BY <1>9, <2>1, <2>2
<1> QED BY <1>6, <1>7, <1>8, <1>9, <1>10, LeadsReading

LEMMA LastCacheSet ==
  ASSUME BInv, LInv, NEW c \in BCalls, CacheSet(c) PROVE LInv' /\ ShownLast
<1>1. PICK b : b = bcall[c] OBVIOUS
<1>2. CallOK(b, Now) BY <1>1 DEF BInv
<1>3. SetterOK(b, Now) BY <1>1, <1>2, WhatItIs DEF CacheSet
<1>4. b \in [do : {"set"}, show : Entries, ver : Nat] BY <1>3 DEF SetterOK
<1>5. bcall[c] # Rest /\ bcall[c].do \notin {"edited", "delete"} BY NotResting DEF CacheSet
<1>6. /\ UNCHANGED <<boverlap, misses, changes, codes, mem>>
      /\ bcall' = [bcall EXCEPT ![c] = Rest]
  BY DEF CacheSet, Goto
<1>7. ~boverlap => AloneIs(c) BY <1>5, Relied
<1>8. Plain => /\ HoldsOnly(b, Since)
               /\ mem # NoEntry => mem.ver \in Since
               /\ \A j \in Entries \ {"global"} : redis[j] # NoEntry => redis[j].ver \in Since
  BY <1>1, <1>5, Relied DEF Plain
<1>9. Plain => b.ver \in Since BY <1>4, <1>8, HeldOnly
<1>10. PICK e : e = [ver |-> b.ver, till |-> Till(b.show)] OBVIOUS
<1>11. redis' = redis \/ redis' = [redis EXCEPT ![b.show] = e] BY <1>1, <1>10 DEF CacheSet
<1>12. Plain => \A j \in Entries \ {"global"} : redis'[j] # NoEntry => redis'[j].ver \in Since
  BY <1>8, <1>9, <1>10, <1>11 DEF BInv
<1>13. shown'.ver = b.ver BY <1>1 DEF CacheSet
<1>14. ShownLast BY <1>9, <1>13 DEF ShownLast
<1>15. LInv' BY <1>6, <1>7, <1>8, <1>12, OnlyRest, LeadsReading
<1> QED BY <1>14, <1>15

LEMMA LastBranchLeaderboardBase ==
  ASSUME BInv, LInv, NEW c \in BCalls, BranchLeaderboardBase(c) PROVE LInv'
<1>1. PICK b : b = bcall[c] OBVIOUS
<1>2. CallOK(b, Now) /\ NowOK(Now) /\ Now.fact = fact BY <1>1 DEF BInv, Now
<1>3. ReaderOK(b, Now) BY <1>1, <1>2, WhatItIs DEF BranchLeaderboardBase
<1>4. b \in Readers /\ Reading(b) /\ fact \in Nat BY <1>2, <1>3, ReadersRead DEF ReaderOK, NowOK
<1>5. bcall[c] # Rest /\ bcall[c].do \notin {"edited", "delete"}
  BY NotResting DEF BranchLeaderboardBase
<1>6. UNCHANGED <<boverlap, misses, changes, codes, mem, redis>> BY DEF BranchLeaderboardBase, Goto
<1>7. ~boverlap => AloneIs(c) BY <1>5, Relied
<1>8. Plain => /\ HoldsOnly(b, Since)
               /\ mem # NoEntry => mem.ver \in Since
               /\ \A j \in Entries \ {"global"} : redis[j] # NoEntry => redis[j].ver \in Since
  BY <1>1, <1>5, Relied DEF Plain
<1>9. Plain => b.got \subseteq Since BY <1>4, <1>8, HeldOnly
<1>10. CASE Fresh(redis["ranks"])
  <2>1. PICK r : r = Got(b, redis["ranks"].ver) OBVIOUS
  <2>2. bcall' = [bcall EXCEPT ![c] = r]
    BY <1>1, <1>10, <2>1 DEF BranchLeaderboardBase, Goto
  <2>3. redis["ranks"] # NoEntry BY <1>10 DEF Fresh
  <2>4. Plain => redis["ranks"].ver \in Since BY <1>8, <2>3, PartsAreEntries
  <2>5. Plain => HoldsOnly(r, Since) /\ r.do = "next" BY <1>4, <1>9, <2>1, <2>4, GotOnly, FactSince
  <2> QED BY <1>6, <1>7, <1>8, <2>2, <2>5, LeadsReading
<1>11. CASE ~Fresh(redis["ranks"])
  <2>1. PICK r : r = [do |-> "ranked", show |-> b.show, parts |-> b.parts, got |-> b.got, ver |-> fact]
    OBVIOUS
  <2>2. bcall' = [bcall EXCEPT ![c] = r]
    BY <1>1, <1>11, <2>1 DEF BranchLeaderboardBase, Goto
  <2>3. r \in Rankers /\ r.got = b.got /\ r.ver = fact /\ r.do = "ranked"
    BY <1>4, <2>1 DEF Rankers, Reading
  <2>4. Plain => HoldsOnly(r, Since) BY <1>9, <2>3, HeldOnly, FactSince
  <2> QED BY <1>6, <1>7, <1>8, <2>2, <2>3, <2>4, LeadsReading
<1> QED BY <1>10, <1>11

LEMMA LastSetRanks ==
  ASSUME BInv, LInv, NEW c \in BCalls, SetRanks(c) PROVE LInv'
<1>1. PICK b : b = bcall[c] OBVIOUS
<1>2. CallOK(b, Now) /\ NowOK(Now) /\ Now.fact = fact BY <1>1 DEF BInv, Now
<1>3. RankerOK(b, Now) BY <1>1, <1>2, WhatItIs DEF SetRanks
<1>4. b \in Rankers /\ Reading(b) /\ fact \in Nat BY <1>2, <1>3, ReadersRead DEF RankerOK, NowOK
<1>5. bcall[c] # Rest /\ bcall[c].do \notin {"edited", "delete"} BY NotResting DEF SetRanks
<1>6. UNCHANGED <<boverlap, misses, changes, codes, mem>> BY DEF SetRanks, Goto
<1>7. ~boverlap => AloneIs(c) BY <1>5, Relied
<1>8. Plain => /\ HoldsOnly(b, Since)
               /\ mem # NoEntry => mem.ver \in Since
               /\ \A j \in Entries \ {"global"} : redis[j] # NoEntry => redis[j].ver \in Since
  BY <1>1, <1>5, Relied DEF Plain
<1>9. Plain => b.got \subseteq Since /\ b.ver \in Since BY <1>4, <1>8, HeldOnly
<1>10. PICK e : e = [ver |-> b.ver, till |-> Till("ranks")] OBVIOUS
<1>11. redis' = [redis EXCEPT !["ranks"] = e] BY <1>1, <1>10 DEF SetRanks
<1>12. Plain => \A j \in Entries \ {"global"} : redis'[j] # NoEntry => redis'[j].ver \in Since
  BY <1>8, <1>9, <1>10, <1>11 DEF BInv
<1>13. PICK r : r = Got(b, b.ver) OBVIOUS
<1>14. bcall' = [bcall EXCEPT ![c] = r] BY <1>1, <1>13 DEF SetRanks, Goto
<1>15. Plain => HoldsOnly(r, Since) /\ r.do = "next" BY <1>4, <1>9, <1>13, GotOnly, FactSince
<1> QED BY <1>6, <1>7, <1>8, <1>12, <1>14, <1>15, LeadsReading

LEMMA LastRowsFromMemory ==
  ASSUME BInv, LInv, NEW c \in BCalls, RowsFromMemory(c) PROVE LInv'
<1>1. PICK b : b = bcall[c] OBVIOUS
<1>2. CallOK(b, Now) /\ NowOK(Now) /\ Now.fact = fact BY <1>1 DEF BInv, Now
<1>3. ReaderOK(b, Now) BY <1>1, <1>2, WhatItIs DEF RowsFromMemory, Fetching
<1>4. b \in Readers /\ Reading(b) /\ fact \in Nat BY <1>2, <1>3, ReadersRead DEF ReaderOK, NowOK
<1>5. bcall[c] # Rest /\ bcall[c].do \notin {"edited", "delete"} BY NotResting DEF RowsFromMemory
<1>6. UNCHANGED <<boverlap, misses, changes, codes, mem, redis>> BY DEF RowsFromMemory, Goto
<1>7. ~boverlap => AloneIs(c) BY <1>5, Relied
<1>8. Plain => /\ HoldsOnly(b, Since)
               /\ mem # NoEntry => mem.ver \in Since
               /\ \A j \in Entries \ {"global"} : redis[j] # NoEntry => redis[j].ver \in Since
  BY <1>1, <1>5, Relied DEF Plain
<1>9. Plain => b.got \subseteq Since BY <1>4, <1>8, HeldOnly
<1>10. CASE Fresh(mem)
  <2>1. PICK r : r = Got(b, mem.ver) OBVIOUS
  <2>2. bcall' = [bcall EXCEPT ![c] = r] BY <1>1, <1>10, <2>1 DEF RowsFromMemory, Goto
  <2>3. Plain => mem.ver \in Since BY <1>8, <1>10 DEF Fresh
  <2>4. Plain => HoldsOnly(r, Since) /\ r.do = "next" BY <1>4, <1>9, <2>1, <2>3, GotOnly, FactSince
  <2> QED BY <1>6, <1>7, <1>8, <2>2, <2>4, LeadsReading
<1>11. CASE ~Fresh(mem)
  <2>1. PICK r : r = [b EXCEPT !.do = "askredis"] OBVIOUS
  <2>2. bcall' = [bcall EXCEPT ![c] = r] BY <1>1, <1>11, <2>1 DEF RowsFromMemory, Goto
  <2>3. /\ DOMAIN r = DOMAIN b /\ r.got = b.got /\ r.do = "askredis"
        /\ "found" \notin DOMAIN b /\ "ver" \notin DOMAIN b
    BY <1>4, <2>1 DEF Readers
  <2>4. Plain => HoldsOnly(r, Since) BY <1>8, <2>3, SameHeld
  <2> QED BY <1>6, <1>7, <1>8, <2>2, <2>3, <2>4, LeadsReading
<1> QED BY <1>10, <1>11

LEMMA LastRowsFromRedis ==
  ASSUME BInv, LInv, NEW c \in BCalls, RowsFromRedis(c) PROVE LInv'
<1>1. PICK b : b = bcall[c] OBVIOUS
<1>2. CallOK(b, Now) BY <1>1 DEF BInv
<1>3. ReaderOK(b, Now) BY <1>1, <1>2, WhatItIs DEF RowsFromRedis, Fetching
<1>4. b \in Readers BY <1>3 DEF ReaderOK
<1>5. bcall[c] # Rest /\ bcall[c].do \notin {"edited", "delete"} BY NotResting DEF RowsFromRedis
<1>6. UNCHANGED <<boverlap, misses, changes, codes, mem, redis>> BY DEF RowsFromRedis, Goto
<1>7. ~boverlap => AloneIs(c) BY <1>5, Relied
<1>8. Plain => /\ HoldsOnly(b, Since)
               /\ mem # NoEntry => mem.ver \in Since
               /\ \A j \in Entries \ {"global"} : redis[j] # NoEntry => redis[j].ver \in Since
  BY <1>1, <1>5, Relied DEF Plain
<1>9. Plain => b.got \subseteq Since BY <1>4, <1>8, HeldOnly
<1>10. PICK v : v = IF Fresh(redis["rows"]) THEN redis["rows"].ver ELSE NoEntry OBVIOUS
<1>11. PICK r : r = [do |-> "redis", show |-> b.show, parts |-> b.parts, got |-> b.got, found |-> v]
  OBVIOUS
<1>12. bcall' = [bcall EXCEPT ![c] = r] BY <1>1, <1>10, <1>11 DEF RowsFromRedis, Goto
<1>13. Plain => v \in Since \cup {NoEntry} BY <1>8, <1>10, PartsAreEntries DEF Fresh
<1>14. r.do = "redis" /\ r.got = b.got /\ r.found = v
       /\ DOMAIN r = {"do", "show", "parts", "got", "found"}
  BY <1>11
<1>15. Plain => HoldsOnly(r, Since) BY <1>9, <1>13, <1>14 DEF HoldsOnly
<1> QED BY <1>6, <1>7, <1>8, <1>12, <1>14, <1>15, LeadsReading

LEMMA LastRowsOrLoad ==
  ASSUME BInv, LInv, NEW c \in BCalls, RowsOrLoad(c) PROVE LInv'
<1>1. PICK b : b = bcall[c] OBVIOUS
<1>2. CallOK(b, Now) /\ NowOK(Now) /\ Now.fact = fact BY <1>1 DEF BInv, Now
<1>3. FinderOK(b, Now) BY <1>1, <1>2, WhatItIs DEF RowsOrLoad, Finding
<1>4. b \in Finders /\ Reading(b) /\ fact \in Nat BY <1>2, <1>3, ReadersRead DEF FinderOK, NowOK
<1>5. bcall[c] # Rest /\ bcall[c].do \notin {"edited", "delete"} BY NotResting DEF RowsOrLoad
<1>6. UNCHANGED <<boverlap, misses, changes, codes, redis>> BY DEF RowsOrLoad, Goto
<1>7. ~boverlap => AloneIs(c) BY <1>5, Relied
<1>8. Plain => /\ HoldsOnly(b, Since)
               /\ mem # NoEntry => mem.ver \in Since
               /\ \A j \in Entries \ {"global"} : redis[j] # NoEntry => redis[j].ver \in Since
  BY <1>1, <1>5, Relied DEF Plain
<1>9. Plain => b.got \subseteq Since /\ b.found \in Since \cup {NoEntry} BY <1>4, <1>8, HeldOnly
<1>10. ASSUME b.found # NoEntry, mem' = MemEntry(b.found), Goto(c, Got(b, b.found)) PROVE LInv'
  <2>1. PICK r : r = Got(b, b.found) OBVIOUS
  <2>2. bcall' = [bcall EXCEPT ![c] = r] BY <1>10, <2>1 DEF Goto
  <2>3. Plain => HoldsOnly(r, Since) /\ r.do = "next" BY <1>4, <1>9, <1>10, <2>1, GotOnly, FactSince
  <2>4. Plain => mem'.ver \in Since BY <1>9, <1>10 DEF MemEntry
  <2> QED BY <1>6, <1>7, <1>8, <2>2, <2>3, <2>4, LeadsReading
<1>11. ASSUME NEW step \in {"wait", "load"}, UNCHANGED mem, Goto(c, [b EXCEPT !.do = step])
       PROVE  LInv'
  <2>1. PICK r : r = [b EXCEPT !.do = step] OBVIOUS
  <2>2. bcall' = [bcall EXCEPT ![c] = r] BY <1>11, <2>1 DEF Goto
  <2>3. /\ DOMAIN r = DOMAIN b /\ r.got = b.got /\ r.do = step /\ r.found = b.found
        /\ "ver" \notin DOMAIN b
    BY <1>4, <2>1 DEF Finders
  <2>4. Plain => HoldsOnly(r, Since) BY <1>8, <2>3, SameHeld
  <2> QED BY <1>6, <1>7, <1>8, <1>11, <2>2, <2>3, <2>4, LeadsReading
<1> QED BY <1>1, <1>10, <1>11 DEF RowsOrLoad

LEMMA LastReadRows ==
  ASSUME BInv, LInv, NEW c \in BCalls, ReadRows(c) PROVE LInv'
<1>1. PICK b : b = bcall[c] OBVIOUS
<1>2. CallOK(b, Now) BY <1>1 DEF BInv
<1>3. FinderOK(b, Now) BY <1>1, <1>2, WhatItIs DEF ReadRows, Finding
<1>4. b \in Finders BY <1>3 DEF FinderOK
<1>5. bcall[c] # Rest /\ bcall[c].do \notin {"edited", "delete"} BY NotResting DEF ReadRows
<1>6. UNCHANGED <<boverlap, misses, changes, mem, redis>> BY DEF ReadRows, Goto
<1>7. ~boverlap => AloneIs(c) BY <1>5, Relied
<1>8. Plain => /\ HoldsOnly(b, Since)
               /\ mem # NoEntry => mem.ver \in Since
               /\ \A j \in Entries \ {"global"} : redis[j] # NoEntry => redis[j].ver \in Since
  BY <1>1, <1>5, Relied DEF Plain
<1>a. codes' = IF Fresh(codes) THEN codes ELSE [ver |-> fact, till |-> clock + ShiftsTtl]
  BY DEF ReadRows
<1>b. codes' = codes \/ codes'.ver = fact BY <1>a
<1>c. Plain => codes'.ver \in Since
  <2>1. CASE Fresh(codes) BY <1>a, <2>1, FactSince DEF Fresh, LInv, Plain
  <2>2. CASE ~Fresh(codes) BY <1>a, <2>2, FactSince
  <2> QED BY <2>1, <2>2
<1>9. PICK r : r = [b EXCEPT !.do = "loaded", !.found = codes'.ver] OBVIOUS
<1>10. bcall' = [bcall EXCEPT ![c] = r] BY <1>1, <1>9 DEF ReadRows, Goto
<1>11. /\ DOMAIN r = DOMAIN b /\ r.got = b.got /\ r.do = "loaded" /\ r.found = codes'.ver
       /\ "ver" \notin DOMAIN b
  BY <1>4, <1>9 DEF Finders
<1>12. Plain => HoldsOnly(r, Since) BY <1>8, <1>11, <1>c, SameHeld
<1> QED BY <1>6, <1>7, <1>8, <1>10, <1>11, <1>12, <1>b, LeadsReading

LEMMA LastRowsToMemory ==
  ASSUME BInv, LInv, NEW c \in BCalls, RowsToMemory(c) PROVE LInv'
<1>1. PICK b : b = bcall[c] OBVIOUS
<1>2. CallOK(b, Now) /\ NowOK(Now) BY <1>1 DEF BInv
<1>3. FinderOK(b, Now) /\ b.do = "loaded" BY <1>1, <1>2, WhatItIs DEF RowsToMemory, Finding
<1>4. b \in Finders /\ b.found \in Nat BY <1>2, <1>3 DEF FinderOK, Young, NowOK
<1>5. bcall[c] # Rest /\ bcall[c].do \notin {"edited", "delete"} BY NotResting DEF RowsToMemory
<1>6. UNCHANGED <<boverlap, misses, changes, codes, redis>> /\ mem' = MemEntry(b.found)
  BY <1>1 DEF RowsToMemory, Goto
<1>7. ~boverlap => AloneIs(c) BY <1>5, Relied
<1>8. Plain => /\ HoldsOnly(b, Since)
               /\ \A j \in Entries \ {"global"} : redis[j] # NoEntry => redis[j].ver \in Since
  BY <1>1, <1>5, Relied DEF Plain
<1>9. Plain => mem'.ver \in Since
  <2>1. Plain => b.found \in Since \cup {NoEntry} BY <1>4, <1>8, HeldOnly
  <2>2. b.found # NoEntry BY <1>4, BoardsAssumption
  <2> QED BY <1>6, <2>1, <2>2 DEF MemEntry
<1>10. PICK r : r = [b EXCEPT !.do = "store"] OBVIOUS
<1>11. bcall' = [bcall EXCEPT ![c] = r] BY <1>1, <1>10 DEF RowsToMemory, Goto
<1>12. /\ DOMAIN r = DOMAIN b /\ r.got = b.got /\ r.do = "store" /\ r.found = b.found
       /\ "ver" \notin DOMAIN b
  BY <1>4, <1>10 DEF Finders
<1>13. Plain => HoldsOnly(r, Since) BY <1>8, <1>12, SameHeld
<1> QED BY <1>6, <1>7, <1>8, <1>9, <1>11, <1>12, <1>13, LeadsReading

LEMMA LastRowsToRedis ==
  ASSUME BInv, LInv, NEW c \in BCalls, RowsToRedis(c) PROVE LInv'
<1>1. PICK b : b = bcall[c] OBVIOUS
<1>2. CallOK(b, Now) /\ NowOK(Now) /\ Now.fact = fact BY <1>1 DEF BInv, Now
<1>3. FinderOK(b, Now) /\ b.do = "store" BY <1>1, <1>2, WhatItIs DEF RowsToRedis, Finding
<1>4. b \in Finders /\ Reading(b) /\ b.found \in Nat /\ fact \in Nat
  BY <1>2, <1>3, ReadersRead DEF FinderOK, Young, NowOK
<1>5. bcall[c] # Rest /\ bcall[c].do \notin {"edited", "delete"} BY NotResting DEF RowsToRedis
<1>6. UNCHANGED <<boverlap, misses, changes, codes, mem>> BY DEF RowsToRedis
<1>7. ~boverlap => AloneIs(c) BY <1>5, Relied
<1>8. Plain => /\ HoldsOnly(b, Since)
               /\ mem # NoEntry => mem.ver \in Since
               /\ \A j \in Entries \ {"global"} : redis[j] # NoEntry => redis[j].ver \in Since
  BY <1>1, <1>5, Relied DEF Plain
<1>9. Plain => b.got \subseteq Since /\ b.found \in Since
  <2>1. Plain => b.got \subseteq Since /\ b.found \in Since \cup {NoEntry} BY <1>4, <1>8, HeldOnly
  <2>2. b.found # NoEntry BY <1>4, BoardsAssumption
  <2> QED BY <2>1, <2>2
<1>10. PICK e : e = [ver |-> b.found, till |-> Till("rows")] OBVIOUS
<1>11. redis' = [redis EXCEPT !["rows"] = e] BY <1>1, <1>10 DEF RowsToRedis
<1>12. Plain => \A j \in Entries \ {"global"} : redis'[j] # NoEntry => redis'[j].ver \in Since
  BY <1>8, <1>9, <1>10, <1>11 DEF BInv
<1>13. bcall' = [d \in BCalls |->
          IF d = c \/ bcall[d].do = "wait" THEN Got(bcall[d], b.found) ELSE bcall[d]]
  BY <1>1 DEF RowsToRedis
<1>14. ASSUME ~boverlap PROVE AloneIs(c)'
  <2>1. ASSUME NEW d \in BCalls \ {c} PROVE bcall'[d] = Rest
    <3>1. bcall[d] = Rest /\ bcall[d].do = "rest" BY <1>7, <1>14, <2>1, OnlyRest DEF AloneIs
    <3> QED BY <1>13, <3>1
  <2> QED BY <2>1 DEF AloneIs
<1>15. ASSUME Plain' PROVE LastFor(c)'
  <2>1. Plain /\ Since' = Since BY <1>6, <1>15 DEF Plain, Since, changes
  <2>2. PICK r : r = Got(b, b.found) OBVIOUS
  <2>3. bcall'[c] = r BY <1>1, <1>13, <2>2
  <2>4. HoldsOnly(r, Since) /\ r.do = "next" BY <1>4, <1>9, <2>1, <2>2, GotOnly, FactSince
  <2> QED BY <1>6, <1>8, <1>12, <2>1, <2>3, <2>4 DEF LastFor
<1>16. misses' \in Nat BY <1>6 DEF LInv
<1>17. announced' \in 0 .. fact' /\ (~renamed' /\ codes' # NoEntry => codes'.ver = fact')
  BY <1>6 DEF LInv, changes
<1> QED BY <1>6, <1>14, <1>15, <1>16, <1>17, Leads

LEMMA LastEdit ==
  ASSUME BInv, LInv, NEW c \in BCalls, NEW worker \in BOOLEAN, NEW kind \in EditKinds,
         Edit(c, worker, kind)
  PROVE  LInv'
<1>1. PICK b : b = [do |-> "edited", worker |-> worker] OBVIOUS
<1>2. /\ UNCHANGED <<boverlap, misses, mem, redis>> /\ fact' = fact + 1
      /\ byWorker' = (byWorker \/ worker) /\ renamed' = (renamed \/ kind = "shifts")
      /\ bcall[c] = Rest /\ (~boverlap => \A d \in BCalls : bcall[d] = Rest)
      /\ codes' = IF kind # "shifts" /\ codes # NoEntry /\ codes.ver = fact
                    THEN [ver |-> fact + 1, till |-> codes.till] ELSE codes
      /\ \/ announced' = announced /\ bcall' = bcall
         \/ announced' = fact + 1 /\ bcall' = [bcall EXCEPT ![c] = b]
  BY <1>1 DEF Edit, MayBegin
<1>3. fact \in Nat /\ announced \in 0 .. fact /\ announced' \in 0 .. fact'
  BY <1>2, FactSince DEF LInv, Since
<1>4. ASSUME ~renamed', codes' # NoEntry PROVE codes'.ver = fact'
  <2>1. ~renamed /\ kind # "shifts" BY <1>2, <1>4
  <2>2. CASE codes = NoEntry BY <1>2, <1>4, <2>2
  <2>3. CASE codes # NoEntry
    <3>1. codes.ver = fact BY <2>1, <2>3 DEF LInv
    <3> QED BY <1>2, <2>1, <2>3, <3>1
  <2> QED BY <2>2, <2>3
<1>5. misses' \in Nat BY <1>2 DEF LInv
<1>6. ASSUME ~boverlap PROVE AloneIs(c)' BY <1>2, <1>6 DEF AloneIs, BInv
<1>7. ASSUME Plain' PROVE LastFor(c)'
  <2>1. Plain /\ ~worker BY <1>2, <1>7 DEF Plain
  <2>2. CASE announced' = announced /\ bcall' = bcall
    <3>1. Since \subseteq Since' BY <1>2, <1>3, <2>2 DEF Since
    <3>2. bcall'[c] = Rest /\ Rest.do = "rest" /\ HoldsOnly(Rest, Since')
      BY <1>2, <2>2, OnlyRest
    <3>3. /\ mem # NoEntry => mem.ver \in Since
          /\ \A k \in Entries \ {"global"} : redis[k] # NoEntry => redis[k].ver \in Since
      BY <1>2, <2>1, <3>2, Relied DEF Plain
    <3> QED BY <1>2, <3>1, <3>2, <3>3 DEF LastFor
  <2>3. CASE announced' = fact + 1 /\ bcall' = [bcall EXCEPT ![c] = b]
    <3>1. b \in [do : {"edited"}, worker : BOOLEAN] /\ b.do = "edited" /\ b.worker = worker BY <1>1
    <3>2. HoldsOnly(b, Since') /\ bcall'[c] = b BY <2>3, <3>1, HeldOnly DEF BInv
    <3> QED BY <2>1, <3>1, <3>2 DEF LastFor
  <2> QED BY <1>2, <2>2, <2>3
<1> QED BY <1>2, <1>3, <1>4, <1>5, <1>6, <1>7, Leads

LEMMA LastInvalidatePapanCaches ==
  ASSUME BInv, LInv, NEW c \in BCalls, InvalidatePapanCaches(c) PROVE LInv'
<1>1. PICK b : b = [do |-> "delete", keys |-> Stale] OBVIOUS
<1>2. /\ bcall' = [bcall EXCEPT ![c] = b]
      /\ UNCHANGED <<boverlap, misses, changes, codes, redis>>
      /\ mem' = IF bcall[c].worker THEN mem ELSE NoEntry
  BY <1>1 DEF InvalidatePapanCaches, Goto
<1>3. bcall[c] # Rest /\ bcall[c].do = "edited" BY NotResting DEF InvalidatePapanCaches
<1>4. ~boverlap => AloneIs(c) BY <1>3, Relied
<1>5. b \in [do : {"delete"}, keys : SUBSET Stale] /\ b.do = "delete" /\ b.keys = Stale BY <1>1
<1>6. HoldsOnly(b, Since') /\ bcall'[c] = b BY <1>2, <1>5, HeldOnly DEF BInv
<1>7. ASSUME ~boverlap PROVE AloneIs(c)' BY <1>2, <1>4, <1>7 DEF AloneIs, BInv
<1>8. ASSUME Plain' PROVE LastFor(c)'
  <2>1. Plain BY <1>2, <1>8 DEF Plain, changes
  <2>2. ~bcall[c].worker BY <1>3, <1>4, <2>1 DEF LInv, LastFor, Plain
  <2>3. mem' = NoEntry BY <1>2, <2>2
  <2>4. Entries \ {"global"} \subseteq Stale BY DEF Entries, Stale
  <2> QED BY <1>5, <1>6, <2>3, <2>4 DEF LastFor
<1>9. misses' \in Nat BY <1>2 DEF LInv
<1>10. announced' \in 0 .. fact' /\ (~renamed' /\ codes' # NoEntry => codes'.ver = fact')
  BY <1>2 DEF LInv, changes
<1> QED BY <1>2, <1>7, <1>8, <1>9, <1>10, Leads

LEMMA LastCacheDelete ==
  ASSUME BInv, LInv, NEW c \in BCalls, CacheDelete(c) PROVE LInv'
<1>1. CallOK(bcall[c], Now) BY DEF BInv
<1>2. bcall[c] \in [do : {"delete"}, keys : SUBSET Stale] BY <1>1, WhatItIs DEF CacheDelete
<1>3. bcall[c] # Rest /\ bcall[c].do = "delete" BY NotResting DEF CacheDelete
<1>4. PICK k \in bcall[c].keys :
        /\ \/ redis' = [redis EXCEPT ![k] = NoEntry] /\ UNCHANGED misses
           \/ misses' = misses + 1 /\ UNCHANGED redis
        /\ Goto(c, IF bcall[c].keys = {k} THEN Rest ELSE [bcall[c] EXCEPT !.keys = @ \ {k}])
  BY DEF CacheDelete
<1>5. PICK b : b = IF bcall[c].keys = {k} THEN Rest ELSE [bcall[c] EXCEPT !.keys = @ \ {k}]
  OBVIOUS
<1>6. bcall' = [bcall EXCEPT ![c] = b] /\ UNCHANGED <<boverlap, changes, codes, mem>>
  BY <1>4, <1>5 DEF CacheDelete, Goto
<1>7. ~boverlap => AloneIs(c) BY <1>3, Relied
<1>8. bcall'[c] = b BY <1>6 DEF BInv
<1>9. ASSUME ~boverlap PROVE AloneIs(c)' BY <1>6, <1>7, <1>9 DEF AloneIs, BInv
<1>10. misses \in Nat /\ misses' \in Nat BY <1>4 DEF LInv
<1>11. /\ HoldsOnly(b, Since) /\ b.do \in {"rest", "delete"}
       /\ b.do = "delete" => b.keys = bcall[c].keys \ {k}
       /\ b.do = "rest" => bcall[c].keys = {k}
  <2>1. CASE bcall[c].keys = {k} BY <1>5, <2>1, OnlyRest
  <2>2. CASE bcall[c].keys # {k}
    <3>1. b = [bcall[c] EXCEPT !.keys = @ \ {k}] BY <1>5, <2>2
    <3>2. b \in [do : {"delete"}, keys : SUBSET Stale] /\ b.do = "delete" BY <1>2, <3>1
    <3>3. b.keys = bcall[c].keys \ {k} BY <1>2, <3>1
    <3> QED BY <3>2, <3>3, HeldOnly
  <2> QED BY <2>1, <2>2
<1>12. ASSUME Plain' PROVE LastFor(c)'
  <2>1. misses' = misses BY <1>4, <1>10, <1>12 DEF Plain
  <2>2. Plain /\ Since' = Since BY <1>6, <1>12, <2>1 DEF Plain, Since, changes
  <2>3. redis' = [redis EXCEPT ![k] = NoEntry] BY <1>4, <1>10, <2>1
  <2>4. LastFor(c) BY <1>7, <2>2 DEF LInv, Plain
  <2>5. ASSUME NEW j \in Entries \ {"global"}, redis'[j] # NoEntry
        PROVE  redis'[j].ver \in Since' \/ (b.do = "delete" /\ j \in b.keys)
    <3>1. j # k /\ redis'[j] = redis[j] BY <2>3, <2>5 DEF BInv
    <3>2. redis[j].ver \in Since \/ j \in bcall[c].keys BY <1>3, <2>4, <2>5, <3>1 DEF LastFor
    <3> QED BY <1>6, <1>11, <2>2, <3>1, <3>2
  <2>6. mem' # NoEntry => mem'.ver \in Since' BY <1>3, <1>6, <2>2, <2>4 DEF LastFor
  <2> QED BY <1>6, <1>8, <1>11, <2>2, <2>5, <2>6 DEF LastFor
<1>13. announced' \in 0 .. fact' /\ (~renamed' /\ codes' # NoEntry => codes'.ver = fact')
  BY <1>6 DEF LInv, changes
<1> QED BY <1>6, <1>9, <1>10, <1>12, <1>13, Leads

LEMMA LastSame ==
  ASSUME LInv, UNCHANGED <<boverlap, changes, codes, mem, redis, bcall, misses>> PROVE LInv'
BY DEF LInv, LastFor, AloneIs, Plain, Since, changes

LEMMA NextLInv ==
  ASSUME BInv, LInv, [BoardsNext]_bvars
  PROVE  LInv' /\ (ShownLast \/ UNCHANGED bvars)
<1>1. ASSUME NEW c \in BCalls, CacheGet(c) \/ CacheSet(c) PROVE LInv' /\ ShownLast
  BY <1>1, LastCacheGet, LastCacheSet
<1>2. ASSUME NEW c \in BCalls,
             \/ \E k \in Entries : Ask(c, k)
             \/ NextPart(c) \/ BranchLeaderboardBase(c) \/ SetRanks(c)
             \/ RowsFromMemory(c) \/ RowsFromRedis(c) \/ RowsOrLoad(c) \/ ReadRows(c)
             \/ RowsToMemory(c) \/ RowsToRedis(c)
             \/ \E worker \in BOOLEAN, kind \in EditKinds : Edit(c, worker, kind)
             \/ InvalidatePapanCaches(c) \/ CacheDelete(c)
      PROVE  LInv' /\ ShownLast
  <2>1. LInv'
    BY <1>2, LastAsk, LastNextPart, LastBranchLeaderboardBase, LastSetRanks,
       LastRowsFromMemory, LastRowsFromRedis, LastRowsOrLoad, LastReadRows, LastRowsToMemory,
       LastRowsToRedis, LastEdit, LastInvalidatePapanCaches, LastCacheDelete
  <2>2. Silent
    BY <1>2 DEF Ask, NextPart, BranchLeaderboardBase, SetRanks, RowsFromMemory, RowsFromRedis,
      RowsOrLoad, ReadRows, RowsToMemory, RowsToRedis, Edit, InvalidatePapanCaches, CacheDelete
  <2> QED BY <2>1, <2>2 DEF Silent, ShownLast
<1>3. ASSUME Tick PROVE LInv' /\ ShownLast
  <2>1. Silent /\ UNCHANGED <<boverlap, changes, codes, mem, redis, bcall, misses>>
    BY <1>3 DEF Tick
  <2> QED BY <2>1, LastSame DEF Silent, ShownLast
<1>4. ASSUME UNCHANGED bvars PROVE LInv' BY <1>4, LastSame DEF bvars
<1> QED BY <1>1, <1>2, <1>3, <1>4 DEF BoardsNext

(* Calls that do not overlap, in one process, with Redis there and the     *)
(* shifts as they were: the last change that invalidates is shown, and all *)
(* before it, whichever entries the answer is put together from, but for   *)
(* the leaderboard of all branches.                                        *)
THEOREM NothingOldAfterChange == BoardsSpec => FreshAfterChange
<1>1. BInv /\ LInv /\ [BoardsNext]_bvars => BInv' /\ LInv' BY NextBInv, NextLInv
<1>2. ShownLast /\ shown' # NoEntry /\ Plain /\ shown'.kind # "global" => shown'.ver >= announced
  BY DEF ShownLast, Since
<1>3. BInv /\ LInv /\ [BoardsNext]_bvars =>
        [shown' # NoEntry /\ ~boverlap /\ misses = 0 /\ ~byWorker /\ ~renamed
           /\ shown'.kind # "global" => shown'.ver >= announced]_bvars
  BY <1>2, NextLInv DEF Plain
<1> QED BY <1>1, <1>3, InitBInv, InitLInv, PTL DEF BoardsSpec, FreshAfterChange
------------------------------------------------------------------------------
(***************************************************************************)
(* Proofs about Notices, for any number of requests, people, branches,     *)
(* announcements and devices: announcements and their notifications are    *)
(* read together (RInv), nobody is reminded twice a day (MInv), and nobody *)
(* keeps more than one device (DInv).                                      *)
(*                                                                         *)
(* What a call has begun and not finished is in todo.  Each of the three   *)
(* says which gap between two pieces of state a call under way may leave   *)
(* open, and that the call that closes it is there.                        *)
(***************************************************************************)
Posting == [do : {"tell"}, post : Posts, to : SUBSET Folk]
Noting  == [do : {"notes"}, who : Folk, posts : SUBSET Posts]
Syncing == [do : {"reads"}, who : Folk, post : Posts]
Visiting == [do : {"sync", "list"}, who : Folk, scope : SUBSET Sites]
Reminding == [do : {"dup", "remind"}, who : Folk, scope : SUBSET Sites, kind : Kinds]
Reporting == [do : {"desk"}, site : Sites, to : SUBSET Folk, late : Folk \cup {Nobody}]
Pruning == [do : {"only"}, who : Folk, device : Devices]

Errands ==
  {Idle} \cup Posting \cup Noting \cup Syncing \cup Visiting \cup Reminding \cup Reporting \cup Pruning

Marks == {"none", "unread", "read"}

NTypes ==
  /\ noverlap \in BOOLEAN /\ restarts \in Nat
  /\ sites \in [Folk -> SUBSET Sites]
  /\ todo \in [NCalls -> Errands]
  /\ post \in [Posts -> Announcements \cup {Nobody}]
  /\ told \in [Folk -> [Posts -> Marks]]
  /\ hour \in {"night", "day"}
  /\ reminded \in [Folk -> [Kinds -> SUBSET {"night", "day"}]]
  /\ came \in [Folk -> {"no", "ok", "late"}]
  /\ subs \in [Folk -> SUBSET Devices] /\ installed \in [Folk -> SUBSET Devices]
  /\ latest \in [Folk -> Devices \cup {Nobody}]

\* Calls other than c are idle.
OthersIdle(c) == \A d \in NCalls \ {c} : todo[d] = Idle

NAlone == ~noverlap => \A c \in NCalls : todo[c] # Idle => OthersIdle(c)

\* Announcements: one call at a time and none lost, what is read in one place
\* and not in the other is in the hands of the call that will mend it.
Intact == ~noverlap /\ restarts = 0

InHand(p, a) ==
  /\ told[p][a] = "unread" /\ <<p, a>> \in reads =>
       \E c \in NCalls : todo[c].do = "notes" /\ todo[c].who = p /\ a \in todo[c].posts
  /\ told[p][a] = "read" /\ <<p, a>> \notin reads \cup hidden =>
       \E c \in NCalls : todo[c].do = "reads" /\ todo[c].who = p /\ todo[c].post = a
  /\ post[a] = Nobody => told[p][a] = "none" /\ <<p, a>> \notin reads

\* What a call that is under way has found, or done, before.
NewsOK(t) ==
  /\ t.do = "tell" => /\ post[t.post] # Nobody
                      /\ \A p \in Folk : <<p, t.post>> \notin reads
  /\ t.do = "notes" => {t.who} \X t.posts \subseteq reads
  /\ t.do = "reads" => told[t.who][t.post] = "read"

RInv ==
  Intact => /\ \A p \in Folk, a \in Posts : InHand(p, a)
            /\ \A c \in NCalls : NewsOK(todo[c])

\* Reminders.
Visits(t) == t.do \in {"sync", "dup", "remind"}
Excused(k) == noverlap /\ k = "late"

VisitOK(t) ==
  /\ Visits(t) => t.who \in synced
  /\ t.do \in {"dup", "remind"} /\ t.kind = "late" => came[t.who] # "no"
  /\ t.do = "remind" => "day" \notin reminded[t.who][t.kind] \/ Excused(t.kind)
  /\ t.do = "desk" /\ t.late # Nobody =>
       came[t.late] # "no" /\ (noverlap \/ reminded[t.late]["late"] = {})

MInv ==
  /\ OneReminderADay
  /\ \A c \in NCalls : VisitOK(todo[c])
  /\ \A c, d \in NCalls : Visits(todo[c]) /\ Visits(todo[d]) /\ c # d => todo[c].who # todo[d].who
  /\ ~noverlap => \A p \in Folk : came[p] = "no" => reminded[p]["late"] = {}

\* Devices.
One(p) == \A d, e \in subs[p] : d = e
Kept(p) == latest[p] \in installed[p] => latest[p] \in subs[p]

DInv ==
  /\ restarts = 0 => \A p \in Folk :
       One(p) \/ \E c \in NCalls : todo[c].do = "only" /\ todo[c].who = p
  /\ ~noverlap /\ restarts = 0 => \A p \in Folk : Kept(p)
  /\ ~noverlap => \A c \in NCalls : todo[c].do = "only" => latest[todo[c].who] = todo[c].device

IInv == NTypes /\ NAlone /\ RInv /\ MInv /\ DInv
------------------------------------------------------------------------------
(* What each action makes of the errands.                                   *)

\* Call c goes from errand todo[c] to errand b; the others stay as they are.
Turns(c, b) ==
  /\ b \in Errands /\ todo' \in [NCalls -> Errands]
  /\ todo'[c] = b /\ \A d \in NCalls \ {c} : todo'[d] = todo[d]

\* The variables that most actions leave alone.
Calm == UNCHANGED <<noverlap, restarts>>

\* What is known of an errand from what there is to do.
LEMMA Shapes ==
  ASSUME NEW t \in Errands
  PROVE  /\ t.do = "tell" => t \in Posting
         /\ t.do = "notes" => t \in Noting
         /\ t.do = "reads" => t \in Syncing
         /\ t.do \in {"sync", "list"} => t \in Visiting
         /\ t.do \in {"dup", "remind"} => t \in Reminding
         /\ t.do = "desk" => t \in Reporting
         /\ t.do = "only" => t \in Pruning
         /\ t.do = "nothing" => t = Idle
         /\ Idle \in Errands /\ Idle.do = "nothing"
BY DEF Errands, Idle, Posting, Noting, Syncing, Visiting, Reminding, Reporting, Pruning

\* A call that is let in begins from Idle, alone unless calls may overlap.
LEMMA Starts ==
  ASSUME NTypes, NAlone, NEW c \in NCalls, NEW b \in Errands, NStart(c, b)
  PROVE  Turns(c, b) /\ Calm /\ NAlone' /\ todo[c] = Idle
BY DEF NTypes, NAlone, NStart, Turns, Calm, OthersIdle

LEMMA GoesOn ==
  ASSUME NTypes, NAlone, NEW c \in NCalls, NEW b \in Errands, NGoOn(c, b), todo[c] # Idle
  PROVE  Turns(c, b) /\ Calm /\ NAlone'
BY DEF NTypes, NAlone, NGoOn, Turns, Calm, OthersIdle

LEMMA TellTurns ==
  ASSUME NTypes, NAlone, NEW c \in NCalls, Tell(c)
  PROVE  \E b \in {Idle} \cup Posting : Turns(c, b) /\ Calm /\ NAlone' /\ (b # Idle => b.post = todo[c].post)
<1>1. todo[c] \in Posting /\ todo[c] # Idle
  BY Shapes DEF Tell, NTypes, Idle
<1>2. CASE NGoOn(c, Idle)
  <2>1. Idle \in Errands
    BY DEF Errands
  <2>2. Turns(c, Idle) /\ Calm /\ NAlone'
    BY <1>1, <1>2, <2>1, GoesOn
  <2> QED
    BY <2>2
<1>3. CASE \E p \in todo[c].to : NGoOn(c, [todo[c] EXCEPT !.to = @ \ {p}])
  <2>1. PICK p \in todo[c].to : NGoOn(c, [todo[c] EXCEPT !.to = @ \ {p}])
    BY <1>3
  <2>2. PICK b : b = [todo[c] EXCEPT !.to = @ \ {p}]
    OBVIOUS
  <2>3. b \in Posting /\ b.post = todo[c].post
    BY <1>1, <2>2 DEF Posting
  <2>4. b \in Errands
    BY <2>3 DEF Errands
  <2> QED
    BY <1>1, <2>1, <2>2, <2>3, <2>4, GoesOn
<1> QED
  BY <1>2, <1>3 DEF Tell

LEMMA PublishTurns ==
  ASSUME NTypes, NAlone, NEW c \in NCalls, NEW a \in Posts, NEW targets, NEW site,
         Publish(c, a, targets, site)
  PROVE  \E b \in Posting : Turns(c, b) /\ Calm /\ NAlone' /\ todo[c] = Idle /\ b.post = a
<1>1. PICK b : b = [do |-> "tell", post |-> a, to |-> Recipients(targets)]
  OBVIOUS
<1>2. b \in Posting /\ b.post = a
  BY <1>1 DEF Posting, Recipients
<1>3. b \in Errands /\ NStart(c, b)
  BY <1>1, <1>2 DEF Errands, Publish
<1> QED
  BY <1>2, <1>3, Starts

\* Handlers that leave nothing for later.
LEMMA OneStepTurns ==
  ASSUME NTypes, NAlone, NEW c \in NCalls,
         \/ \E a \in Posts : UpdateBranchAnnouncement(c, a)
         \/ \E p \in Folk : ReadAllNotifications(c, p)
         \/ \E p \in Folk, d \in Devices : DeletePushSubscription(c, p, d)
  PROVE  Turns(c, Idle) /\ Calm /\ NAlone' /\ todo[c] = Idle
<1>1. NStart(c, Idle) /\ Idle \in Errands
  BY DEF UpdateBranchAnnouncement, ReadAllNotifications, DeletePushSubscription, Errands
<1> QED
  BY <1>1, Starts

\* The last writes of a call.
LEMMA LastStepTurns ==
  ASSUME NTypes, NAlone, NEW c \in NCalls,
         \/ MarkNotifications(c) \/ SyncAnnouncementRead(c) \/ HideOutOfScope(c) \/ DeleteOthers(c)
  PROVE  Turns(c, Idle) /\ Calm /\ NAlone'
<1>1. NGoOn(c, Idle) /\ Idle \in Errands /\ todo[c] # Idle
  BY DEF MarkNotifications, SyncAnnouncementRead, HideOutOfScope, DeleteOthers, Errands, Idle
<1> QED
  BY <1>1, GoesOn

LEMMA SyncAttendanceTurns ==
  ASSUME NTypes, NAlone, NEW c \in NCalls, SyncAttendance(c)
  PROVE  \E b \in Visiting \cup Reminding :
           /\ Turns(c, b) /\ Calm /\ NAlone' /\ b.who = todo[c].who
           /\ \/ b.do = "list"
              \/ /\ b.do = "dup" /\ b \in Reminding
                 /\ b.kind = "late" => came[b.who] # "no"
<1>1. todo[c] \in Visiting /\ todo[c] # Idle
  BY Shapes DEF SyncAttendance, NTypes, Idle
<1>2. CASE NGoOn(c, Listing(c))
  <2>1. PICK b : b = Listing(c)
    OBVIOUS
  <2>2. b \in Visiting /\ b.who = todo[c].who /\ b.do = "list"
    BY <1>1, <2>1 DEF Listing, Visiting
  <2>3. b \in Errands
    BY <2>2 DEF Errands
  <2> QED
    BY <1>1, <1>2, <2>1, <2>2, <2>3, GoesOn
<1>3. ASSUME came[todo[c].who] # "ok",
             NGoOn(c, [do |-> "dup", who |-> todo[c].who, scope |-> todo[c].scope,
                       kind |-> IF came[todo[c].who] = "no" THEN "missing" ELSE "late"])
      PROVE  \E b \in Reminding :
               /\ Turns(c, b) /\ Calm /\ NAlone' /\ b.who = todo[c].who /\ b.do = "dup"
               /\ b.kind = "late" => came[b.who] # "no"
  <2>1. PICK b : b = [do |-> "dup", who |-> todo[c].who, scope |-> todo[c].scope,
                      kind |-> IF came[todo[c].who] = "no" THEN "missing" ELSE "late"]
    OBVIOUS
  <2>2. b \in Reminding /\ b.who = todo[c].who /\ b.do = "dup"
    BY <1>1, <2>1 DEF Reminding, Visiting, Kinds
  <2>3. b.kind = "late" => came[b.who] # "no"
    BY <2>1
  <2>4. b \in Errands
    BY <2>2 DEF Errands
  <2> QED
    BY <1>1, <1>3, <2>1, <2>2, <2>3, <2>4, GoesOn
<1> QED
  BY <1>2, <1>3 DEF SyncAttendance

LEMMA CheckReminderTurns ==
  ASSUME NTypes, NAlone, NEW c \in NCalls, CheckReminder(c)
  PROVE  \E b \in Visiting \cup Reminding :
           /\ Turns(c, b) /\ Calm /\ NAlone' /\ b.who = todo[c].who
           /\ \/ b.do = "list"
              \/ /\ b.do = "remind" /\ b \in Reminding /\ b.kind = todo[c].kind
                 /\ ~HasNotificationToday(b.who, b.kind)
<1>1. todo[c] \in Reminding /\ todo[c] # Idle
  BY Shapes DEF CheckReminder, NTypes, Idle
<1>2. ASSUME HasNotificationToday(todo[c].who, todo[c].kind)
      PROVE  \E b \in Visiting : Turns(c, b) /\ Calm /\ NAlone' /\ b.who = todo[c].who /\ b.do = "list"
  <2>1. PICK b : b = Listing(c)
    OBVIOUS
  <2>2. b \in Visiting /\ b.who = todo[c].who /\ b.do = "list"
    BY <1>1, <2>1 DEF Listing, Visiting, Reminding
  <2>3. b \in Errands /\ NGoOn(c, b)
    BY <1>2, <2>1, <2>2 DEF Errands, CheckReminder
  <2> QED
    BY <1>1, <2>2, <2>3, GoesOn
<1>3. ASSUME ~HasNotificationToday(todo[c].who, todo[c].kind)
      PROVE  \E b \in Reminding :
               /\ Turns(c, b) /\ Calm /\ NAlone' /\ b.who = todo[c].who
               /\ b.do = "remind" /\ b.kind = todo[c].kind
  <2>1. PICK b : b = [todo[c] EXCEPT !.do = "remind"]
    OBVIOUS
  <2>2. b \in Reminding /\ b.who = todo[c].who /\ b.do = "remind" /\ b.kind = todo[c].kind
    BY <1>1, <2>1 DEF Reminding
  <2>3. b \in Errands /\ NGoOn(c, b)
    BY <1>3, <2>1, <2>2 DEF Errands, CheckReminder
  <2> QED
    BY <1>1, <2>2, <2>3, GoesOn
<1>4. CASE HasNotificationToday(todo[c].who, todo[c].kind)
  BY <1>2, <1>4
<1>5. CASE ~HasNotificationToday(todo[c].who, todo[c].kind)
  <2>1. PICK b \in Reminding :
               /\ Turns(c, b) /\ Calm /\ NAlone' /\ b.who = todo[c].who
               /\ b.do = "remind" /\ b.kind = todo[c].kind
    BY <1>3, <1>5
  <2> QED
    BY <1>5, <2>1
<1> QED
  BY <1>4, <1>5

LEMMA MakeReminderTurns ==
  ASSUME NTypes, NAlone, NEW c \in NCalls, MakeReminder(c)
  PROVE  \E b \in Visiting : Turns(c, b) /\ Calm /\ NAlone' /\ b.do = "list" /\ todo[c] \in Reminding
<1>1. todo[c] \in Reminding /\ todo[c] # Idle
  BY Shapes DEF MakeReminder, NTypes, Idle
<1>2. PICK b : b = Listing(c)
  OBVIOUS
<1>3. b \in Visiting /\ b.do = "list"
  BY <1>1, <1>2 DEF Listing, Visiting, Reminding
<1>4. b \in Errands /\ NGoOn(c, b)
  BY <1>2, <1>3 DEF Errands, MakeReminder
<1> QED
  BY <1>1, <1>3, <1>4, GoesOn

LEMMA NotifyDeskTurns ==
  ASSUME NTypes, NAlone, NEW c \in NCalls, NotifyDesk(c)
  PROVE  \E b \in {Idle} \cup Reporting :
           Turns(c, b) /\ Calm /\ NAlone' /\ todo[c] \in Reporting /\ (b # Idle => b.late = todo[c].late)
<1>1. todo[c] \in Reporting /\ todo[c] # Idle
  BY Shapes DEF NotifyDesk, NTypes, Idle
<1>2. CASE NGoOn(c, Idle)
  <2>1. Idle \in Errands
    BY DEF Errands
  <2>2. Turns(c, Idle) /\ Calm /\ NAlone'
    BY <1>1, <1>2, <2>1, GoesOn
  <2> QED
    BY <1>1, <2>2
<1>3. CASE \E p \in todo[c].to : NGoOn(c, [todo[c] EXCEPT !.to = @ \ {p}])
  <2>1. PICK p \in todo[c].to : NGoOn(c, [todo[c] EXCEPT !.to = @ \ {p}])
    BY <1>3
  <2>2. PICK b : b = [todo[c] EXCEPT !.to = @ \ {p}]
    OBVIOUS
  <2>3. b \in Reporting /\ b.late = todo[c].late
    BY <1>1, <2>2 DEF Reporting
  <2>4. b \in Errands
    BY <2>3 DEF Errands
  <2> QED
    BY <1>1, <2>1, <2>2, <2>3, <2>4, GoesOn
<1> QED
  BY <1>2, <1>3 DEF NotifyDesk

LEMMA NotifyManagersTurns ==
  ASSUME NTypes, NAlone, NEW c \in NCalls, NEW s \in Sites, NotifyManagers(c, s)
  PROVE  \E b \in Reporting : Turns(c, b) /\ Calm /\ NAlone' /\ todo[c] = Idle /\ b.late = Nobody
<1>1. PICK b : b = [do |-> "desk", site |-> s, to |-> Supervisors(s) \cup Owners, late |-> Nobody]
  OBVIOUS
<1>2. b \in Reporting /\ b.late = Nobody
  BY <1>1 DEF Reporting, Supervisors, Owners
<1>3. b \in Errands /\ NStart(c, b)
  BY <1>1, <1>2 DEF Errands, NotifyManagers
<1> QED
  BY <1>2, <1>3, Starts

LEMMA CheckInLateTurns ==
  ASSUME NTypes, NAlone, NEW c \in NCalls, NEW p \in Folk, CheckInLate(c, p)
  PROVE  \E b \in Reporting : Turns(c, b) /\ Calm /\ NAlone' /\ todo[c] = Idle /\ b.late = p
<1>1. PICK s \in sites[p] :
        NStart(c, [do |-> "desk", site |-> s, to |-> Supervisors(s) \cup Owners, late |-> p])
  BY DEF CheckInLate
<1>2. PICK b : b = [do |-> "desk", site |-> s, to |-> Supervisors(s) \cup Owners, late |-> p]
  OBVIOUS
<1>3. b \in Reporting /\ b.late = p
  BY <1>1, <1>2 DEF Reporting, Supervisors, Owners, NTypes
<1>4. b \in Errands /\ NStart(c, b)
  BY <1>1, <1>2, <1>3 DEF Errands
<1> QED
  BY <1>3, <1>4, Starts

LEMMA ReadAnnouncementsTurns ==
  ASSUME NTypes, NAlone, NEW c \in NCalls, NEW p \in Folk, NEW some \in SUBSET Posts,
         ReadAnnouncements(c, p, some)
  PROVE  \E b \in Noting : Turns(c, b) /\ Calm /\ NAlone' /\ todo[c] = Idle /\ b.who = p /\ b.posts = some
<1>1. PICK b : b = [do |-> "notes", who |-> p, posts |-> some]
  OBVIOUS
<1>2. b \in Noting /\ b.who = p /\ b.posts = some
  BY <1>1 DEF Noting
<1>3. b \in Errands /\ NStart(c, b)
  BY <1>1, <1>2 DEF Errands, ReadAnnouncements
<1> QED
  BY <1>2, <1>3, Starts

LEMMA ReadNotificationTurns ==
  ASSUME NTypes, NAlone, NEW c \in NCalls, NEW p \in Folk, NEW a \in Posts, ReadNotification(c, p, a)
  PROVE  \E b \in Syncing : Turns(c, b) /\ Calm /\ NAlone' /\ todo[c] = Idle /\ b.who = p /\ b.post = a
<1>1. PICK b : b = [do |-> "reads", who |-> p, post |-> a]
  OBVIOUS
<1>2. b \in Syncing /\ b.who = p /\ b.post = a
  BY <1>1 DEF Syncing
<1>3. b \in Errands /\ NStart(c, b)
  BY <1>1, <1>2 DEF Errands, ReadNotification
<1> QED
  BY <1>2, <1>3, Starts

LEMMA GetNotificationsTurns ==
  ASSUME NTypes, NAlone, NEW c \in NCalls, NEW p \in Folk,
         GetNotifications(c, p) \/ GetNotificationsAgain(c, p)
  PROVE  \E b \in Visiting :
           /\ Turns(c, b) /\ Calm /\ NAlone' /\ todo[c] = Idle /\ b.who = p
           /\ (GetNotifications(c, p) /\ b.do = "sync") \/ (GetNotificationsAgain(c, p) /\ b.do = "list")
<1>1. Scope(p) \in SUBSET Sites
  BY DEF Scope, NTypes
<1>2. CASE GetNotifications(c, p)
  <2>1. PICK b : b = [do |-> "sync", who |-> p, scope |-> Scope(p)]
    OBVIOUS
  <2>2. b \in Visiting /\ b.who = p /\ b.do = "sync"
    BY <1>1, <2>1 DEF Visiting
  <2>3. b \in Errands /\ NStart(c, b)
    BY <1>2, <2>1, <2>2 DEF Errands, GetNotifications
  <2> QED
    BY <1>2, <2>2, <2>3, Starts
<1>3. CASE GetNotificationsAgain(c, p)
  <2>1. PICK b : b = [do |-> "list", who |-> p, scope |-> Scope(p)]
    OBVIOUS
  <2>2. b \in Visiting /\ b.who = p /\ b.do = "list"
    BY <1>1, <2>1 DEF Visiting
  <2>3. b \in Errands /\ NStart(c, b)
    BY <1>3, <2>1, <2>2 DEF Errands, GetNotificationsAgain
  <2> QED
    BY <1>3, <2>2, <2>3, Starts
<1> QED
  BY <1>2, <1>3

LEMMA SavePushTurns ==
  ASSUME NTypes, NAlone, NEW c \in NCalls, NEW p \in Folk, NEW d \in Devices,
         SavePushSubscription(c, p, d)
  PROVE  \E b \in Pruning : Turns(c, b) /\ Calm /\ NAlone' /\ todo[c] = Idle /\ b.who = p /\ b.device = d
<1>1. PICK b : b = [do |-> "only", who |-> p, device |-> d]
  OBVIOUS
<1>2. b \in Pruning /\ b.who = p /\ b.device = d
  BY <1>1 DEF Pruning
<1>3. b \in Errands /\ NStart(c, b)
  BY <1>1, <1>2 DEF Errands, SavePushSubscription
<1> QED
  BY <1>2, <1>3, Starts
------------------------------------------------------------------------------
(* The actions by what they are about: each group leaves the state of the   *)
(* other two alone, and takes up and ends no errand of theirs.              *)
NewsStep ==
  \E c \in NCalls :
    \/ Tell(c) \/ MarkNotifications(c) \/ SyncAnnouncementRead(c) \/ HideOutOfScope(c)
    \/ \E a \in Posts : \/ \E s \in Sites : PublishBranch(c, a, s)
                        \/ \E targets \in SUBSET Sites : PublishDeveloper(c, a, targets)
                        \/ UpdateBranchAnnouncement(c, a)
    \/ \E p \in Folk : \/ \E some \in SUBSET Posts : ReadAnnouncements(c, p, some)
                       \/ \E a \in Posts : ReadNotification(c, p, a)

DayStep ==
  \/ \E c \in NCalls :
       \/ SyncAttendance(c) \/ CheckReminder(c) \/ MakeReminder(c) \/ NotifyDesk(c)
       \/ \E s \in Sites : NotifyManagers(c, s)
       \/ \E p \in Folk : GetNotifications(c, p) \/ GetNotificationsAgain(c, p) \/ CheckInLate(c, p)
  \/ \E p \in Folk : CheckInOnTime(p)
  \/ TimePasses

PushStep ==
  \/ \E c \in NCalls :
       \/ DeleteOthers(c)
       \/ \E p \in Folk, d \in Devices : SavePushSubscription(c, p, d) \/ DeletePushSubscription(c, p, d)
  \/ \E p \in Folk : Push(p) \/ \E d \in Devices : Uninstall(p, d)

RestStep ==
  \/ \E c \in NCalls, p \in Folk : ReadAllNotifications(c, p)
  \/ \E p \in Folk, s \in Sites : ChangeSite(p, s)
  \/ UNCHANGED nvars

LEMMA Divided ==
  ASSUME [NoticesNext]_nvars
  PROVE  NewsStep \/ DayStep \/ PushStep \/ RestStep \/ Restart
BY DEF NoticesNext, NewsStep, DayStep, PushStep, RestStep

newsvars == <<post, reads, told, hidden>>

NewsDo == {"tell", "notes", "reads"}
DayDo == {"sync", "dup", "remind", "desk"}
PushDo == {"only"}

\* No call takes up or ends an errand of the kinds dos.
Apart(dos) ==
  \A c \in NCalls : todo'[c] = todo[c] \/ (todo[c].do \notin dos /\ todo'[c].do \notin dos)

LEMMA TurnsApart ==
  ASSUME NEW dos, NEW c \in NCalls, NEW b, Turns(c, b), todo[c].do \notin dos, b.do \notin dos
  PROVE  Apart(dos)
BY DEF Turns, Apart

\* What the first and the last errand of a call is called.
LEMMA Callings ==
  /\ Idle.do = "nothing"
  /\ \A b \in Posting : b.do = "tell"
  /\ \A b \in Noting : b.do = "notes"
  /\ \A b \in Syncing : b.do = "reads"
  /\ \A b \in Visiting : b.do \in {"sync", "list"}
  /\ \A b \in Reminding : b.do \in {"dup", "remind"}
  /\ \A b \in Reporting : b.do = "desk"
  /\ \A b \in Pruning : b.do = "only"
BY DEF Idle, Posting, Noting, Syncing, Visiting, Reminding, Reporting, Pruning

LEMMA NewsIsApart ==
  ASSUME NTypes, NAlone, NewsStep
  PROVE  /\ NAlone' /\ Calm /\ todo' \in [NCalls -> Errands]
         /\ UNCHANGED <<sites, dayvars, pushvars>> /\ Apart(DayDo \cup PushDo)
<1> USE Callings DEF NewsStep, DayDo, PushDo
<1>1. UNCHANGED <<sites, dayvars, pushvars>>
  BY DEF Tell, MarkNotifications, SyncAnnouncementRead, HideOutOfScope, PublishBranch,
         PublishDeveloper, Publish, UpdateBranchAnnouncement, ReadAnnouncements, ReadNotification,
         deskvars, dayvars, pushvars
<1>2. ASSUME NEW c \in NCalls, Tell(c)
      PROVE  NAlone' /\ Calm /\ todo' \in [NCalls -> Errands] /\ Apart(DayDo \cup PushDo)
  <2>1. PICK b \in {Idle} \cup Posting : Turns(c, b) /\ Calm /\ NAlone'
    BY <1>2, TellTurns
  <2>2. todo[c].do = "tell"
    BY <1>2 DEF Tell
  <2>3. Apart(DayDo \cup PushDo)
    BY <2>1, <2>2, TurnsApart
  <2> QED
    BY <2>1, <2>3 DEF Turns
<1>3. ASSUME NEW c \in NCalls,
             MarkNotifications(c) \/ SyncAnnouncementRead(c) \/ HideOutOfScope(c)
      PROVE  NAlone' /\ Calm /\ todo' \in [NCalls -> Errands] /\ Apart(DayDo \cup PushDo)
  <2>1. Turns(c, Idle) /\ Calm /\ NAlone'
    BY <1>3, LastStepTurns
  <2>2. todo[c].do \in {"notes", "reads", "list"}
    BY <1>3 DEF MarkNotifications, SyncAnnouncementRead, HideOutOfScope
  <2>3. Apart(DayDo \cup PushDo)
    BY <2>1, <2>2, TurnsApart
  <2> QED
    BY <2>1, <2>3 DEF Turns
<1>4. ASSUME NEW c \in NCalls, NEW a \in Posts, UpdateBranchAnnouncement(c, a)
      PROVE  NAlone' /\ Calm /\ todo' \in [NCalls -> Errands] /\ Apart(DayDo \cup PushDo)
  <2>1. Turns(c, Idle) /\ Calm /\ NAlone' /\ todo[c] = Idle
    BY <1>4, OneStepTurns
  <2>2. Apart(DayDo \cup PushDo)
    BY <2>1, TurnsApart
  <2> QED
    BY <2>1, <2>2 DEF Turns
<1>5. ASSUME NEW c \in NCalls, NEW a \in Posts, NEW targets, NEW site, Publish(c, a, targets, site)
      PROVE  NAlone' /\ Calm /\ todo' \in [NCalls -> Errands] /\ Apart(DayDo \cup PushDo)
  <2>1. PICK b \in Posting : Turns(c, b) /\ Calm /\ NAlone' /\ todo[c] = Idle
    BY <1>5, PublishTurns
  <2>2. Apart(DayDo \cup PushDo)
    BY <2>1, TurnsApart
  <2> QED
    BY <2>1, <2>2 DEF Turns
<1>6. ASSUME NEW c \in NCalls, NEW p \in Folk, NEW some \in SUBSET Posts, ReadAnnouncements(c, p, some)
      PROVE  NAlone' /\ Calm /\ todo' \in [NCalls -> Errands] /\ Apart(DayDo \cup PushDo)
  <2>1. PICK b \in Noting : Turns(c, b) /\ Calm /\ NAlone' /\ todo[c] = Idle
    BY <1>6, ReadAnnouncementsTurns
  <2>2. Apart(DayDo \cup PushDo)
    BY <2>1, TurnsApart
  <2> QED
    BY <2>1, <2>2 DEF Turns
<1>7. ASSUME NEW c \in NCalls, NEW p \in Folk, NEW a \in Posts, ReadNotification(c, p, a)
      PROVE  NAlone' /\ Calm /\ todo' \in [NCalls -> Errands] /\ Apart(DayDo \cup PushDo)
  <2>1. PICK b \in Syncing : Turns(c, b) /\ Calm /\ NAlone' /\ todo[c] = Idle
    BY <1>7, ReadNotificationTurns
  <2>2. Apart(DayDo \cup PushDo)
    BY <2>1, TurnsApart
  <2> QED
    BY <2>1, <2>2 DEF Turns
<1> QED
  BY <1>1, <1>2, <1>3, <1>4, <1>5, <1>6, <1>7 DEF PublishBranch, PublishDeveloper

LEMMA DayIsApart ==
  ASSUME NTypes, NAlone, DayStep
  PROVE  /\ NAlone' /\ Calm /\ todo' \in [NCalls -> Errands]
         /\ UNCHANGED <<sites, newsvars, pushvars>> /\ Apart(NewsDo \cup PushDo)
<1> USE Callings DEF NewsDo, PushDo
<1>1. UNCHANGED <<sites, newsvars, pushvars>>
  BY DEF DayStep, SyncAttendance, CheckReminder, MakeReminder, NotifyDesk, NotifyManagers, GetNotifications,
         GetNotificationsAgain, CheckInLate, CheckInOnTime, TimePasses, deskvars, newsvars, pushvars
<1>2. ASSUME NEW c \in NCalls, SyncAttendance(c)
      PROVE  NAlone' /\ Calm /\ todo' \in [NCalls -> Errands] /\ Apart(NewsDo \cup PushDo)
  <2>1. PICK b \in Visiting \cup Reminding : Turns(c, b) /\ Calm /\ NAlone'
    BY <1>2, SyncAttendanceTurns
  <2>2. todo[c].do = "sync"
    BY <1>2 DEF SyncAttendance
  <2>3. Apart(NewsDo \cup PushDo)
    BY <2>1, <2>2, TurnsApart
  <2> QED
    BY <2>1, <2>3 DEF Turns
<1>3. ASSUME NEW c \in NCalls, CheckReminder(c)
      PROVE  NAlone' /\ Calm /\ todo' \in [NCalls -> Errands] /\ Apart(NewsDo \cup PushDo)
  <2>1. PICK b \in Visiting \cup Reminding : Turns(c, b) /\ Calm /\ NAlone'
    BY <1>3, CheckReminderTurns
  <2>2. todo[c].do = "dup"
    BY <1>3 DEF CheckReminder
  <2>3. Apart(NewsDo \cup PushDo)
    BY <2>1, <2>2, TurnsApart
  <2> QED
    BY <2>1, <2>3 DEF Turns
<1>4. ASSUME NEW c \in NCalls, MakeReminder(c)
      PROVE  NAlone' /\ Calm /\ todo' \in [NCalls -> Errands] /\ Apart(NewsDo \cup PushDo)
  <2>1. PICK b \in Visiting : Turns(c, b) /\ Calm /\ NAlone'
    BY <1>4, MakeReminderTurns
  <2>2. todo[c].do = "remind"
    BY <1>4 DEF MakeReminder
  <2>3. Apart(NewsDo \cup PushDo)
    BY <2>1, <2>2, TurnsApart
  <2> QED
    BY <2>1, <2>3 DEF Turns
<1>5. ASSUME NEW c \in NCalls, NotifyDesk(c)
      PROVE  NAlone' /\ Calm /\ todo' \in [NCalls -> Errands] /\ Apart(NewsDo \cup PushDo)
  <2>1. PICK b \in {Idle} \cup Reporting : Turns(c, b) /\ Calm /\ NAlone'
    BY <1>5, NotifyDeskTurns
  <2>2. todo[c].do = "desk"
    BY <1>5 DEF NotifyDesk
  <2>3. Apart(NewsDo \cup PushDo)
    BY <2>1, <2>2, TurnsApart
  <2> QED
    BY <2>1, <2>3 DEF Turns
<1>6. ASSUME NEW c \in NCalls, NEW s \in Sites, NotifyManagers(c, s)
      PROVE  NAlone' /\ Calm /\ todo' \in [NCalls -> Errands] /\ Apart(NewsDo \cup PushDo)
  <2>1. PICK b \in Reporting : Turns(c, b) /\ Calm /\ NAlone' /\ todo[c] = Idle
    BY <1>6, NotifyManagersTurns
  <2>2. Apart(NewsDo \cup PushDo)
    BY <2>1, TurnsApart
  <2> QED
    BY <2>1, <2>2 DEF Turns
<1>7. ASSUME NEW c \in NCalls, NEW p \in Folk, GetNotifications(c, p) \/ GetNotificationsAgain(c, p)
      PROVE  NAlone' /\ Calm /\ todo' \in [NCalls -> Errands] /\ Apart(NewsDo \cup PushDo)
  <2>1. PICK b \in Visiting : Turns(c, b) /\ Calm /\ NAlone' /\ todo[c] = Idle
    BY <1>7, GetNotificationsTurns
  <2>2. Apart(NewsDo \cup PushDo)
    BY <2>1, TurnsApart
  <2> QED
    BY <2>1, <2>2 DEF Turns
<1>8. ASSUME NEW c \in NCalls, NEW p \in Folk, CheckInLate(c, p)
      PROVE  NAlone' /\ Calm /\ todo' \in [NCalls -> Errands] /\ Apart(NewsDo \cup PushDo)
  <2>1. PICK b \in Reporting : Turns(c, b) /\ Calm /\ NAlone' /\ todo[c] = Idle
    BY <1>8, CheckInLateTurns
  <2>2. Apart(NewsDo \cup PushDo)
    BY <2>1, TurnsApart
  <2> QED
    BY <2>1, <2>2 DEF Turns
<1>9. ASSUME (\E p \in Folk : CheckInOnTime(p)) \/ TimePasses
      PROVE  NAlone' /\ Calm /\ todo' \in [NCalls -> Errands] /\ Apart(NewsDo \cup PushDo)
  <2>1. UNCHANGED <<noverlap, restarts, todo>>
    BY <1>9 DEF CheckInOnTime, TimePasses
  <2> QED
    BY <2>1 DEF NAlone, OthersIdle, Calm, NTypes, Apart
<1> QED
  BY <1>1, <1>2, <1>3, <1>4, <1>5, <1>6, <1>7, <1>8, <1>9 DEF DayStep

LEMMA PushIsApart ==
  ASSUME NTypes, NAlone, PushStep
  PROVE  /\ NAlone' /\ Calm /\ todo' \in [NCalls -> Errands]
         /\ UNCHANGED <<sites, newsvars, dayvars>> /\ Apart(NewsDo \cup DayDo)
<1> USE Callings DEF PushStep, NewsDo, DayDo
<1>1. UNCHANGED <<sites, newsvars, dayvars>>
  BY DEF DeleteOthers, SavePushSubscription, DeletePushSubscription, Push, Uninstall, deskvars, newsvars, dayvars
<1>2. ASSUME NEW c \in NCalls, DeleteOthers(c)
      PROVE  NAlone' /\ Calm /\ todo' \in [NCalls -> Errands] /\ Apart(NewsDo \cup DayDo)
  <2>1. Turns(c, Idle) /\ Calm /\ NAlone'
    BY <1>2, LastStepTurns
  <2>2. todo[c].do = "only"
    BY <1>2 DEF DeleteOthers
  <2>3. Apart(NewsDo \cup DayDo)
    BY <2>1, <2>2, TurnsApart
  <2> QED
    BY <2>1, <2>3 DEF Turns
<1>3. ASSUME NEW c \in NCalls, NEW p \in Folk, NEW d \in Devices, SavePushSubscription(c, p, d)
      PROVE  NAlone' /\ Calm /\ todo' \in [NCalls -> Errands] /\ Apart(NewsDo \cup DayDo)
  <2>1. PICK b \in Pruning : Turns(c, b) /\ Calm /\ NAlone' /\ todo[c] = Idle
    BY <1>3, SavePushTurns
  <2>2. Apart(NewsDo \cup DayDo)
    BY <2>1, TurnsApart
  <2> QED
    BY <2>1, <2>2 DEF Turns
<1>4. ASSUME NEW c \in NCalls, NEW p \in Folk, NEW d \in Devices, DeletePushSubscription(c, p, d)
      PROVE  NAlone' /\ Calm /\ todo' \in [NCalls -> Errands] /\ Apart(NewsDo \cup DayDo)
  <2>1. Turns(c, Idle) /\ Calm /\ NAlone' /\ todo[c] = Idle
    BY <1>4, OneStepTurns
  <2>2. Apart(NewsDo \cup DayDo)
    BY <2>1, TurnsApart
  <2> QED
    BY <2>1, <2>2 DEF Turns
<1>5. ASSUME \E p \in Folk : Push(p) \/ \E d \in Devices : Uninstall(p, d)
      PROVE  NAlone' /\ Calm /\ todo' \in [NCalls -> Errands] /\ Apart(NewsDo \cup DayDo)
  <2>1. UNCHANGED <<noverlap, restarts, todo>>
    BY <1>5 DEF Push, Uninstall
  <2> QED
    BY <2>1 DEF NAlone, OthersIdle, Calm, NTypes, Apart
<1> QED
  BY <1>1, <1>2, <1>3, <1>4, <1>5

LEMMA RestIsApart ==
  ASSUME NTypes, NAlone, RestStep
  PROVE  /\ NAlone' /\ Calm /\ todo' \in [NCalls -> Errands]
         /\ UNCHANGED <<newsvars, dayvars, pushvars>> /\ Apart(NewsDo \cup DayDo \cup PushDo)
<1> USE Callings DEF RestStep, NewsDo, DayDo, PushDo
<1>1. UNCHANGED <<newsvars, dayvars, pushvars>>
  BY DEF ReadAllNotifications, ChangeSite, nvars, newsvars, dayvars, pushvars
<1>2. ASSUME NEW c \in NCalls, NEW p \in Folk, ReadAllNotifications(c, p)
      PROVE  NAlone' /\ Calm /\ todo' \in [NCalls -> Errands] /\ Apart(NewsDo \cup DayDo \cup PushDo)
  <2>1. Turns(c, Idle) /\ Calm /\ NAlone' /\ todo[c] = Idle
    BY <1>2, OneStepTurns
  <2>2. Apart(NewsDo \cup DayDo \cup PushDo)
    BY <2>1, TurnsApart
  <2> QED
    BY <2>1, <2>2 DEF Turns
<1>3. ASSUME (\E p \in Folk, s \in Sites : ChangeSite(p, s)) \/ UNCHANGED nvars
      PROVE  NAlone' /\ Calm /\ todo' \in [NCalls -> Errands] /\ Apart(NewsDo \cup DayDo \cup PushDo)
  <2>1. UNCHANGED <<noverlap, restarts, todo>>
    BY <1>3 DEF ChangeSite, nvars
  <2> QED
    BY <2>1 DEF NAlone, OthersIdle, Calm, NTypes, Apart
<1> QED
  BY <1>1, <1>2, <1>3
------------------------------------------------------------------------------
\* What is read away: unread, and about a branch out of the call's scope.
Away(c) ==
  {a \in Posts : /\ told[todo[c].who][a] = "unread" /\ rank[todo[c].who] # "owner"
                 /\ post[a].site # Nobody /\ post[a].site \notin todo[c].scope}

LEMMA Hides ==
  ASSUME NTypes, NEW c \in NCalls, HideOutOfScope(c)
  PROVE  /\ told' = [told EXCEPT ![todo[c].who] =
                       [a \in Posts |-> IF a \in Away(c) THEN "read" ELSE told[todo[c].who][a]]]
         /\ hidden' = hidden \cup ({todo[c].who} \X Away(c))
<1>1. told[todo[c].who] = told[todo[c].who]
  OBVIOUS
<1> QED
  BY DEF HideOutOfScope, Away, NTypes

LEMMA NTypesStep ==
  ASSUME NTypes, NAlone, [NoticesNext]_nvars
  PROVE  NTypes' /\ NAlone'
<1>1. CASE NewsStep
  <2>1. /\ NAlone' /\ Calm /\ todo' \in [NCalls -> Errands] /\ UNCHANGED <<sites, dayvars, pushvars>>
    BY <1>1, NewsIsApart
  <2>2. post' \in [Posts -> Announcements \cup {Nobody}]
    <3>1. ASSUME NEW c \in NCalls, NEW a \in Posts, NEW targets, NEW site \in Sites \cup {Nobody},
                 Publish(c, a, targets, site)
          PROVE  post' \in [Posts -> Announcements \cup {Nobody}]
      <4>1. PICK n : n = [to |-> Recipients(targets), site |-> site, open |-> TRUE]
        OBVIOUS
      <4>2. n \in Announcements
        BY <4>1 DEF Announcements, Recipients
      <4>3. post' = [post EXCEPT ![a] = n]
        BY <3>1, <4>1 DEF Publish
      <4> QED
        BY <4>2, <4>3 DEF NTypes
    <3>2. ASSUME NEW c \in NCalls, NEW a \in Posts, UpdateBranchAnnouncement(c, a)
          PROVE  post' \in [Posts -> Announcements \cup {Nobody}]
      <4>1. PICK n : n = [post[a] EXCEPT !.open = ~@]
        OBVIOUS
      <4>2. post[a] \in Announcements
        BY <3>2 DEF UpdateBranchAnnouncement, NTypes
      <4>3. n \in Announcements
        BY <4>1, <4>2 DEF Announcements
      <4>4. post' = [post EXCEPT ![a] = n]
        BY <3>2, <4>1 DEF UpdateBranchAnnouncement
      <4> QED
        BY <4>3, <4>4 DEF NTypes
    <3>3. CASE UNCHANGED post
      BY <3>3 DEF NTypes
    <3> QED
      BY <1>1, <3>1, <3>2, <3>3
      DEF NewsStep, PublishBranch, PublishDeveloper, Tell, MarkNotifications, SyncAnnouncementRead,
          HideOutOfScope, ReadAnnouncements, ReadNotification
  <2>3. told' \in [Folk -> [Posts -> Marks]]
    <3>1. ASSUME NEW c \in NCalls, Tell(c)
          PROVE  told' \in [Folk -> [Posts -> Marks]]
      <4>1. todo[c] \in Posting
        BY <3>1, Shapes DEF NTypes, Tell
      <4>2. \/ told' = told
            \/ \E p \in todo[c].to : told' = [told EXCEPT ![p][todo[c].post] = "unread"]
        BY <3>1 DEF Tell
      <4>3. ASSUME NEW p \in todo[c].to, told' = [told EXCEPT ![p][todo[c].post] = "unread"]
            PROVE  told' \in [Folk -> [Posts -> Marks]]
        <5>1. p \in Folk /\ told[p] \in [Posts -> Marks]
          BY <4>1 DEF Posting, NTypes
        <5>2. [told[p] EXCEPT ![todo[c].post] = "unread"] \in [Posts -> Marks]
          BY <5>1 DEF Marks
        <5> QED
          BY <4>3, <5>1, <5>2 DEF NTypes
      <4> QED
        BY <4>2, <4>3 DEF NTypes
    <3>2. ASSUME NEW c \in NCalls, MarkNotifications(c)
          PROVE  told' \in [Folk -> [Posts -> Marks]]
      <4>1. todo[c] \in Noting
        BY <3>2, Shapes DEF NTypes, MarkNotifications
      <4> QED
        BY <3>2, <4>1 DEF MarkNotifications, Noting, NTypes, Marks
    <3>3. ASSUME NEW c \in NCalls, HideOutOfScope(c)
          PROVE  told' \in [Folk -> [Posts -> Marks]]
      <4>1. todo[c] \in Visiting
        BY <3>3, Shapes DEF NTypes, HideOutOfScope
      <4>2. told' = [told EXCEPT ![todo[c].who] =
                       [a \in Posts |-> IF a \in Away(c) THEN "read" ELSE told[todo[c].who][a]]]
        BY <3>3, Hides
      <4> QED
        BY <4>1, <4>2 DEF Visiting, NTypes, Marks
    <3>4. ASSUME NEW c \in NCalls, NEW p \in Folk, NEW a \in Posts, ReadNotification(c, p, a)
          PROVE  told' \in [Folk -> [Posts -> Marks]]
      BY <3>4 DEF ReadNotification, NTypes, Marks
    <3>5. CASE UNCHANGED told
      BY <3>5 DEF NTypes
    <3> QED
      BY <1>1, <3>1, <3>2, <3>3, <3>4, <3>5
      DEF NewsStep, Publish, PublishBranch, PublishDeveloper, SyncAnnouncementRead,
          UpdateBranchAnnouncement, ReadAnnouncements
  <2> QED
    BY <2>1, <2>2, <2>3 DEF NTypes, Calm, dayvars, pushvars
<1>2. CASE DayStep
  <2>1. /\ NAlone' /\ Calm /\ todo' \in [NCalls -> Errands] /\ UNCHANGED <<sites, newsvars, pushvars>>
    BY <1>2, DayIsApart
  <2>2. hour' \in {"night", "day"} /\ came' \in [Folk -> {"no", "ok", "late"}]
    BY <1>2 DEF DayStep, SyncAttendance, CheckReminder, MakeReminder, NotifyDesk, NotifyManagers,
                GetNotifications, GetNotificationsAgain, CheckInLate, CheckInOnTime, TimePasses, dayvars, NTypes
  <2>3. reminded' \in [Folk -> [Kinds -> SUBSET {"night", "day"}]]
    <3>1. ASSUME NEW p \in Folk, NEW k \in Kinds, Remind(p, k)
          PROVE  reminded' \in [Folk -> [Kinds -> SUBSET {"night", "day"}]]
      BY <3>1 DEF Remind, NTypes
    <3>2. ASSUME NEW c \in NCalls, MakeReminder(c)
          PROVE  reminded' \in [Folk -> [Kinds -> SUBSET {"night", "day"}]]
      <4>1. todo[c] \in Reminding
        BY <3>2, Shapes DEF NTypes, MakeReminder
      <4> QED
        BY <3>1, <3>2, <4>1 DEF MakeReminder, Reminding
    <3>3. ASSUME NEW c \in NCalls, NotifyDesk(c)
          PROVE  reminded' \in [Folk -> [Kinds -> SUBSET {"night", "day"}]]
      <4>1. todo[c] \in Reporting
        BY <3>3, Shapes DEF NTypes, NotifyDesk
      <4>2. CASE UNCHANGED reminded
        BY <4>2 DEF NTypes
      <4>3. CASE Remind(todo[c].late, "late") /\ todo[c].late # Nobody
        BY <3>1, <4>1, <4>3 DEF Reporting, Kinds
      <4> QED
        BY <3>3, <4>2, <4>3 DEF NotifyDesk
    <3>4. CASE UNCHANGED reminded
      BY <3>4 DEF NTypes
    <3> QED
      BY <1>2, <3>2, <3>3, <3>4
      DEF DayStep, SyncAttendance, CheckReminder, NotifyManagers, GetNotifications,
          GetNotificationsAgain, CheckInLate, CheckInOnTime, TimePasses, dayvars
  <2> QED
    BY <2>1, <2>2, <2>3 DEF NTypes, Calm, newsvars, pushvars
<1>3. CASE PushStep
  <2>1. /\ NAlone' /\ Calm /\ todo' \in [NCalls -> Errands] /\ UNCHANGED <<sites, newsvars, dayvars>>
    BY <1>3, PushIsApart
  <2>2. installed' \in [Folk -> SUBSET Devices]
    <3>1. installed' = installed \/ \E p \in Folk, d \in Devices : installed' = [installed EXCEPT ![p] = @ \ {d}]
      BY <1>3 DEF PushStep, DeleteOthers, SavePushSubscription, DeletePushSubscription, Push, Uninstall
    <3> QED
      BY <3>1 DEF NTypes
  <2>3. latest' \in [Folk -> Devices \cup {Nobody}]
    <3>1. \/ latest' = latest
          \/ \E p \in Folk, d \in Devices :
               latest' = [latest EXCEPT ![p] = d] \/ latest' = [latest EXCEPT ![p] = IF @ = d THEN Nobody ELSE @]
      BY <1>3 DEF PushStep, DeleteOthers, SavePushSubscription, DeletePushSubscription, Push, Uninstall
    <3> QED
      BY <3>1 DEF NTypes
  <2>4. subs' \in [Folk -> SUBSET Devices]
    <3>1. ASSUME NEW c \in NCalls, DeleteOthers(c)
          PROVE  subs' \in [Folk -> SUBSET Devices]
      <4>1. todo[c] \in Pruning
        BY <3>1, Shapes DEF NTypes, DeleteOthers
      <4> QED
        BY <3>1, <4>1 DEF DeleteOthers, KeepOnlyLatestPushSubscription, Pruning, NTypes
    <3>2. ASSUME NEW p \in Folk, NEW d \in Devices, NEW c \in NCalls,
                 SavePushSubscription(c, p, d) \/ DeletePushSubscription(c, p, d)
          PROVE  subs' \in [Folk -> SUBSET Devices]
      <4>1. subs' = [subs EXCEPT ![p] = @ \cup {d}] \/ subs' = [subs EXCEPT ![p] = @ \ {d}]
        BY <3>2 DEF SavePushSubscription, DeletePushSubscription
      <4> QED
        BY <4>1 DEF NTypes
    <3>3. ASSUME NEW p \in Folk, Push(p)
          PROVE  subs' \in [Folk -> SUBSET Devices]
      BY <3>3 DEF Push, NTypes
    <3>4. CASE UNCHANGED subs
      BY <3>4 DEF NTypes
    <3> QED
      BY <1>3, <3>1, <3>2, <3>3, <3>4 DEF PushStep, Uninstall
  <2> QED
    BY <2>1, <2>2, <2>3, <2>4 DEF NTypes, Calm, newsvars, dayvars
<1>4. CASE RestStep
  <2>1. /\ NAlone' /\ Calm /\ todo' \in [NCalls -> Errands] /\ UNCHANGED <<newsvars, dayvars, pushvars>>
    BY <1>4, RestIsApart
  <2>2. sites' \in [Folk -> SUBSET Sites]
    BY <1>4 DEF RestStep, ReadAllNotifications, ChangeSite, nvars, NTypes
  <2> QED
    BY <2>1, <2>2 DEF NTypes, Calm, newsvars, dayvars, pushvars
<1>5. CASE Restart
  <2>1. todo' \in [NCalls -> Errands]
    BY <1>5, Shapes DEF Restart, Errands
  <2>2. NAlone'
    BY <1>5 DEF Restart, NAlone, OthersIdle
  <2>3. restarts' \in Nat
    BY <1>5 DEF Restart, NTypes
  <2> QED
    BY <1>5, <2>1, <2>2, <2>3 DEF Restart, NTypes, deskvars, pushvars
<1> QED
  BY <1>1, <1>2, <1>3, <1>4, <1>5, Divided
------------------------------------------------------------------------------
(* Announcements.                                                           *)

LEMMA NewsFrame ==
  ASSUME NTypes, RInv, Calm, UNCHANGED newsvars, Apart(NewsDo)
  PROVE  RInv'
<1> USE DEF RInv, Intact, Calm, newsvars, Apart, NewsDo
<1>1. SUFFICES ASSUME Intact PROVE RInv'
  OBVIOUS
<1>2. ASSUME NEW p \in Folk, NEW a \in Posts PROVE InHand(p, a)'
  BY <1>1 DEF InHand
<1>3. ASSUME NEW c \in NCalls PROVE NewsOK(todo[c])'
  <2>1. CASE todo'[c] = todo[c]
    BY <1>1, <2>1 DEF NewsOK
  <2>2. CASE todo'[c].do \notin NewsDo
    BY <2>2 DEF NewsOK
  <2> QED
    BY <2>1, <2>2
<1> QED
  BY <1>2, <1>3

\* Without overlap a call that is under way, before or after, is the only one.
LEMMA Only ==
  ASSUME NAlone, NAlone', Calm, ~noverlap, NEW c \in NCalls, NEW b, Turns(c, b),
         todo[c] # Idle \/ b # Idle
  PROVE  \A d \in NCalls \ {c} : todo[d] = Idle /\ todo'[d] = Idle
BY DEF NAlone, OthersIdle, Turns, Calm

\* RInv of the next state, when only call c can be under way there.
LEMMA NewsAfter ==
  ASSUME NEW c \in NCalls, NEW b, Turns(c, b), \A d \in NCalls \ {c} : todo'[d] = Idle,
         \A p \in Folk, a \in Posts : InHand(p, a)', NewsOK(b)'
  PROVE  RInv'
<1>1. ASSUME NEW d \in NCalls PROVE NewsOK(todo[d])'
  BY Callings DEF NewsOK, Turns
<1> QED
  BY <1>1 DEF RInv

LEMMA TellNews ==
  ASSUME NTypes, NAlone, RInv, Intact, NEW c \in NCalls, Tell(c)
  PROVE  RInv'
<1>1. PICK b \in {Idle} \cup Posting :
        Turns(c, b) /\ Calm /\ NAlone' /\ (b # Idle => b.post = todo[c].post)
  BY TellTurns
<1>2. todo[c] \in Posting /\ todo[c] # Idle /\ todo[c].do = "tell"
  BY Shapes DEF Tell, NTypes, Idle
<1>3. \A d \in NCalls \ {c} : todo[d] = Idle /\ todo'[d] = Idle
  BY <1>1, <1>2, Only DEF Intact
<1>4. UNCHANGED <<post, reads, hidden>>
  BY DEF Tell
<1>5. \/ told' = told
      \/ \E p \in todo[c].to : told' = [told EXCEPT ![p][todo[c].post] = "unread"]
  BY DEF Tell
<1>6. post[todo[c].post] # Nobody /\ \A p \in Folk : <<p, todo[c].post>> \notin reads
  BY <1>2 DEF RInv, NewsOK
<1>7. \A p \in Folk, a \in Posts : told'[p][a] = told[p][a] \/ (a = todo[c].post /\ told'[p][a] = "unread")
  <2>1. ASSUME NEW q \in todo[c].to, told' = [told EXCEPT ![q][todo[c].post] = "unread"],
               NEW p \in Folk, NEW a \in Posts
        PROVE  told'[p][a] = told[p][a] \/ (a = todo[c].post /\ told'[p][a] = "unread")
    <3>1. q \in Folk /\ told[q] \in [Posts -> Marks] /\ told[p] \in [Posts -> Marks]
      BY <1>2, <2>1 DEF NTypes, Posting
    <3>2. told'[p] = IF p = q THEN [told[q] EXCEPT ![todo[c].post] = "unread"] ELSE told[p]
      BY <2>1, <3>1 DEF NTypes
    <3> QED
      BY <3>1, <3>2
  <2> QED
    BY <1>5, <2>1
<1>8. ASSUME NEW p \in Folk, NEW a \in Posts PROVE InHand(p, a)'
  <2>1. InHand(p, a)
    BY DEF RInv
  <2>2. ~\E d \in NCalls : todo[d].do \in {"notes", "reads"}
    BY <1>2, <1>3, Callings
  <2> QED
    BY <1>4, <1>6, <1>7, <2>1, <2>2 DEF InHand
<1>9. NewsOK(b)'
  BY <1>1, <1>4, <1>6, Callings DEF NewsOK
<1> QED
  BY <1>1, <1>3, <1>8, <1>9, NewsAfter

LEMMA PublishNews ==
  ASSUME NTypes, NAlone, RInv, Intact, NEW c \in NCalls, NEW a \in Posts, NEW targets,
         NEW site \in Sites \cup {Nobody}, Publish(c, a, targets, site)
  PROVE  RInv'
<1>1. PICK b \in Posting : Turns(c, b) /\ Calm /\ NAlone' /\ todo[c] = Idle /\ b.post = a
  BY PublishTurns
<1>2. b # Idle
  BY Callings DEF Idle
<1>3. \A d \in NCalls \ {c} : todo[d] = Idle /\ todo'[d] = Idle
  BY <1>1, <1>2, Only DEF Intact
<1>4. UNCHANGED <<told, reads, hidden>> /\ post[a] = Nobody
  BY DEF Publish
<1>5. PICK n : n = [to |-> Recipients(targets), site |-> site, open |-> TRUE]
  OBVIOUS
<1>6. n # Nobody
  <2>1. n \in Announcements
    BY <1>5 DEF Announcements, Recipients
  <2> QED
    BY <2>1, AnnouncementsAssumption
<1>7. post' = [post EXCEPT ![a] = n]
  BY <1>5 DEF Publish
<1>8. post'[a] # Nobody /\ \A x \in Posts : post'[x] = Nobody => post[x] = Nobody
  BY <1>6, <1>7 DEF NTypes
<1>9. ASSUME NEW p \in Folk, NEW x \in Posts PROVE InHand(p, x)'
  <2>1. InHand(p, x)
    BY DEF RInv
  <2>2. ~\E d \in NCalls : todo[d].do \in {"notes", "reads"}
    BY <1>1, <1>3, Callings
  <2> QED
    BY <1>4, <1>8, <2>1, <2>2 DEF InHand
<1>10. \A p \in Folk : <<p, a>> \notin reads
  BY <1>4 DEF RInv, InHand
<1>11. NewsOK(b)'
  BY <1>1, <1>4, <1>8, <1>10, Callings DEF NewsOK
<1> QED
  BY <1>1, <1>3, <1>9, <1>11, NewsAfter

LEMMA UpdateNews ==
  ASSUME NTypes, NAlone, RInv, Intact, NEW c \in NCalls, NEW a \in Posts, UpdateBranchAnnouncement(c, a)
  PROVE  RInv'
<1>1. Turns(c, Idle) /\ Calm /\ NAlone' /\ todo[c] = Idle
  BY OneStepTurns
<1>2. UNCHANGED <<told, reads, hidden>> /\ post[a] # Nobody
  BY DEF UpdateBranchAnnouncement
<1>3. PICK n : n = [post[a] EXCEPT !.open = ~@]
  OBVIOUS
<1>4. n # Nobody
  <2>1. post[a] \in Announcements
    BY <1>2 DEF NTypes
  <2>2. n \in Announcements
    BY <1>3, <2>1 DEF Announcements
  <2> QED
    BY <2>2, AnnouncementsAssumption
<1>5. post' = [post EXCEPT ![a] = n]
  BY <1>3 DEF UpdateBranchAnnouncement
<1>6. \A x \in Posts : post'[x] = Nobody <=> post[x] = Nobody
  BY <1>2, <1>4, <1>5 DEF NTypes
<1>7. \A d \in NCalls : todo'[d] = todo[d]
  BY <1>1 DEF Turns
<1>8. ASSUME NEW p \in Folk, NEW x \in Posts PROVE InHand(p, x)'
  BY <1>2, <1>6, <1>7 DEF RInv, InHand
<1>9. ASSUME NEW d \in NCalls PROVE NewsOK(todo[d])'
  <2>1. NewsOK(todo[d]) /\ todo'[d] = todo[d]
    BY <1>7 DEF RInv
  <2>2. todo[d].do = "tell" => todo[d].post \in Posts
    BY Shapes DEF NTypes, Posting
  <2> QED
    BY <1>2, <1>6, <2>1, <2>2 DEF NewsOK
<1> QED
  BY <1>8, <1>9 DEF RInv

LEMMA ReadAnnouncementsNews ==
  ASSUME NTypes, NAlone, RInv, Intact, NEW c \in NCalls, NEW p \in Folk, NEW some \in SUBSET Posts,
         ReadAnnouncements(c, p, some)
  PROVE  RInv'
<1>1. PICK b \in Noting : Turns(c, b) /\ Calm /\ NAlone' /\ todo[c] = Idle /\ b.who = p /\ b.posts = some
  BY ReadAnnouncementsTurns
<1>2. b # Idle /\ b.do = "notes"
  BY Callings DEF Idle
<1>3. \A d \in NCalls \ {c} : todo[d] = Idle /\ todo'[d] = Idle
  BY <1>1, <1>2, Only DEF Intact
<1>4. UNCHANGED <<post, told, hidden>> /\ reads' = reads \cup ({p} \X some)
  BY DEF ReadAnnouncements
<1>5. \A a \in some : post[a] # Nobody
  BY DEF ReadAnnouncements, Listed
<1>6. todo'[c] = b
  BY <1>1 DEF Turns
<1>7. ASSUME NEW q \in Folk, NEW a \in Posts PROVE InHand(q, a)'
  <2>1. InHand(q, a)
    BY DEF RInv
  <2>2. ~\E d \in NCalls : todo[d].do \in {"notes", "reads"}
    BY <1>1, <1>3, Callings
  <2>3. <<q, a>> \in reads' <=> <<q, a>> \in reads \/ (q = p /\ a \in some)
    BY <1>4
  <2> QED
    BY <1>1, <1>2, <1>4, <1>5, <1>6, <2>1, <2>2, <2>3 DEF InHand
<1>8. NewsOK(b)'
  BY <1>1, <1>2, <1>4 DEF NewsOK
<1> QED
  BY <1>1, <1>3, <1>7, <1>8, NewsAfter

LEMMA MarkNews ==
  ASSUME NTypes, NAlone, RInv, Intact, NEW c \in NCalls, MarkNotifications(c)
  PROVE  RInv'
<1>1. Turns(c, Idle) /\ Calm /\ NAlone'
  BY LastStepTurns
<1>2. todo[c] \in Noting /\ todo[c] # Idle /\ todo[c].do = "notes"
  BY Shapes DEF MarkNotifications, NTypes, Idle
<1>3. \A d \in NCalls \ {c} : todo[d] = Idle /\ todo'[d] = Idle
  BY <1>1, <1>2, Only DEF Intact
<1>4. UNCHANGED <<post, reads, hidden>>
  BY DEF MarkNotifications
<1>5. told' = [told EXCEPT ![todo[c].who] = [a \in Posts |->
                 IF a \in todo[c].posts /\ told[todo[c].who][a] = "unread" THEN "read"
                 ELSE told[todo[c].who][a]]]
  BY <1>2 DEF MarkNotifications, NTypes, Noting
<1>6. \A p \in Folk, a \in Posts :
        told'[p][a] = IF p = todo[c].who /\ a \in todo[c].posts /\ told[p][a] = "unread"
                      THEN "read" ELSE told[p][a]
  BY <1>2, <1>5 DEF NTypes, Noting
<1>7. \A a \in todo[c].posts : <<todo[c].who, a>> \in reads
  BY <1>2 DEF RInv, NewsOK
<1>8. ASSUME NEW p \in Folk, NEW a \in Posts PROVE InHand(p, a)'
  <2>1. InHand(p, a)
    BY DEF RInv
  <2>2. \A d \in NCalls : todo[d].do \in {"notes", "reads"} => d = c
    BY <1>2, <1>3, Callings
  <2> QED
    BY <1>2, <1>4, <1>6, <1>7, <2>1, <2>2 DEF InHand
<1>9. NewsOK(Idle)'
  BY Callings DEF NewsOK
<1> QED
  BY <1>1, <1>3, <1>8, <1>9, NewsAfter

LEMMA ReadNotificationNews ==
  ASSUME NTypes, NAlone, RInv, Intact, NEW c \in NCalls, NEW p \in Folk, NEW a \in Posts,
         ReadNotification(c, p, a)
  PROVE  RInv'
<1>1. PICK b \in Syncing : Turns(c, b) /\ Calm /\ NAlone' /\ todo[c] = Idle /\ b.who = p /\ b.post = a
  BY ReadNotificationTurns
<1>2. b # Idle /\ b.do = "reads"
  BY Callings DEF Idle
<1>3. \A d \in NCalls \ {c} : todo[d] = Idle /\ todo'[d] = Idle
  BY <1>1, <1>2, Only DEF Intact
<1>4. UNCHANGED <<post, reads, hidden>> /\ told' = [told EXCEPT ![p][a] = "read"] /\ told[p][a] # "none"
  BY DEF ReadNotification
<1>5. \A q \in Folk, x \in Posts : told'[q][x] = IF q = p /\ x = a THEN "read" ELSE told[q][x]
  BY <1>4 DEF NTypes
<1>6. todo'[c] = b
  BY <1>1 DEF Turns
<1>7. ASSUME NEW q \in Folk, NEW x \in Posts PROVE InHand(q, x)'
  <2>1. InHand(q, x)
    BY DEF RInv
  <2>2. ~\E d \in NCalls : todo[d].do \in {"notes", "reads"}
    BY <1>1, <1>3, Callings
  <2> QED
    BY <1>1, <1>2, <1>4, <1>5, <1>6, <2>1, <2>2 DEF InHand
<1>8. NewsOK(b)'
  BY <1>1, <1>2, <1>5 DEF NewsOK
<1> QED
  BY <1>1, <1>3, <1>7, <1>8, NewsAfter

LEMMA SyncReadNews ==
  ASSUME NTypes, NAlone, RInv, Intact, NEW c \in NCalls, SyncAnnouncementRead(c)
  PROVE  RInv'
<1>1. Turns(c, Idle) /\ Calm /\ NAlone'
  BY LastStepTurns
<1>2. todo[c] \in Syncing /\ todo[c] # Idle /\ todo[c].do = "reads"
  BY Shapes DEF SyncAnnouncementRead, NTypes, Idle
<1>3. \A d \in NCalls \ {c} : todo[d] = Idle /\ todo'[d] = Idle
  BY <1>1, <1>2, Only DEF Intact
<1>4. UNCHANGED <<post, told, hidden>> /\ reads' = reads \cup {<<todo[c].who, todo[c].post>>}
  BY DEF SyncAnnouncementRead
<1>5. told[todo[c].who][todo[c].post] = "read"
  BY <1>2 DEF RInv, NewsOK
<1>6. ASSUME NEW p \in Folk, NEW a \in Posts PROVE InHand(p, a)'
  <2>1. InHand(p, a)
    BY DEF RInv
  <2>2. \A d \in NCalls : todo[d].do \in {"notes", "reads"} => d = c
    BY <1>2, <1>3, Callings
  <2>3. <<p, a>> \in reads' <=> <<p, a>> \in reads \/ (p = todo[c].who /\ a = todo[c].post)
    BY <1>4
  <2> QED
    BY <1>2, <1>4, <1>5, <2>1, <2>2, <2>3 DEF InHand
<1>7. NewsOK(Idle)'
  BY Callings DEF NewsOK
<1> QED
  BY <1>1, <1>3, <1>6, <1>7, NewsAfter

LEMMA HideNews ==
  ASSUME NTypes, NAlone, RInv, Intact, NEW c \in NCalls, HideOutOfScope(c)
  PROVE  RInv'
<1>1. Turns(c, Idle) /\ Calm /\ NAlone'
  BY LastStepTurns
<1>2. todo[c] \in Visiting /\ todo[c] # Idle /\ todo[c].do = "list"
  BY Shapes DEF HideOutOfScope, NTypes, Idle
<1>3. \A d \in NCalls \ {c} : todo[d] = Idle /\ todo'[d] = Idle
  BY <1>1, <1>2, Only DEF Intact
<1>4. UNCHANGED <<post, reads>>
  BY DEF HideOutOfScope
<1>5. told' = [told EXCEPT ![todo[c].who] =
                 [a \in Posts |-> IF a \in Away(c) THEN "read" ELSE told[todo[c].who][a]]]
  BY Hides
<1>6. hidden' = hidden \cup ({todo[c].who} \X Away(c))
  BY Hides
<1>7. \A p \in Folk, a \in Posts :
        told'[p][a] = IF p = todo[c].who /\ a \in Away(c) THEN "read" ELSE told[p][a]
  BY <1>2, <1>5 DEF NTypes, Visiting
<1>8. \A p \in Folk, a \in Posts :
        <<p, a>> \in hidden' <=> <<p, a>> \in hidden \/ (p = todo[c].who /\ a \in Away(c))
  BY <1>6
<1>9. \A a \in Away(c) : told[todo[c].who][a] = "unread"
  BY DEF Away
<1>10. ASSUME NEW p \in Folk, NEW a \in Posts PROVE InHand(p, a)'
  <2>1. InHand(p, a)
    BY DEF RInv
  <2>2. ~\E d \in NCalls : todo[d].do \in {"notes", "reads"}
    BY <1>2, <1>3, Callings
  <2> QED
    BY <1>4, <1>7, <1>8, <1>9, <2>1, <2>2 DEF InHand
<1>11. NewsOK(Idle)'
  BY Callings DEF NewsOK
<1> QED
  BY <1>1, <1>3, <1>10, <1>11, NewsAfter

LEMMA RInvStep ==
  ASSUME NTypes, NAlone, RInv, [NoticesNext]_nvars
  PROVE  RInv'
<1>1. CASE NewsStep /\ Intact
  BY <1>1, TellNews, PublishNews, UpdateNews, ReadAnnouncementsNews, MarkNews, ReadNotificationNews,
     SyncReadNews, HideNews DEF NewsStep, PublishBranch, PublishDeveloper
<1>2. CASE NewsStep /\ ~Intact
  BY <1>2, NewsIsApart DEF RInv, Intact, Calm
<1>3. CASE DayStep \/ PushStep \/ RestStep
  <2>1. Calm /\ UNCHANGED newsvars /\ Apart(NewsDo)
    BY <1>3, DayIsApart, PushIsApart, RestIsApart DEF Apart, newsvars
  <2> QED
    BY <2>1, NewsFrame
<1>4. CASE Restart
  BY <1>4 DEF Restart, RInv, Intact, NTypes
<1> QED
  BY <1>1, <1>2, <1>3, <1>4, Divided
------------------------------------------------------------------------------
(* Reminders.                                                               *)

Apiece == \A c, d \in NCalls : Visits(todo[c]) /\ Visits(todo[d]) /\ c # d => todo[c].who # todo[d].who
NoneBefore == ~noverlap => \A p \in Folk : came[p] = "no" => reminded[p]["late"] = {}

LEMMA DayFrame ==
  ASSUME NTypes, MInv, Calm, UNCHANGED dayvars, Apart(DayDo)
  PROVE  MInv'
<1> USE DEF Calm, dayvars
<1>1. ASSUME NEW c \in NCalls
      PROVE  /\ Visits(todo'[c]) => Visits(todo[c]) /\ todo'[c] = todo[c]
             /\ VisitOK(todo[c])'
  <2>1. CASE todo'[c] = todo[c]
    BY <2>1 DEF MInv, VisitOK, Visits, Excused
  <2>2. CASE todo'[c].do \notin DayDo
    BY <2>2 DEF DayDo, VisitOK, Visits
  <2> QED
    BY <2>1, <2>2 DEF Apart
<1>2. Apiece'
  BY <1>1 DEF Apiece, MInv, Visits
<1>3. OneReminderADay' /\ NoneBefore'
  BY DEF MInv, OneReminderADay, NoneBefore
<1> QED
  BY <1>1, <1>2, <1>3 DEF MInv, Apiece, NoneBefore

\* A call that stops visiting, or that visits the same person as before,
\* leaves the visitors apart.
LEMMA ApieceKept ==
  ASSUME NTypes, MInv, NEW c \in NCalls, NEW b, Turns(c, b),
         Visits(b) => Visits(todo[c]) /\ b.who = todo[c].who
  PROVE  Apiece'
<1>1. ASSUME NEW d \in NCalls, NEW e \in NCalls, Visits(todo'[d]), Visits(todo'[e]), d # e
      PROVE  todo'[d].who # todo'[e].who
  BY <1>1 DEF MInv, Turns
<1> QED
  BY <1>1 DEF Apiece, Visits

\* Steps that make no reminder.
LEMMA NoReminder ==
  ASSUME NTypes, MInv, NEW c \in NCalls, NEW b, Turns(c, b), Calm, VisitOK(b)', Apiece',
         UNCHANGED <<reminded, doubles>>, synced \subseteq synced',
         \A p \in Folk : came[p] # "no" => came'[p] # "no"
  PROVE  MInv'
<1>1. ASSUME NEW d \in NCalls PROVE VisitOK(todo[d])'
  <2>1. CASE d = c
    BY <2>1 DEF Turns
  <2>2. CASE d # c
    <3>1. todo'[d] = todo[d] /\ VisitOK(todo[d]) /\ todo[d] \in Errands
      BY <2>2 DEF Turns, MInv, NTypes
    <3>2. todo[d].do \in {"dup", "remind"} => todo[d].who \in Folk
      BY <3>1, Shapes DEF Reminding
    <3>3. todo[d].do = "desk" => todo[d].late \in Folk \cup {Nobody}
      BY <3>1, Shapes DEF Reporting
    <3> QED
      BY <3>1, <3>2, <3>3 DEF VisitOK, Visits, Excused, Calm
  <2> QED
    BY <2>1, <2>2
<1>2. NoneBefore'
  BY DEF NoneBefore, MInv, Calm
<1>3. OneReminderADay'
  BY DEF OneReminderADay, MInv, Calm
<1> QED
  BY <1>1, <1>2, <1>3 DEF MInv, Apiece, NoneBefore

LEMMA QuietDay ==
  ASSUME NTypes, NAlone, MInv,
         \/ \E c \in NCalls :
              \/ SyncAttendance(c) \/ CheckReminder(c)
              \/ \E s \in Sites : NotifyManagers(c, s)
              \/ \E p \in Folk : GetNotifications(c, p) \/ GetNotificationsAgain(c, p) \/ CheckInLate(c, p)
         \/ \E p \in Folk : CheckInOnTime(p)
         \/ TimePasses
  PROVE  MInv'
<1>1. ASSUME NEW c \in NCalls, SyncAttendance(c) PROVE MInv'
  <2>1. PICK b \in Visiting \cup Reminding :
          /\ Turns(c, b) /\ Calm /\ b.who = todo[c].who
          /\ \/ b.do = "list"
             \/ b.do = "dup" /\ (b.kind = "late" => came[b.who] # "no")
    BY <1>1, SyncAttendanceTurns
  <2>2. UNCHANGED dayvars /\ todo[c].do = "sync" /\ VisitOK(todo[c])
    BY <1>1 DEF SyncAttendance, MInv
  <2>3. Apiece'
    BY <2>1, <2>2, ApieceKept DEF Visits
  <2>4. VisitOK(b)'
    BY <2>1, <2>2 DEF VisitOK, Visits, dayvars
  <2> QED
    BY <2>1, <2>2, <2>3, <2>4, NoReminder DEF dayvars
<1>2. ASSUME NEW c \in NCalls, CheckReminder(c) PROVE MInv'
  <2>1. PICK b \in Visiting \cup Reminding :
          /\ Turns(c, b) /\ Calm /\ b.who = todo[c].who
          /\ \/ b.do = "list"
             \/ /\ b.do = "remind" /\ b.kind = todo[c].kind /\ b \in Reminding
                /\ ~HasNotificationToday(b.who, b.kind)
    BY <1>2, CheckReminderTurns
  <2>2. UNCHANGED dayvars /\ todo[c].do = "dup" /\ VisitOK(todo[c])
    BY <1>2 DEF CheckReminder, MInv
  <2>3. Apiece'
    BY <2>1, <2>2, ApieceKept DEF Visits
  <2>4. VisitOK(b)'
    BY <2>1, <2>2 DEF VisitOK, Visits, dayvars, HasNotificationToday, NTypes, Reminding
  <2> QED
    BY <2>1, <2>2, <2>3, <2>4, NoReminder DEF dayvars
<1>3. ASSUME NEW c \in NCalls, NEW s \in Sites, NotifyManagers(c, s) PROVE MInv'
  <2>1. PICK b \in Reporting : Turns(c, b) /\ Calm /\ b.late = Nobody
    BY <1>3, NotifyManagersTurns
  <2>2. UNCHANGED dayvars
    BY <1>3 DEF NotifyManagers
  <2>3. Apiece'
    BY <2>1, ApieceKept, Callings DEF Visits
  <2>4. VisitOK(b)'
    BY <2>1, Callings DEF VisitOK, Visits
  <2> QED
    BY <2>1, <2>2, <2>3, <2>4, NoReminder DEF dayvars
<1>4. ASSUME NEW c \in NCalls, NEW p \in Folk, GetNotificationsAgain(c, p), ~GetNotifications(c, p) PROVE MInv'
  <2>1. PICK b \in Visiting : Turns(c, b) /\ Calm /\ b.do = "list"
    BY <1>4, GetNotificationsTurns
  <2>2. UNCHANGED dayvars
    BY <1>4 DEF GetNotificationsAgain
  <2>3. Apiece'
    BY <2>1, ApieceKept DEF Visits
  <2>4. VisitOK(b)'
    BY <2>1 DEF VisitOK, Visits
  <2> QED
    BY <2>1, <2>2, <2>3, <2>4, NoReminder DEF dayvars
<1>5. ASSUME NEW c \in NCalls, NEW p \in Folk, GetNotifications(c, p) PROVE MInv'
  <2>1. PICK b \in Visiting : Turns(c, b) /\ Calm /\ b.who = p /\ b.do \in {"sync", "list"}
    BY <1>5, GetNotificationsTurns
  <2>2. /\ UNCHANGED <<came, reminded, doubles>>
        /\ synced' = synced \cup {p} /\ p \notin synced
    BY <1>5 DEF GetNotifications
  <2>3. \A d \in NCalls \ {c} : todo'[d] = todo[d] /\ (Visits(todo[d]) => todo[d].who # p)
    BY <2>1, <2>2 DEF Turns, MInv, VisitOK
  <2>4. Apiece'
    BY <2>1, <2>3 DEF Apiece, MInv, Turns, Visits
  <2>5. VisitOK(b)'
    BY <2>1, <2>2 DEF VisitOK, Visits
  <2> QED
    BY <2>1, <2>2, <2>4, <2>5, NoReminder
<1>6. ASSUME NEW c \in NCalls, NEW p \in Folk, CheckInLate(c, p) PROVE MInv'
  <2>1. PICK b \in Reporting : Turns(c, b) /\ Calm /\ b.late = p
    BY <1>6, CheckInLateTurns
  <2>2. /\ UNCHANGED <<reminded, doubles, synced>>
        /\ came[p] = "no" /\ came' = [came EXCEPT ![p] = "late"]
    BY <1>6 DEF CheckInLate
  <2>3. Apiece'
    BY <2>1, ApieceKept, Callings DEF Visits
  <2>4. VisitOK(b)'
    BY <2>1, <2>2, Callings DEF VisitOK, Visits, MInv, NTypes, Calm
  <2>5. \A q \in Folk : came[q] # "no" => came'[q] # "no"
    BY <2>2 DEF NTypes
  <2> QED
    BY <2>1, <2>2, <2>3, <2>4, <2>5, NoReminder
<1>7. ASSUME NEW p \in Folk, CheckInOnTime(p) PROVE MInv'
  <2>1. /\ UNCHANGED <<noverlap, reminded, doubles, synced, todo>>
        /\ came[p] = "no" /\ came' = [came EXCEPT ![p] = "ok"]
    BY <1>7 DEF CheckInOnTime
  <2>2. \A q \in Folk : came[q] # "no" => came'[q] # "no"
    BY <2>1 DEF NTypes
  <2>3. ASSUME NEW d \in NCalls PROVE VisitOK(todo[d])'
    <3>1. VisitOK(todo[d]) /\ todo[d] \in Errands
      BY DEF MInv, NTypes
    <3>2. todo[d].do \in {"dup", "remind"} => todo[d].who \in Folk
      BY <3>1, Shapes DEF Reminding
    <3>3. todo[d].do = "desk" => todo[d].late \in Folk \cup {Nobody}
      BY <3>1, Shapes DEF Reporting
    <3> QED
      BY <2>1, <2>2, <3>1, <3>2, <3>3 DEF VisitOK, Visits, Excused
  <2>4. Apiece'
    BY <2>1 DEF Apiece, MInv, Visits
  <2>5. NoneBefore'
    BY <2>1, <2>2 DEF NoneBefore, MInv
  <2>6. OneReminderADay'
    BY <2>1 DEF OneReminderADay, MInv
  <2> QED
    BY <2>3, <2>4, <2>5, <2>6 DEF MInv, Apiece, NoneBefore
<1>8. CASE TimePasses
  <2>1. UNCHANGED <<noverlap, came, reminded, doubles, todo>> /\ \A c \in NCalls : todo[c] = Idle
    BY <1>8 DEF TimePasses
  <2>2. \A c \in NCalls : VisitOK(todo[c])'
    BY <2>1, Callings DEF VisitOK, Visits
  <2>3. Apiece'
    BY <2>1, Callings DEF Apiece, Visits
  <2>4. NoneBefore' /\ OneReminderADay'
    BY <2>1 DEF NoneBefore, OneReminderADay, MInv
  <2> QED
    BY <2>2, <2>3, <2>4 DEF MInv, Apiece, NoneBefore
<1> QED
  BY <1>1, <1>2, <1>3, <1>4, <1>5, <1>6, <1>7, <1>8

LEMMA MakeReminderDay ==
  ASSUME NTypes, NAlone, MInv, NEW c \in NCalls, MakeReminder(c)
  PROVE  MInv'
<1>1. PICK b \in Visiting : Turns(c, b) /\ Calm /\ NAlone' /\ b.do = "list" /\ todo[c] \in Reminding
  BY MakeReminderTurns
<1>2. PICK p \in Folk, k \in Kinds : p = todo[c].who /\ k = todo[c].kind
  BY <1>1 DEF Reminding
<1>3. todo[c].do = "remind" /\ Remind(p, k) /\ UNCHANGED <<came, synced>>
  BY <1>2 DEF MakeReminder
<1>4. "day" \notin reminded[p][k] \/ Excused(k)
  BY <1>2, <1>3 DEF MInv, VisitOK
<1>5. \A q \in Folk, l \in Kinds : q # p \/ l # k => reminded'[q][l] = reminded[q][l]
  BY <1>3 DEF Remind, NTypes
<1>6. OneReminderADay'
  <2>1. reminded[p][k] \in SUBSET {"night", "day"}
    BY DEF NTypes
  <2>2. ASSUME NEW x \in doubles' PROVE "night" \in x[3] \/ (noverlap /\ x[2] = "late")
    <3>1. CASE x \in doubles
      BY <3>1 DEF MInv, OneReminderADay
    <3>2. CASE x \notin doubles
      <4>1. x = <<p, k, reminded[p][k]>> /\ reminded[p][k] # {}
        BY <1>3, <3>2 DEF Remind
      <4>2. x[2] = k /\ x[3] = reminded[p][k]
        BY <4>1
      <4> QED
        BY <1>4, <2>1, <4>1, <4>2 DEF Excused
    <3> QED
      BY <3>1, <3>2
  <2> QED
    BY <1>1, <2>2 DEF OneReminderADay, Calm
<1>7. Apiece'
  BY <1>1, ApieceKept DEF Visits
<1>8. ASSUME NEW d \in NCalls PROVE VisitOK(todo[d])'
  <2>1. CASE d = c
    BY <1>1, <2>1 DEF Turns, VisitOK, Visits
  <2>2. CASE d # c
    <3>1. todo'[d] = todo[d] /\ VisitOK(todo[d]) /\ todo[d] \in Errands
      BY <1>1, <2>2 DEF Turns, MInv, NTypes
    <3>2. Visits(todo[d]) => todo[d].who # p
      BY <1>2, <1>3, <2>2 DEF MInv, Visits
    <3>3. todo[d].do \in {"dup", "remind"} => todo[d].who \in Folk /\ todo[d].kind \in Kinds
      BY <3>1, Shapes DEF Reminding
    <3>4. todo[d].do = "desk" => noverlap
      BY <1>3, <2>2, Callings DEF NAlone, OthersIdle
    <3> QED
      BY <1>1, <1>3, <1>5, <3>1, <3>2, <3>3, <3>4 DEF VisitOK, Visits, Excused, Calm
  <2> QED
    BY <2>1, <2>2
<1>9. NoneBefore'
  <2>1. k = "late" => came[p] # "no"
    BY <1>2, <1>3 DEF MInv, VisitOK
  <2> QED
    BY <1>1, <1>3, <1>5, <2>1 DEF NoneBefore, MInv, Calm, Kinds
<1> QED
  BY <1>6, <1>7, <1>8, <1>9 DEF MInv, Apiece, NoneBefore

LEMMA NotifyDeskDay ==
  ASSUME NTypes, NAlone, MInv, NEW c \in NCalls, NotifyDesk(c)
  PROVE  MInv'
<1>1. PICK b \in {Idle} \cup Reporting :
        Turns(c, b) /\ Calm /\ NAlone' /\ todo[c] \in Reporting /\ (b # Idle => b.late = todo[c].late)
  BY NotifyDeskTurns
<1>2. Apiece'
  BY <1>1, ApieceKept, Callings DEF Visits
<1>3. todo[c].do = "desk" /\ UNCHANGED <<came, synced>>
  BY DEF NotifyDesk
<1>4. CASE UNCHANGED <<reminded, doubles>>
  <2>1. VisitOK(b)'
    BY <1>1, <1>3, <1>4, Callings DEF VisitOK, Visits, MInv, Calm
  <2> QED
    BY <1>1, <1>2, <1>3, <1>4, <2>1, NoReminder
<1>5. ASSUME todo[c].late # Nobody, Remind(todo[c].late, "late"), todo'[c] = Idle
      PROVE  MInv'
  <2>1. PICK p \in Folk : p = todo[c].late
    BY <1>1, <1>5 DEF Reporting
  <2>2. came[p] # "no" /\ (noverlap \/ reminded[p]["late"] = {})
    BY <1>3, <1>5, <2>1 DEF MInv, VisitOK
  <2>3. \A q \in Folk, l \in Kinds : q # p \/ l # "late" => reminded'[q][l] = reminded[q][l]
    BY <1>5, <2>1 DEF Remind, NTypes
  <2>4. OneReminderADay'
    <3>1. ASSUME NEW x \in doubles' PROVE "night" \in x[3] \/ (noverlap /\ x[2] = "late")
      <4>1. CASE x \in doubles
        BY <4>1 DEF MInv, OneReminderADay
      <4>2. CASE x \notin doubles
        <5>1. x = <<p, "late", reminded[p]["late"]>> /\ reminded[p]["late"] # {}
          BY <1>5, <2>1, <4>2 DEF Remind
        <5> QED
          BY <2>2, <5>1
      <4> QED
        BY <4>1, <4>2
    <3> QED
      BY <1>1, <3>1 DEF OneReminderADay, Calm
  <2>5. ASSUME NEW d \in NCalls PROVE VisitOK(todo[d])'
    <3>1. CASE d = c
      BY <1>5, <3>1, Callings DEF VisitOK, Visits
    <3>2. CASE d # c /\ ~noverlap
      <4>1. todo[d] = Idle
        BY <1>3, <3>2, Callings DEF NAlone, OthersIdle
      <4>2. todo'[d] = Idle
        BY <1>1, <3>2, <4>1 DEF Turns
      <4> QED
        BY <4>2, Callings DEF VisitOK, Visits
    <3>3. CASE d # c /\ noverlap
      <4>1. todo'[d] = todo[d] /\ VisitOK(todo[d]) /\ todo[d] \in Errands
        BY <1>1, <3>3 DEF Turns, MInv, NTypes
      <4>2. todo[d].do \in {"dup", "remind"} => todo[d].who \in Folk /\ todo[d].kind \in Kinds
        BY <4>1, Shapes DEF Reminding
      <4> QED
        BY <1>1, <1>3, <2>3, <3>3, <4>1, <4>2 DEF VisitOK, Visits, Excused, Calm
    <3> QED
      BY <3>1, <3>2, <3>3
  <2>6. NoneBefore'
    BY <1>1, <1>3, <2>2, <2>3 DEF NoneBefore, MInv, Calm, Kinds
  <2> QED
    BY <1>2, <2>4, <2>5, <2>6 DEF MInv, Apiece, NoneBefore
<1>6. \/ UNCHANGED <<reminded, doubles>>
      \/ todo[c].late # Nobody /\ Remind(todo[c].late, "late") /\ NGoOn(c, Idle)
  BY DEF NotifyDesk
<1>7. NGoOn(c, Idle) => todo'[c] = Idle
  BY DEF NGoOn, NTypes
<1> QED
  BY <1>4, <1>5, <1>6, <1>7

LEMMA MInvStep ==
  ASSUME NTypes, NAlone, MInv, [NoticesNext]_nvars
  PROVE  MInv'
<1>1. CASE DayStep
  BY <1>1, QuietDay, MakeReminderDay, NotifyDeskDay DEF DayStep
<1>2. CASE NewsStep \/ PushStep \/ RestStep
  <2>1. Calm /\ UNCHANGED dayvars /\ Apart(DayDo)
    BY <1>2, NewsIsApart, PushIsApart, RestIsApart DEF Apart
  <2> QED
    BY <2>1, DayFrame
<1>3. CASE Restart
  <2>1. UNCHANGED <<noverlap, came, reminded, doubles>> /\ \A c \in NCalls : todo'[c] = Idle
    BY <1>3 DEF Restart
  <2>2. \A c \in NCalls : VisitOK(todo[c])'
    BY <2>1, Callings DEF VisitOK, Visits
  <2>3. Apiece'
    BY <2>1, Callings DEF Apiece, Visits
  <2>4. NoneBefore' /\ OneReminderADay'
    BY <2>1 DEF NoneBefore, OneReminderADay, MInv
  <2> QED
    BY <2>2, <2>3, <2>4 DEF MInv, Apiece, NoneBefore
<1> QED
  BY <1>1, <1>2, <1>3, Divided
------------------------------------------------------------------------------
(* Devices.                                                                 *)

LEMMA PushFrame ==
  ASSUME NTypes, DInv, Calm, UNCHANGED pushvars, Apart(PushDo)
  PROVE  DInv'
<1> USE DEF DInv, Calm, pushvars
<1>1. \A c \in NCalls : (todo[c].do = "only" \/ todo'[c].do = "only") => todo'[c] = todo[c]
  BY DEF Apart, PushDo
<1>2. ASSUME restarts = 0, NEW p \in Folk
      PROVE  One(p)' \/ \E c \in NCalls : todo'[c].do = "only" /\ todo'[c].who = p
  BY <1>1, <1>2 DEF One
<1>3. ASSUME ~noverlap, restarts = 0, NEW p \in Folk PROVE Kept(p)'
  BY <1>3 DEF Kept
<1>4. ASSUME ~noverlap, NEW c \in NCalls, todo'[c].do = "only"
      PROVE  latest'[todo'[c].who] = todo'[c].device
  BY <1>1, <1>4
<1> QED
  BY <1>2, <1>3, <1>4

LEMMA SavePush ==
  ASSUME NTypes, NAlone, DInv, NEW c \in NCalls, NEW p \in Folk, NEW d \in Devices,
         SavePushSubscription(c, p, d)
  PROVE  DInv'
<1>1. PICK b \in Pruning : Turns(c, b) /\ Calm /\ NAlone' /\ todo[c] = Idle /\ b.who = p /\ b.device = d
  BY SavePushTurns
<1>2. /\ subs' = [subs EXCEPT ![p] = @ \cup {d}] /\ latest' = [latest EXCEPT ![p] = d]
      /\ UNCHANGED installed
  BY DEF SavePushSubscription
<1>3. todo'[c] = b /\ b.do = "only" /\ \A e \in NCalls \ {c} : todo'[e] = todo[e]
  BY <1>1, Callings DEF Turns
<1>4. \A q \in Folk \ {p} : subs'[q] = subs[q] /\ latest'[q] = latest[q]
  BY <1>2 DEF NTypes
<1>5. d \in subs'[p] /\ latest'[p] = d
  BY <1>2 DEF NTypes
<1>6. ASSUME restarts = 0, NEW q \in Folk
      PROVE  One(q)' \/ \E e \in NCalls : todo'[e].do = "only" /\ todo'[e].who = q
  <2>1. CASE q = p
    BY <1>1, <1>3, <2>1
  <2>2. CASE q # p /\ One(q)
    BY <1>4, <2>2 DEF One
  <2>3. CASE q # p /\ \E e \in NCalls : todo[e].do = "only" /\ todo[e].who = q
    BY <1>1, <1>3, <2>3, Callings
  <2> QED
    BY <1>6, <2>1, <2>2, <2>3 DEF DInv
<1>7. ASSUME ~noverlap, restarts = 0, NEW q \in Folk PROVE Kept(q)'
  BY <1>2, <1>4, <1>5, <1>7 DEF Kept, DInv
<1>8. ASSUME ~noverlap, NEW e \in NCalls, todo'[e].do = "only"
      PROVE  latest'[todo'[e].who] = todo'[e].device
  <2>1. b # Idle
    BY <1>3, Callings
  <2>2. e = c
    BY <1>1, <1>8, <2>1, Only, Callings
  <2> QED
    BY <1>1, <1>3, <1>5, <2>2
<1> QED
  BY <1>1, <1>6, <1>7, <1>8 DEF DInv, Calm

LEMMA PrunePush ==
  ASSUME NTypes, NAlone, DInv, NEW c \in NCalls, DeleteOthers(c)
  PROVE  DInv'
<1>1. Turns(c, Idle) /\ Calm /\ NAlone'
  BY LastStepTurns
<1>2. todo[c] \in Pruning /\ todo[c] # Idle /\ todo[c].do = "only"
  BY Shapes DEF DeleteOthers, NTypes, Idle
<1>3. PICK p \in Folk, d \in Devices : p = todo[c].who /\ d = todo[c].device
  BY <1>2 DEF Pruning
<1>4. subs' = [subs EXCEPT ![p] = subs[p] \cap {d}] /\ UNCHANGED <<installed, latest>>
  BY <1>3 DEF DeleteOthers, KeepOnlyLatestPushSubscription
<1>5. subs'[p] = subs[p] \cap {d} /\ \A q \in Folk \ {p} : subs'[q] = subs[q]
  BY <1>4 DEF NTypes
<1>6. todo'[c] = Idle /\ \A e \in NCalls \ {c} : todo'[e] = todo[e]
  BY <1>1 DEF Turns
<1>7. ASSUME restarts = 0, NEW q \in Folk
      PROVE  One(q)' \/ \E e \in NCalls : todo'[e].do = "only" /\ todo'[e].who = q
  <2>1. CASE q = p
    BY <1>5, <2>1 DEF One
  <2>2. CASE q # p /\ One(q)
    BY <1>5, <2>2 DEF One
  <2>3. CASE q # p /\ \E e \in NCalls : todo[e].do = "only" /\ todo[e].who = q
    BY <1>3, <1>6, <2>3
  <2> QED
    BY <1>7, <2>1, <2>2, <2>3 DEF DInv
<1>8. ASSUME ~noverlap, restarts = 0, NEW q \in Folk PROVE Kept(q)'
  <2>1. latest[p] = d
    BY <1>2, <1>3, <1>8 DEF DInv
  <2>2. Kept(q)
    BY <1>8 DEF DInv
  <2> QED
    BY <1>4, <1>5, <2>1, <2>2 DEF Kept
<1>9. ASSUME ~noverlap, NEW e \in NCalls, todo'[e].do = "only"
      PROVE  latest'[todo'[e].who] = todo'[e].device
  BY <1>1, <1>2, <1>6, <1>9, Only, Callings
<1> QED
  BY <1>1, <1>7, <1>8, <1>9 DEF DInv, Calm

LEMMA DeletePush ==
  ASSUME NTypes, NAlone, DInv, NEW c \in NCalls, NEW p \in Folk, NEW d \in Devices,
         DeletePushSubscription(c, p, d)
  PROVE  DInv'
<1>1. Turns(c, Idle) /\ Calm /\ NAlone' /\ todo[c] = Idle
  BY OneStepTurns
<1>2. /\ subs' = [subs EXCEPT ![p] = @ \ {d}]
      /\ latest' = [latest EXCEPT ![p] = IF @ = d THEN Nobody ELSE @]
      /\ UNCHANGED installed
      /\ noverlap \/ \A e \in NCalls : todo[e] = Idle
  BY DEF DeletePushSubscription, NStart
<1>3. \A e \in NCalls : todo'[e] = todo[e]
  BY <1>1 DEF Turns
<1>4. \A q \in Folk : /\ subs'[q] = IF q = p THEN subs[q] \ {d} ELSE subs[q]
                      /\ latest'[q] = IF q = p /\ latest[q] = d THEN Nobody ELSE latest[q]
  BY <1>2 DEF NTypes
<1>5. ASSUME restarts = 0, NEW q \in Folk
      PROVE  One(q)' \/ \E e \in NCalls : todo'[e].do = "only" /\ todo'[e].who = q
  <2>1. subs'[q] \subseteq subs[q]
    BY <1>4
  <2> QED
    BY <1>3, <1>5, <2>1 DEF DInv, One
<1>6. ASSUME ~noverlap, restarts = 0, NEW q \in Folk PROVE Kept(q)'
  <2>1. Nobody \notin installed[q]
    BY NoticesAssumption DEF NTypes
  <2>2. Kept(q)
    BY <1>6 DEF DInv
  <2> QED
    BY <1>2, <1>4, <2>1, <2>2 DEF Kept
<1>7. ASSUME ~noverlap, NEW e \in NCalls, todo'[e].do = "only"
      PROVE  latest'[todo'[e].who] = todo'[e].device
  BY <1>2, <1>3, <1>7, Callings
<1> QED
  BY <1>1, <1>5, <1>6, <1>7 DEF DInv, Calm

\* The push service: what is gone is dropped, and devices go.
LEMMA FewerDevices ==
  ASSUME NTypes, DInv, NEW p \in Folk, Push(p) \/ \E d \in Devices : Uninstall(p, d)
  PROVE  DInv'
<1>1. UNCHANGED <<noverlap, restarts, todo, latest>>
  BY DEF Push, Uninstall
<1>2. \A q \in Folk : /\ subs'[q] \subseteq subs[q] /\ installed'[q] \subseteq installed[q]
                      /\ subs[q] \cap installed'[q] \subseteq subs'[q]
  BY DEF Push, Uninstall, NTypes
<1>3. ASSUME restarts = 0, NEW q \in Folk
      PROVE  One(q)' \/ \E e \in NCalls : todo'[e].do = "only" /\ todo'[e].who = q
  BY <1>1, <1>2, <1>3 DEF DInv, One
<1>4. ASSUME ~noverlap, restarts = 0, NEW q \in Folk PROVE Kept(q)'
  BY <1>1, <1>2, <1>4 DEF DInv, Kept
<1> QED
  BY <1>1, <1>3, <1>4 DEF DInv

LEMMA DInvStep ==
  ASSUME NTypes, NAlone, DInv, [NoticesNext]_nvars
  PROVE  DInv'
<1>1. CASE PushStep
  BY <1>1, SavePush, PrunePush, DeletePush, FewerDevices DEF PushStep
<1>2. CASE NewsStep \/ DayStep \/ RestStep
  <2>1. Calm /\ UNCHANGED pushvars /\ Apart(PushDo)
    BY <1>2, NewsIsApart, DayIsApart, RestIsApart DEF Apart
  <2> QED
    BY <2>1, PushFrame
<1>3. CASE Restart
  <2>1. restarts' # 0 /\ \A c \in NCalls : todo'[c] = Idle
    BY <1>3 DEF Restart, NTypes
  <2> QED
    BY <2>1, Callings DEF DInv
<1> QED
  BY <1>1, <1>2, <1>3, Divided
------------------------------------------------------------------------------
(* The theorems.                                                            *)

LEMMA IInvInit ==
  ASSUME NoticesInit
  PROVE  IInv
<1> USE DEF NoticesInit
<1>1. NTypes
  <2>1. todo \in [NCalls -> Errands]
    BY DEF Errands
  <2>2. told \in [Folk -> [Posts -> Marks]]
    BY DEF Marks
  <2>3. reminded \in [Folk -> [Kinds -> SUBSET {"night", "day"}]]
    OBVIOUS
  <2> QED
    BY <2>1, <2>2, <2>3 DEF NTypes
<1>2. NAlone
  BY DEF NAlone
<1>3. RInv
  BY Callings DEF RInv, InHand, NewsOK
<1>4. MInv
  BY Callings DEF MInv, OneReminderADay, VisitOK, Visits, Kinds
<1>5. DInv
  BY NoticesAssumption, Callings DEF DInv, One, Kept
<1> QED
  BY <1>1, <1>2, <1>3, <1>4, <1>5 DEF IInv

LEMMA IInvHolds == NoticesSpec => []IInv
<1>1. NoticesInit => IInv
  BY IInvInit
<1>2. IInv /\ [NoticesNext]_nvars => IInv'
  <2>1. SUFFICES ASSUME IInv, [NoticesNext]_nvars PROVE IInv'
    OBVIOUS
  <2> QED
    BY <2>1, NTypesStep, RInvStep, MInvStep, DInvStep DEF IInv
<1> QED
  BY <1>1, <1>2, PTL DEF NoticesSpec

LEMMA ReadTogetherFollows == IInv => ReadTogether
<1>1. SUFFICES ASSUME IInv, ~noverlap, restarts = 0, Quiet, NEW p \in Folk, NEW a \in Posts
               PROVE  /\ told[p][a] = "unread" => <<p, a>> \notin reads
                      /\ told[p][a] = "read" => <<p, a>> \in reads \cup hidden
  BY DEF ReadTogether
<1>2. InHand(p, a)
  BY <1>1 DEF IInv, RInv, Intact
<1>3. ~\E c \in NCalls : todo[c].do \in {"notes", "reads"}
  BY <1>1, Callings DEF Quiet
<1> QED
  BY <1>2, <1>3 DEF InHand

LEMMA OneDeviceFollows == IInv => OneDevice
<1>1. SUFFICES ASSUME IInv, Quiet, restarts = 0, NEW p \in Folk
               PROVE  /\ Cardinality(subs[p]) <= 1
                      /\ ~noverlap /\ latest[p] \in installed[p] => latest[p] \in subs[p]
  BY DEF OneDevice
<1>2. One(p)
  BY <1>1, Callings DEF IInv, DInv, Quiet
<1>3. Cardinality(subs[p]) <= 1
  <2>1. CASE subs[p] = {}
    BY <2>1, FS_EmptySet
  <2>2. CASE subs[p] # {}
    <3>1. PICK d \in subs[p] : TRUE
      BY <2>2
    <3>2. subs[p] = {d}
      BY <1>2, <3>1 DEF One
    <3>3. Cardinality(subs[p]) = 1
      BY <3>2, FS_Singleton, Zenon
    <3> QED
      BY <3>3
  <2> QED
    BY <2>1, <2>2
<1>4. ~noverlap => Kept(p)
  BY <1>1 DEF IInv, DInv
<1> QED
  BY <1>3, <1>4 DEF Kept

\* One call at a time and none lost, an announcement and a person's
\* notification about it are read together, whichever of the two he read: the
\* routes for announcements and for notifications each mend the other's mark
\* (markAnnouncementNotificationsRead, syncAnnouncementReadFromNotification).
THEOREM ReadAsOne == NoticesSpec => []ReadTogether
BY IInvHolds, ReadTogetherFollows, PTL

\* Nobody is reminded twice a day of the same, restarts and overlapping calls
\* included, but for a reminder of before 07:00 and a late check-in that is
\* being reported (hasNotificationToday, shouldSyncReminders).
THEOREM RemindedOnce == NoticesSpec => []OneReminderADay
<1>1. IInv => OneReminderADay
  BY DEF IInv, MInv
<1> QED
  BY <1>1, IInvHolds, PTL

\* A person has at most one device when no call is under way, however they
\* overlapped, and one call at a time it is the one that he saved last
\* (keepOnlyLatestPushSubscription).
THEOREM LastDeviceOnly == NoticesSpec => []OneDevice
BY IInvHolds, OneDeviceFollows, PTL
==============================================================================
