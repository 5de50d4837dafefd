--------------------------- MODULE JobParts_proofs ----------------------------
(***************************************************************************)
(* What is proved of the background jobs, for every value of their         *)
(* parameters.                                                             *)
(***************************************************************************)
EXTENDS JobParts, FiniteSetTheorems, WellFoundedInduction, TLAPS

-----------------------------------------------------------------------------
(***************************************************************************)
(* The stored candles, for any page, configuration and number of jobs.     *)
(* The invariant looks at every job under way: what it will fetch or has   *)
(* still to write begins no higher than the bars that are accounted for    *)
(* (Reaches), and no higher than the bars recorded while forming (Renews). *)
(* At most one bar passes while a job is under way (InTime): two seeds     *)
(* begin a bar apart at most, so either finds what the other left.         *)
(***************************************************************************)

FetchPlan == [at : {"fetch"}, deep : BOOLEAN, from : Nat, late : BOOLEAN, limit : Nat]
SavePlan == [at : {"save"}, late : BOOLEAN, todo : SUBSET Candles!Bars, seen : Candles!Bars]

CandlesTypes ==
    /\ candles_now \in Candles!Bars /\ faults \in 0 .. MaxFaults /\ seeded \in 0 .. candles_Horizon
    /\ stored \in [Candles!Bars -> {"none", "partial", "final"}]
    /\ candles_job \in [candles_Jobs -> {Candles!Idle} \cup FetchPlan \cup SavePlan]
    /\ blind \subseteq Candles!Bars /\ lost \subseteq Candles!Bars /\ seams \subseteq Candles!Bars
    /\ stale \subseteq Candles!Bars

Fetches(j) == candles_job[j].at = "fetch"
Saves(j) == candles_job[j].at = "save"

InTime ==
    /\ Candles!Recorded # {} => seeded \in Candles!Bars
    /\ \A b \in Candles!Recorded : b <= candles_now /\ b \notin Unusable
    /\ \A b \in blind : b <= candles_now
    /\ \A j \in candles_Jobs : Fetches(j) =>
         IF candles_job[j].deep THEN Candles!Recorded # {} /\ candles_job[j].from + Page <= candles_now + 1 /\ 1 <= candles_job[j].from
         ELSE candles_job[j].limit >= base /\ (Candles!Recorded = {} => candles_job[j].limit = base)
    /\ \A j \in candles_Jobs : Saves(j) =>
         /\ candles_job[j].todo # {}
         /\ \A c \in candles_job[j].todo : c <= candles_job[j].seen /\ c \notin Unusable
         /\ candles_job[j].seen = candles_now \/ (candles_job[j].late /\ candles_job[j].seen = candles_now - 1)

\* No hole can be left at b.
Accounted(b) == b \in Candles!Recorded \cup Unusable \cup lost \cup blind \/ b - 1 \in seams
\* A bar recorded while it was forming may stay so.
Excused(b) == b \in seams \cup lost \cup stale \cup blind

FetchReaches(j) ==
    Candles!Recorded # {} =>
      \A b \in Candles!Bars : seeded <= b =>
        IF candles_job[j].deep THEN b < candles_job[j].from => Accounted(b)
        ELSE /\ b + candles_job[j].limit <= candles_now => Accounted(b)
             /\ ~candles_job[j].late /\ b + candles_job[j].limit <= candles_now + 1 =>
                  \/ Accounted(b)
                  \/ \E other \in candles_Jobs :
                       Saves(other) /\ candles_job[other].late /\ b \in candles_job[other].todo

SaveReaches(j) ==
    IF Candles!Recorded = {}
    THEN /\ \A b \in Candles!Bars : candles_job[j].seen < b + base /\ b <= candles_job[j].seen =>
              b \in candles_job[j].todo \cup Unusable \cup lost
         /\ \A c \in candles_job[j].todo : candles_job[j].seen < c + base
    ELSE \A b \in Candles!Bars, c \in candles_job[j].todo : seeded <= b /\ b < c =>
           b \in candles_job[j].todo \/ Accounted(b)

Reaches ==
    /\ \A b \in Candles!Bars, r \in Candles!Recorded : seeded <= b /\ b <= r => Accounted(b)
    /\ \A j \in candles_Jobs : Fetches(j) => FetchReaches(j)
    /\ \A j \in candles_Jobs : Saves(j) => SaveReaches(j)

FetchRenews(j) ==
    \A b \in Candles!Bars : stored[b] = "partial" =>
      \/ Excused(b)
      \/ IF candles_job[j].deep THEN candles_job[j].from <= b
         ELSE candles_now < b + candles_job[j].limit /\ (~candles_job[j].late => candles_now + 1 < b + candles_job[j].limit)

SaveRenews(j) ==
    /\ \A b \in Candles!Bars, c \in candles_job[j].todo : stored[b] = "partial" /\ b < c =>
         b \in candles_job[j].todo \/ Excused(b)
    /\ candles_job[j].seen \in candles_job[j].todo /\ candles_job[j].seen - 1 \in Candles!Bars =>
         \/ candles_job[j].seen - 1 \in candles_job[j].todo \cup Unusable \cup lost \cup stale
         \/ stored[candles_job[j].seen - 1] = "final"

Renews ==
    /\ \A b \in Candles!Bars, r \in Candles!Recorded : stored[b] = "partial" /\ b < r => Excused(b)
    /\ \A j \in candles_Jobs : Fetches(j) => FetchRenews(j)
    /\ \A j \in candles_Jobs : Saves(j) => SaveRenews(j)

CandlesIInv == CandlesTypes /\ InTime /\ (backfill_enabled => Reaches) /\ Renews

-----------------------------------------------------------------------------
(* The parameters, and the least and greatest of a set of bars.            *)

LEMMA DownloadFacts ==
    /\ Page \in Nat /\ base \in Nat /\ base >= 3 /\ base <= Page
    /\ Buffer \in Nat /\ Buffer >= 2 /\ max_requests \in Nat /\ backfill_enabled \in BOOLEAN
    /\ candles_Horizon \in Nat /\ MaxFaults \in Nat
    /\ \A b \in Starts : b \in Candles!Bars
    /\ \A b \in Candles!Bars : b \in Nat /\ b >= 1 /\ b <= candles_Horizon
BY CandlesAssumed DEF Candles!DownloadAssumption, Candles!Bars

LEMMA SomeLeast ==
    ASSUME NEW S \in SUBSET Nat, S # {}
    PROVE  \E x \in S : \A y \in S : x <= y
<1>1. PICK x \in S : \A y \in S : ~(<<y, x>> \in OpToRel(<, Nat))
  BY WFMin, NatLessThanWellFounded
<1>2. \A y \in S : x <= y
  <2> SUFFICES ASSUME NEW y \in S PROVE x <= y OBVIOUS
  <2>1. x \in Nat /\ y \in Nat OBVIOUS
  <2>2. ~(<<y, x>> \in OpToRel(<, Nat)) BY <1>1
  <2> QED BY <2>1, <2>2 DEF OpToRel
<1> QED BY <1>2

LEMMA LeastOf ==
    ASSUME NEW S \in SUBSET Candles!Bars, S # {}
    PROVE  Candles!Min(S) \in S /\ \A y \in S : Candles!Min(S) <= y
<1>1. S \subseteq Nat BY DownloadFacts
<1>2. \E x \in S : \A y \in S : x =< y BY <1>1, SomeLeast
<1> QED BY <1>2 DEF Candles!Min

LEMMA GreatestOf ==
    ASSUME NEW S \in SUBSET (Candles!Bars \cup {0}), S # {}
    PROVE  Candles!Max(S) \in S /\ \A y \in S : y <= Candles!Max(S)
<1>1. \A y \in S : y \in Nat /\ y <= candles_Horizon BY DownloadFacts
<1> DEFINE T == {candles_Horizon - y : y \in S}
<1>2. T \subseteq Nat /\ T # {} BY <1>1, DownloadFacts
<1>3. PICK t \in T : \A u \in T : t <= u
  <2> HIDE DEF T
  <2> QED BY <1>2, SomeLeast
<1>4. PICK x \in S : t = candles_Horizon - x OBVIOUS
<1>5. \A y \in S : candles_Horizon - x <= candles_Horizon - y BY <1>3, <1>4
<1>6. \A y \in S : x >= y BY <1>1, <1>5, DownloadFacts
<1>7. /\ (CHOOSE z \in S : \A y \in S : z >= y) \in S
      /\ \A y \in S : (CHOOSE z \in S : \A u \in S : z >= u) >= y
  BY <1>6
<1>8. Candles!Max(S) \in S /\ \A y \in S : Candles!Max(S) >= y BY <1>7 DEF Candles!Max
<1> QED BY <1>1, <1>8

LEMMA GreaterOf ==
    ASSUME NEW a \in Nat, NEW b \in Nat
    PROVE  /\ Candles!Max({a, b}) \in Nat /\ Candles!Max({a, b}) >= a /\ Candles!Max({a, b}) >= b
           /\ Candles!Max({a, b}) = a \/ Candles!Max({a, b}) = b
           /\ Candles!Min({a, b}) \in Nat /\ (Candles!Min({a, b}) = a \/ Candles!Min({a, b}) = b)
<1>1. \E x \in {a, b} : \A y \in {a, b} : x >= y
  <2>1. CASE a >= b BY <2>1
  <2>2. CASE b >= a BY <2>2
  <2> QED BY <2>1, <2>2
<1>2. \E x \in {a, b} : \A y \in {a, b} : x =< y
  <2>1. CASE a >= b BY <2>1
  <2>2. CASE b >= a BY <2>2
  <2> QED BY <2>1, <2>2
<1>3. Candles!Max({a, b}) \in {a, b} /\ \A y \in {a, b} : Candles!Max({a, b}) >= y
  BY <1>1 DEF Candles!Max
<1>4. Candles!Min({a, b}) \in {a, b} BY <1>2 DEF Candles!Min
<1> QED BY <1>3, <1>4

LEMMA NewestFacts ==
    ASSUME Candles!Recorded # {}
    PROVE  Candles!Newest \in Candles!Recorded /\ Candles!Newest \in Candles!Bars /\ \A r \in Candles!Recorded : r <= Candles!Newest
<1>1. Candles!Recorded \in SUBSET Candles!Bars /\ Candles!Recorded \in SUBSET (Candles!Bars \cup {0})
  BY DEF Candles!Recorded
<1> QED BY <1>1, GreatestOf DEF Candles!Newest

LEMMA LatestFacts == Candles!Latest \in Nat /\ \A r \in Candles!Recorded : r <= Candles!Latest
<1>1. Candles!Recorded \cup {0} \in SUBSET (Candles!Bars \cup {0}) /\ Candles!Recorded \cup {0} # {}
  BY DEF Candles!Recorded
<1>2. Candles!Latest \in Candles!Recorded \cup {0} /\ \A r \in Candles!Recorded \cup {0} :
    r <= Candles!Latest
  BY <1>1, GreatestOf DEF Candles!Latest
<1> QED BY <1>1, <1>2, DownloadFacts

(* A plan is one of three: from the bar behind the newest, the last bars   *)
(* down to the newest and beyond, or a page that may not reach it.         *)
LEMMA PlanForFacts ==
    ASSUME candles_now \in Candles!Bars, NEW last \in Candles!Bars, last <= candles_now
    PROVE  LET plan == Candles!PlanFor(last)
           IN  /\ plan \in FetchPlan /\ plan.at = "fetch" /\ plan.late = FALSE
               /\ plan.deep => /\ backfill_enabled /\ plan.from = last + 1
                               /\ candles_now - last > Page
               /\ ~plan.deep => /\ plan.limit >= base
                                /\ backfill_enabled => candles_now - last <= Page
                                /\ \/ plan.limit >= candles_now - last + Buffer
                                   \/ candles_now - last + Buffer > Page /\ plan.limit >= Page
<1> DEFINE missing == candles_now - last
           part == Candles!Min({missing + Buffer, Page})
           limit == Candles!Max({base, part})
<1>1. missing \in Nat /\ last \in Nat BY DownloadFacts
<1>2. part \in Nat /\ (part = missing + Buffer \/ part = Page)
  <2>1. missing + Buffer \in Nat BY <1>1, DownloadFacts
  <2> HIDE DEF missing
  <2> QED BY <2>1, DownloadFacts, GreaterOf
<1>3. limit \in Nat /\ limit >= base /\ limit >= part
  <2> HIDE DEF part
  <2> QED BY <1>2, DownloadFacts, GreaterOf
<1>4. missing + Buffer <= Page => part = missing + Buffer
  <2>1. missing + Buffer \in Nat /\ Page \in Nat BY <1>1, DownloadFacts
  <2> DEFINE m == missing + Buffer
  <2>2. m \in Nat BY <2>1
  <2> HIDE DEF m
  <2>3. ASSUME m <= Page PROVE Candles!Min({m, Page}) = m
    <3>1. m \in {m, Page} /\ \A y \in {m, Page} : m =< y BY <2>1, <2>2, <2>3
    <3>2. \A x \in {m, Page} : (\A y \in {m, Page} : x =< y) => x = m BY <2>1, <2>2, <2>3
    <3> QED BY <3>1, <3>2 DEF Candles!Min
  <2> QED BY <2>3 DEF m
<1>5. Candles!PlanFor(last) = IF backfill_enabled /\ missing > Page
        THEN [at |-> "fetch", deep |-> TRUE, from |-> last + 1, late |-> FALSE, limit |-> Page]
        ELSE [at |-> "fetch", deep |-> FALSE, from |-> 0, late |-> FALSE, limit |-> limit]
  BY DEF Candles!PlanFor
<1> HIDE DEF limit
<1>6. CASE backfill_enabled /\ missing > Page
  <2>1. Candles!PlanFor(last)
          = [at |-> "fetch", deep |-> TRUE, from |-> last + 1, late |-> FALSE, limit |-> Page]
    BY <1>5, <1>6
  <2> QED BY <1>1, <1>6, <2>1, DownloadFacts DEF FetchPlan
<1>7. CASE ~(backfill_enabled /\ missing > Page)
  <2>1. Candles!PlanFor(last)
          = [at |-> "fetch", deep |-> FALSE, from |-> 0, late |-> FALSE, limit |-> limit]
    BY <1>5, <1>7
  <2>2. \/ limit >= missing + Buffer
        \/ missing + Buffer > Page /\ limit >= Page
    <3> HIDE DEF part
    <3> QED BY <1>1, <1>2, <1>3, <1>4, DownloadFacts
  <2>3. backfill_enabled => missing <= Page BY <1>1, <1>7, DownloadFacts
  <2> QED BY <1>3, <2>1, <2>2, <2>3 DEF FetchPlan
<1> QED BY <1>6, <1>7

LEMMA SeedFacts ==
    Candles!Seed \in FetchPlan /\ Candles!Seed.at = "fetch" /\ Candles!Seed.late = FALSE /\ ~Candles!Seed.deep /\ Candles!Seed.limit = base
BY DownloadFacts DEF Candles!Seed, FetchPlan

-----------------------------------------------------------------------------
(* What a fetch brings has no holes but the bars that cannot be used.      *)

LEMMA PageOf1 ==
    ASSUME NEW from \in Nat, NEW b \in Nat, from <= b, NEW k \in Nat, k >= 1,
           b <= from + k * Page - 1
    PROVE  \E p \in Nat : /\ 1 <= p /\ p <= k
                          /\ from + (p - 1) * Page <= b /\ b <= from + p * Page - 1
<1> DEFINE S == {p \in Nat : 1 <= p /\ b <= from + p * Page - 1}
<1>1. S \in SUBSET Nat /\ k \in S OBVIOUS
<1>2. PICK p \in S : \A y \in S : p <= y
  <2> HIDE DEF S
  <2> QED BY <1>1, SomeLeast
<1>3. p \in Nat /\ 1 <= p /\ b <= from + p * Page - 1 /\ p <= k BY <1>1, <1>2
<1>4. CASE p = 1
  <2>1. (p - 1) * Page = 0 BY <1>4, DownloadFacts
  <2> QED BY <1>3, <2>1, DownloadFacts
<1>5. CASE p # 1
  <2>1. p - 1 \in Nat /\ 1 <= p - 1 /\ p - 1 \notin S BY <1>2, <1>3, <1>5
  <2>2. ~(b <= from + (p - 1) * Page - 1) BY <2>1
  <2>3. (p - 1) * Page \in Nat BY <2>1, DownloadFacts
  <2> QED BY <1>3, <2>2, <2>3
<1> QED BY <1>4, <1>5

LEMMA BackfillFacts ==
    ASSUME candles_now \in Candles!Bars, NEW from \in Nat, from >= 1, NEW requests \in Nat
    PROVE  /\ \A c \in Candles!Backfill(from, requests) :
                c \in Candles!Bars /\ c <= candles_now /\ c \notin Unusable
           /\ \A c \in Candles!Backfill(from, requests), b \in Candles!Bars :
                from <= b /\ b < c => b \in Candles!Backfill(from, requests) \cup Unusable
<1> DEFINE K == {k \in 1 .. requests : \A before \in 1 .. k - 1 : Candles!FullPage(from, before)}
<1>1. Candles!Backfill(from, requests) = UNION {Candles!Usable(Candles!PageOf(from, k)) : k \in K}
  BY DEF Candles!Backfill
<1>2. \A k \in K : k \in Nat /\ k >= 1 /\ k <= requests OBVIOUS
<1>3. \A k \in K, p \in Nat : 1 <= p /\ p <= k => p \in K OBVIOUS
<1> HIDE DEF K
<1>4. ASSUME NEW k \in Nat, k >= 1, NEW b
      PROVE  b \in Candles!Usable(Candles!PageOf(from, k)) <=>
               /\ b \in Candles!Bars /\ b <= candles_now /\ b \notin Unusable
               /\ from + (k - 1) * Page <= b /\ b <= from + k * Page - 1
  <2>1. (k - 1) * Page \in Nat /\ k * Page \in Nat BY <1>4, DownloadFacts
  <2>2. b \in 1 .. candles_now <=> b \in Candles!Bars /\ b <= candles_now
    BY DownloadFacts DEF Candles!Bars
  <2>3. \A n \in Nat, m \in Nat : b \in n .. m <=> b \in Int /\ n <= b /\ b <= m OBVIOUS
  <2> DEFINE n == from + (k - 1) * Page
             m == from + k * Page - 1
  <2>4. n \in Nat /\ m \in Int BY <2>1
  <2>5. b \in Candles!PageOf(from, k) <=> b \in n .. m /\ b \in 1 .. candles_now
    BY DEF Candles!PageOf
  <2>6. b \in Candles!Bars => b \in Int BY DownloadFacts
  <2> HIDE DEF n, m
  <2>7. b \in Candles!PageOf(from, k) <=> b \in Candles!Bars /\ b <= candles_now /\ n <= b /\ b <= m
    BY <2>2, <2>4, <2>5, <2>6
  <2> QED BY <2>7 DEF Candles!Usable, n, m
<1>5. ASSUME NEW c \in Candles!Backfill(from, requests)
      PROVE  \E k \in K : c \in Candles!Usable(Candles!PageOf(from, k))
  BY <1>1
<1>6. ASSUME NEW c \in Candles!Backfill(from, requests), NEW b \in Candles!Bars,
             from <= b, b < c, b \notin Unusable
      PROVE  b \in Candles!Backfill(from, requests)
  <2>1. PICK k \in K : c \in Candles!Usable(Candles!PageOf(from, k)) BY <1>5
  <2>2. k \in Nat /\ k >= 1 BY <1>2
  <2>3. c \in Candles!Bars /\ c <= candles_now /\ c <= from + k * Page - 1
    BY <1>4, <2>1, <2>2
  <2>4. b \in Nat /\ c \in Nat /\ k * Page \in Nat BY <2>2, <2>3, DownloadFacts
  <2>5. b <= from + k * Page - 1 /\ b <= candles_now
    <3>1. candles_now \in Nat BY DownloadFacts
    <3> QED BY <1>6, <2>3, <2>4, <3>1
  <2>6. PICK p \in Nat : /\ 1 <= p /\ p <= k
                         /\ from + (p - 1) * Page <= b /\ b <= from + p * Page - 1
    BY <1>6, <2>2, <2>4, <2>5, PageOf1
  <2>7. p \in K BY <1>3, <2>1, <2>6
  <2>8. b \in Candles!Usable(Candles!PageOf(from, p)) BY <1>4, <1>6, <2>5, <2>6
  <2> QED BY <1>1, <2>7, <2>8
<1>7. ASSUME NEW c \in Candles!Backfill(from, requests)
      PROVE  c \in Candles!Bars /\ c <= candles_now /\ c \notin Unusable
  BY <1>2, <1>4, <1>5
<1> QED BY <1>6, <1>7

(* From: the first bar a plan asks for now.                                *)
LEMMA FetchedFacts ==
    ASSUME candles_now \in Candles!Bars, NEW plan \in FetchPlan, NEW requests \in Nat,
           plan.deep => plan.from >= 1
    PROVE  LET batch == Candles!Fetched(plan, requests)
           IN  /\ \A c \in batch : c \in Candles!Bars /\ c <= candles_now /\ c \notin Unusable
               /\ plan.deep =>
                    \A c \in batch, b \in Candles!Bars : plan.from <= b /\ b < c =>
                        b \in batch \cup Unusable
               /\ ~plan.deep =>
                    /\ \A b \in Candles!Bars : candles_now < b + plan.limit /\ b <= candles_now =>
                         b \in batch \cup Unusable
                    /\ \A c \in batch : candles_now < c + plan.limit
<1>1. plan.from \in Nat /\ plan.limit \in Nat /\ plan.deep \in BOOLEAN /\ candles_now \in Nat
  BY DownloadFacts DEF FetchPlan
<1>2. CASE plan.deep
  <2>1. Candles!Fetched(plan, requests) = Candles!Backfill(plan.from, requests)
    BY <1>2 DEF Candles!Fetched
  <2> QED BY <1>1, <1>2, <2>1, BackfillFacts
<1>3. CASE ~plan.deep
  <2> DEFINE last == (candles_now - plan.limit + 1 .. candles_now) \cap Candles!Bars
  <2>1. Candles!Fetched(plan, requests) = Candles!Usable(last) BY <1>3 DEF Candles!Fetched
  <2>2. \A b \in Candles!Bars : b \in last <=> candles_now < b + plan.limit /\ b <= candles_now
    BY <1>1, DownloadFacts
  <2>3. \A b \in last : b \in Candles!Bars OBVIOUS
  <2> HIDE DEF last
  <2> QED BY <1>3, <2>1, <2>2, <2>3 DEF Candles!Usable
<1> QED BY <1>1, <1>2, <1>3

-----------------------------------------------------------------------------
(* One lemma for each action.                                              *)

LEMMA AccountedGrows ==
    ASSUME NEW b, Accounted(b), Candles!Recorded \subseteq Candles!Recorded',
           lost \subseteq lost' \cup Candles!Recorded',
           blind \subseteq blind', seams \subseteq seams'
    PROVE  Accounted(b)'
BY DEF Accounted

LEMMA ExcusedGrows ==
    ASSUME NEW b, Excused(b), lost \subseteq lost', stale \subseteq stale',
           blind \subseteq blind', seams \subseteq seams'
    PROVE  Excused(b)'
BY DEF Excused

LEMMA JobFacts ==
    ASSUME CandlesTypes, NEW j \in candles_Jobs
    PROVE  /\ candles_job[j] \in {Candles!Idle} \cup FetchPlan \cup SavePlan
           /\ Candles!Idle.at = "idle" /\ Candles!Idle.late = FALSE
           /\ Fetches(j) => candles_job[j] \in FetchPlan
           /\ Saves(j) => candles_job[j] \in SavePlan
           /\ candles_job[j] # Candles!Idle => Fetches(j) \/ Saves(j)
<1>1. candles_job[j] \in {Candles!Idle} \cup FetchPlan \cup SavePlan BY DEF CandlesTypes
<1>2. Candles!Idle.at = "idle" /\ Candles!Idle.late = FALSE BY DEF Candles!Idle
<1> QED BY <1>1, <1>2 DEF Fetches, Saves, FetchPlan, SavePlan

LEMMA NowFacts ==
    ASSUME CandlesTypes
    PROVE candles_now \in Nat /\ candles_now >= 1 /\ candles_now <= candles_Horizon /\ seeded \in Nat
BY DownloadFacts DEF CandlesTypes

LEMMA RecordedFacts == \A b : b \in Candles!Recorded <=> b \in Candles!Bars /\ stored[b] # "none"
BY DEF Candles!Recorded

LEMMA CandlesInitIInv == Candles!Init => CandlesIInv
<1> SUFFICES ASSUME Candles!Init PROVE CandlesIInv OBVIOUS
<1>1. Candles!Recorded = {} BY DEF Candles!Init, Candles!Recorded
<1>2. Candles!Idle.at = "idle" BY DEF Candles!Idle
<1>3. \A j \in candles_Jobs : ~Fetches(j) /\ ~Saves(j)
  BY <1>2 DEF Candles!Init, Fetches, Saves
<1>4. CandlesTypes BY DownloadFacts DEF Candles!Init, CandlesTypes
<1>5. InTime BY <1>1, <1>3 DEF Candles!Init, InTime
<1>6. Reaches BY <1>1, <1>3 DEF Reaches
<1>7. Renews BY <1>1, <1>3 DEF Renews
<1> QED BY <1>4, <1>5, <1>6, <1>7 DEF CandlesIInv

(* A job that has begun, and the others as they were.                      *)
LEMMA PlanKeepsOthers ==
    ASSUME CandlesIInv, NEW j \in candles_Jobs, ~Saves(j), NEW plan,
           candles_job' = [candles_job EXCEPT ![j] = plan],
           plan \in FetchPlan,
           candles_now' = candles_now, stored' = stored, seeded' = seeded, lost' = lost, stale' = stale,
           blind \subseteq blind', seams \subseteq seams'
    PROVE  /\ candles_job'[j] = plan
           /\ \A x \in candles_Jobs : x # j => candles_job'[x] = candles_job[x]
           /\ Candles!Recorded' = Candles!Recorded
           /\ \A b : Accounted(b) => Accounted(b)'
           /\ \A b : Excused(b) => Excused(b)'
           /\ \A x \in candles_Jobs : x # j /\ Fetches(x)' =>
                Fetches(x) /\ (backfill_enabled => FetchReaches(x)') /\ FetchRenews(x)'
           /\ \A x \in candles_Jobs : Saves(x)' =>
                /\ x # j /\ Saves(x) /\ candles_job'[x] = candles_job[x]
                /\ (backfill_enabled => SaveReaches(x)') /\ SaveRenews(x)'
<1> USE DEF CandlesIInv
<1>1. candles_job'[j] = plan /\ \A x \in candles_Jobs : x # j => candles_job'[x] = candles_job[x]
  BY DEF CandlesTypes
<1>2. Candles!Recorded' = Candles!Recorded BY DEF Candles!Recorded
<1>3. \A b : Accounted(b) => Accounted(b)' BY <1>2, AccountedGrows
<1>4. \A b : Excused(b) => Excused(b)' BY ExcusedGrows
<1>5. ASSUME NEW x \in candles_Jobs, x # j, Fetches(x)'
      PROVE  Fetches(x) /\ (backfill_enabled => FetchReaches(x)') /\ FetchRenews(x)'
  <2>1. candles_job'[x] = candles_job[x] /\ Fetches(x) BY <1>1, <1>5 DEF Fetches
  <2>2. \A other \in candles_Jobs : Saves(other) =>
      Saves(other)' /\ candles_job'[other] = candles_job[other]
    BY <1>1 DEF Saves
  <2>3. backfill_enabled => FetchReaches(x)'
    <3> SUFFICES ASSUME backfill_enabled PROVE FetchReaches(x)' OBVIOUS
    <3>1. FetchReaches(x) BY <2>1 DEF Reaches
    <3> QED BY <1>2, <1>3, <2>1, <2>2, <3>1 DEF FetchReaches
  <2>4. FetchRenews(x)'
    <3>1. FetchRenews(x) BY <2>1 DEF Renews
    <3> QED BY <1>4, <2>1, <3>1 DEF FetchRenews
  <2> QED BY <2>1, <2>3, <2>4
<1>6. ASSUME NEW x \in candles_Jobs, Saves(x)'
      PROVE  /\ x # j /\ Saves(x) /\ candles_job'[x] = candles_job[x]
             /\ (backfill_enabled => SaveReaches(x)') /\ SaveRenews(x)'
  <2>1. x # j BY <1>1, <1>6 DEF Saves, FetchPlan
  <2>2. candles_job'[x] = candles_job[x] /\ Saves(x) BY <1>1, <1>6, <2>1 DEF Saves
  <2>3. backfill_enabled => SaveReaches(x)'
    <3> SUFFICES ASSUME backfill_enabled PROVE SaveReaches(x)' OBVIOUS
    <3>1. SaveReaches(x) BY <2>2 DEF Reaches
    <3> QED BY <1>2, <1>3, <2>2, <3>1 DEF SaveReaches
  <2>4. SaveRenews(x)'
    <3>1. SaveRenews(x) BY <2>2 DEF Renews
    <3> QED BY <1>4, <2>2, <3>1 DEF SaveRenews
  <2> QED BY <2>1, <2>2, <2>3, <2>4
<1> QED BY <1>1, <1>2, <1>3, <1>4, <1>5, <1>6

LEMMA PlanKeepsIInv ==
    ASSUME CandlesIInv, NEW j \in candles_Jobs, Candles!Plan(j)
    PROVE  CandlesIInv'
<1> USE DEF CandlesIInv
<1> DEFINE plan == IF Candles!Recorded = {} THEN Candles!Seed ELSE Candles!PlanFor(Candles!Newest)
<1>1. /\ ~Saves(j) /\ candles_now' = candles_now /\ stored' = stored /\ seeded' = seeded /\ lost' = lost
      /\ stale' = stale
  BY DEF Candles!Plan, Saves
<1>2. \/ /\ candles_job' = [candles_job EXCEPT ![j] = plan]
         /\ seams' = IF Candles!Recorded # {} /\ candles_now - Candles!Newest + Buffer > Page THEN seams \cup {Candles!Newest}
                     ELSE seams
         /\ faults' = faults /\ blind' = blind
      \/ /\ faults < MaxFaults /\ faults' = faults + 1
         /\ candles_job' = [candles_job EXCEPT ![j] = Candles!Seed]
         /\ blind' = 1 .. candles_now /\ seams' = seams
  BY DEF Candles!Plan, Candles!MayFail
<1>3. candles_now \in Nat /\ candles_now >= 1 /\ candles_now <= candles_Horizon /\ candles_now \in Candles!Bars
  BY NowFacts DEF CandlesTypes
<1>4. Candles!Recorded # {} => /\ Candles!Newest \in Candles!Recorded
                               /\ Candles!Newest \in Candles!Bars /\ Candles!Newest \in Nat
                               /\ Candles!Newest <= candles_now
                               /\ \A r \in Candles!Recorded : r <= Candles!Newest /\ r \in Nat
  BY NewestFacts, DownloadFacts, RecordedFacts DEF InTime
<1>5. \A b \in blind : b \in Candles!Bars /\ b \in Nat /\ b <= candles_now
  BY DownloadFacts DEF InTime, CandlesTypes
<1>6. CASE /\ candles_job' = [candles_job EXCEPT ![j] = plan]
           /\ seams' = IF Candles!Recorded # {} /\ candles_now - Candles!Newest + Buffer > Page THEN seams \cup {Candles!Newest}
                       ELSE seams
           /\ faults' = faults /\ blind' = blind
  <2>1. plan \in FetchPlan /\ plan.at = "fetch" /\ plan.late = FALSE
    BY <1>3, <1>4, PlanForFacts, SeedFacts
  <2>2. blind \subseteq blind' /\ seams \subseteq seams' /\ seams' \subseteq Candles!Bars
    BY <1>4, <1>6 DEF CandlesTypes
  <2>3. /\ candles_job'[j] = plan
        /\ \A x \in candles_Jobs : x # j => candles_job'[x] = candles_job[x]
        /\ Candles!Recorded' = Candles!Recorded
        /\ \A b : Accounted(b) => Accounted(b)'
        /\ \A b : Excused(b) => Excused(b)'
        /\ \A x \in candles_Jobs : x # j /\ Fetches(x)' =>
             Fetches(x) /\ (backfill_enabled => FetchReaches(x)') /\ FetchRenews(x)'
        /\ \A x \in candles_Jobs : Saves(x)' =>
             /\ x # j /\ Saves(x) /\ candles_job'[x] = candles_job[x]
             /\ (backfill_enabled => SaveReaches(x)') /\ SaveRenews(x)'
    <3> HIDE DEF plan
    <3> QED BY <1>1, <1>6, <2>1, <2>2, PlanKeepsOthers
  <2>4. CASE Candles!Recorded = {}
    <3>1. plan = Candles!Seed BY <2>4
    <3> HIDE DEF plan
    <3>2. CandlesTypes' BY <1>1, <1>6, <2>1, <2>2 DEF CandlesTypes
    <3>3. InTime'
      BY <1>1, <1>6, <2>3, <2>4, <3>1, SeedFacts, DownloadFacts DEF InTime, Fetches
    <3>4. FetchReaches(j)' BY <2>3, <2>4 DEF FetchReaches
    <3>5. FetchRenews(j)' BY <1>1, <2>4, RecordedFacts DEF FetchRenews
    <3>6. backfill_enabled => Reaches' BY <1>1, <2>3, <2>4, <3>4 DEF Reaches
    <3>7. Renews' BY <1>1, <2>3, <2>4, <3>5 DEF Renews
    <3> QED BY <3>2, <3>3, <3>6, <3>7
  <2>5. CASE Candles!Recorded # {}
    <3>1. /\ plan.deep => /\ backfill_enabled /\ plan.from = Candles!Newest + 1
                          /\ candles_now - Candles!Newest > Page
          /\ ~plan.deep => /\ plan.limit >= base
                           /\ backfill_enabled => candles_now - Candles!Newest <= Page
                           /\ \/ plan.limit >= candles_now - Candles!Newest + Buffer
                              \/ candles_now - Candles!Newest + Buffer > Page /\ plan.limit >= Page
      BY <1>3, <1>4, <2>5, PlanForFacts
    <3> HIDE DEF plan
    <3>2. /\ plan.deep \in BOOLEAN /\ plan.from \in Nat /\ plan.limit \in Nat
      BY <2>1 DEF FetchPlan
    <3>3. CandlesTypes' BY <1>1, <1>6, <2>1, <2>2 DEF CandlesTypes
    <3>4. InTime'
      <4>1. IF plan.deep THEN Candles!Recorded # {} /\ plan.from + Page <= candles_now + 1 /\ 1 <= plan.from
            ELSE plan.limit >= base /\ (Candles!Recorded = {} => plan.limit = base)
        BY <1>3, <1>4, <2>5, <3>1, DownloadFacts
      <4> QED BY <1>1, <1>6, <2>3, <4>1 DEF InTime, Fetches
    <3>5. backfill_enabled => FetchReaches(j)'
      <4> SUFFICES ASSUME backfill_enabled, NEW b \in Candles!Bars, seeded <= b
                   PROVE  IF plan.deep THEN b < plan.from => Accounted(b)'
                          ELSE b + plan.limit <= candles_now + 1 => Accounted(b)'
        <5>1. candles_now <= candles_now + 1 BY <1>3
        <5>2. \A b \in Candles!Bars : b + plan.limit <= candles_now =>
            b + plan.limit <= candles_now + 1
          BY <1>3, <3>2, DownloadFacts
        <5> QED BY <1>1, <2>3, <5>2 DEF FetchReaches
      <4>1. b \in Nat BY DownloadFacts
      <4>2. b <= Candles!Newest => Accounted(b)' BY <1>4, <2>3, <2>5 DEF Reaches
      <4>3. CASE plan.deep BY <1>4, <2>5, <3>1, <4>1, <4>2, <4>3
      <4>4. CASE ~plan.deep
        <5> SUFFICES ASSUME b + plan.limit <= candles_now + 1 PROVE Accounted(b)' BY <4>4
        <5>1. CASE plan.limit >= candles_now - Candles!Newest + Buffer
          BY <1>3, <1>4, <2>5, <3>2, <4>1, <4>2, <5>1, DownloadFacts
        <5>2. CASE candles_now - Candles!Newest + Buffer > Page /\ plan.limit >= Page
          <6>1. Candles!Newest \in seams' BY <1>6, <2>5, <5>2
          <6>2. b <= Candles!Newest + 1
            BY <1>3, <1>4, <2>5, <3>1, <3>2, <4>1, <4>4, <5>2, DownloadFacts
          <6>3. b = Candles!Newest + 1 => b - 1 \in seams' BY <1>4, <2>5, <4>1, <6>1
          <6> QED BY <1>4, <2>5, <4>1, <4>2, <6>2, <6>3 DEF Accounted
        <5> QED BY <3>1, <4>4, <5>1, <5>2
      <4> QED BY <4>3, <4>4
    <3>6. FetchRenews(j)'
      <4> SUFFICES ASSUME NEW b \in Candles!Bars, stored[b] = "partial", ~Excused(b)'
                   PROVE  IF plan.deep THEN plan.from <= b ELSE candles_now + 1 < b + plan.limit
        <5>1. \A b \in Candles!Bars : candles_now + 1 < b + plan.limit =>
            candles_now < b + plan.limit
          BY <1>3, <3>2, DownloadFacts
        <5> QED BY <1>1, <2>3, <5>1 DEF FetchRenews
      <4>1. b \in Candles!Recorded /\ b \in Nat BY RecordedFacts, DownloadFacts
      <4>2. ~(b < Candles!Newest) BY <1>4, <2>3, <2>5 DEF Renews
      <4>3. b = Candles!Newest BY <1>4, <2>5, <4>1, <4>2
      <4>4. ~(candles_now - Candles!Newest + Buffer > Page)
        BY <1>6, <2>5, <4>3 DEF Excused
      <4> QED BY <1>3, <1>4, <2>5, <3>1, <3>2, <4>3, <4>4, DownloadFacts
    <3>7. backfill_enabled => Reaches' BY <1>1, <2>3, <3>5 DEF Reaches
    <3>8. Renews' BY <1>1, <2>3, <3>6 DEF Renews
    <3> QED BY <3>3, <3>4, <3>7, <3>8
  <2> QED BY <2>4, <2>5
<1>7. CASE /\ faults < MaxFaults /\ faults' = faults + 1
           /\ candles_job' = [candles_job EXCEPT ![j] = Candles!Seed]
           /\ blind' = 1 .. candles_now /\ seams' = seams
  <2>1. \A b \in Candles!Bars : b <= candles_now => b \in blind'
    BY <1>3, <1>7, DownloadFacts
  <2>2. blind \subseteq blind' /\ blind' \subseteq Candles!Bars /\ (\A b \in blind' : b <= candles_now)
    BY <1>3, <1>5, <1>7, <2>1, DownloadFacts DEF Candles!Bars
  <2>3. /\ candles_job'[j] = Candles!Seed
        /\ \A x \in candles_Jobs : x # j => candles_job'[x] = candles_job[x]
        /\ Candles!Recorded' = Candles!Recorded
        /\ \A b : Accounted(b) => Accounted(b)'
        /\ \A b : Excused(b) => Excused(b)'
        /\ \A x \in candles_Jobs : x # j /\ Fetches(x)' =>
             Fetches(x) /\ (backfill_enabled => FetchReaches(x)') /\ FetchRenews(x)'
        /\ \A x \in candles_Jobs : Saves(x)' =>
             /\ x # j /\ Saves(x) /\ candles_job'[x] = candles_job[x]
             /\ (backfill_enabled => SaveReaches(x)') /\ SaveRenews(x)'
    BY <1>1, <1>7, <2>2, SeedFacts, PlanKeepsOthers
  <2>4. CandlesTypes'
    <3>1. faults' \in 0 .. MaxFaults BY <1>7, DownloadFacts DEF CandlesTypes
    <3> QED BY <1>1, <1>7, <2>2, <3>1, SeedFacts DEF CandlesTypes
  <2>5. InTime' BY <1>1, <2>2, <2>3, SeedFacts, DownloadFacts DEF InTime, Fetches
  <2>6. FetchReaches(j)'
    <3>1. \A b \in Candles!Bars : b + base <= candles_now + 1 => b <= candles_now
      BY <1>3, DownloadFacts
    <3>2. \A b \in Candles!Bars : b + base <= candles_now => b <= candles_now
      BY <1>3, DownloadFacts
    <3>3. \A b \in Candles!Bars : b <= candles_now => Accounted(b)' BY <2>1 DEF Accounted
    <3> QED BY <1>1, <2>3, <3>1, <3>2, <3>3, SeedFacts DEF FetchReaches
  <2>7. FetchRenews(j)'
    <3>1. \A b \in Candles!Bars : stored[b] = "partial" => b <= candles_now
      BY RecordedFacts DEF InTime
    <3> QED BY <1>1, <2>1, <3>1 DEF FetchRenews, Excused
  <2>8. backfill_enabled => Reaches' BY <1>1, <2>3, <2>6 DEF Reaches
  <2>9. Renews' BY <1>1, <2>3, <2>7 DEF Renews
  <2> QED BY <2>4, <2>5, <2>8, <2>9
<1> QED BY <1>2, <1>6, <1>7

LEMMA FetchKeepsIInv ==
    ASSUME CandlesIInv, NEW j \in candles_Jobs, Candles!Fetch(j)
    PROVE  CandlesIInv'
<1> USE DEF CandlesIInv
<1>1. /\ Fetches(j) /\ candles_job[j] \in FetchPlan
      /\ candles_now' = candles_now /\ stored' = stored /\ faults' = faults /\ seeded' = seeded
      /\ blind' = blind /\ lost' = lost /\ seams' = seams /\ stale' = stale
      /\ Candles!Recorded' = Candles!Recorded
  BY JobFacts DEF Candles!Fetch, Fetches, Candles!Recorded
<1>2. PICK requests \in 0 .. max_requests :
        LET batch == IF requests = 0 THEN {} ELSE Candles!Fetched(candles_job[j], requests)
        IN  candles_job' = [candles_job EXCEPT ![j] = IF batch = {} THEN Candles!Idle
                                                      ELSE [at |-> "save", late |-> candles_job[j].late,
                                                            todo |-> batch, seen |-> candles_now]]
  BY DEF Candles!Fetch
<1> DEFINE batch == IF requests = 0 THEN {} ELSE Candles!Fetched(candles_job[j], requests)
           next == IF batch = {} THEN Candles!Idle
                   ELSE [at |-> "save", late |-> candles_job[j].late, todo |-> batch,
                          seen |-> candles_now]
<1>3. candles_job' = [candles_job EXCEPT ![j] = next] BY <1>2
<1>4. candles_now \in Nat /\ candles_now >= 1 /\ candles_now \in Candles!Bars
  BY NowFacts DEF CandlesTypes
<1>5. /\ candles_job[j].from \in Nat /\ candles_job[j].limit \in Nat
      /\ candles_job[j].deep \in BOOLEAN
      /\ candles_job[j].late \in BOOLEAN
      /\ candles_job[j].deep =>
           Candles!Recorded # {} /\ 1 <= candles_job[j].from /\ candles_job[j].from + 2 <= candles_now
      /\ ~candles_job[j].deep =>
           candles_job[j].limit >= 3 /\ (Candles!Recorded = {} => candles_job[j].limit = base)
  <2>1. /\ candles_job[j].from \in Nat /\ candles_job[j].limit \in Nat
        /\ candles_job[j].deep \in BOOLEAN
        /\ candles_job[j].late \in BOOLEAN
    BY <1>1 DEF FetchPlan
  <2> QED BY <1>1, <1>4, <2>1, DownloadFacts DEF InTime
<1>6. /\ \A c \in batch : c \in Candles!Bars /\ c <= candles_now /\ c \notin Unusable
      /\ candles_job[j].deep =>
           \A c \in batch, b \in Candles!Bars : candles_job[j].from <= b /\ b < c =>
               b \in batch \cup Unusable
      /\ ~candles_job[j].deep /\ batch # {} =>
           /\ \A b \in Candles!Bars :
                candles_now < b + candles_job[j].limit /\ b <= candles_now =>
                    b \in batch \cup Unusable
           /\ \A c \in batch : candles_now < c + candles_job[j].limit
  <2>1. requests \in Nat BY DownloadFacts
  <2>2. CASE requests = 0 BY <2>2
  <2>3. CASE requests # 0
    <3>1. batch = Candles!Fetched(candles_job[j], requests) BY <2>3
    <3> HIDE DEF batch
    <3> QED BY <1>1, <1>4, <1>5, <2>1, <3>1, FetchedFacts
  <2> QED BY <2>2, <2>3
<1> HIDE DEF batch
<1>7. \/ next = Candles!Idle
      \/ /\ batch # {} /\ next \in SavePlan
         /\ next.at = "save" /\ next.late = candles_job[j].late /\ next.todo = batch
         /\ next.seen = candles_now
  BY <1>4, <1>5, <1>6 DEF SavePlan
<1> HIDE DEF next
<1>8. candles_job'[j] = next /\ \A x \in candles_Jobs : x # j => candles_job'[x] = candles_job[x]
  BY <1>3 DEF CandlesTypes
<1>9. ~Saves(j) BY <1>1 DEF Fetches, Saves
<1>10. \A b : (Accounted(b) <=> Accounted(b)') /\ (Excused(b) <=> Excused(b)')
  BY <1>1 DEF Accounted, Excused
<1>11. ~Fetches(j)' BY <1>7, <1>8 DEF Fetches, Candles!Idle
<1>12. Saves(j)' => /\ batch # {} /\ candles_job'[j].late = candles_job[j].late
                    /\ candles_job'[j].todo = batch
                    /\ candles_job'[j].seen = candles_now
  BY <1>7, <1>8 DEF Saves, Candles!Idle
<1>13. \A x \in candles_Jobs : x # j => /\ candles_job'[x] = candles_job[x]
                                        /\ (Fetches(x)' <=> Fetches(x))
                                        /\ (Saves(x)' <=> Saves(x))
  BY <1>8 DEF Fetches, Saves
<1>14. CandlesTypes'
  <2>1. next \in {Candles!Idle} \cup FetchPlan \cup SavePlan BY <1>7
  <2> QED BY <1>1, <1>3, <2>1 DEF CandlesTypes
<1>15. InTime'
  <2>1. Saves(j)' => /\ candles_job'[j].todo # {}
                     /\ \A c \in candles_job'[j].todo :
                          c <= candles_job'[j].seen /\ c \notin Unusable
                     /\ candles_job'[j].seen = candles_now'
    BY <1>1, <1>6, <1>12
  <2> QED BY <1>1, <1>11, <1>13, <2>1 DEF InTime
<1>16. backfill_enabled => Reaches'
  <2> SUFFICES ASSUME backfill_enabled PROVE Reaches' OBVIOUS
  <2>1. \A b \in Candles!Bars, r \in Candles!Recorded' : seeded' <= b /\ b <= r => Accounted(b)'
    BY <1>1, <1>10 DEF Reaches
  <2>2. ASSUME NEW x \in candles_Jobs, Fetches(x)' PROVE FetchReaches(x)'
    <3>1. x # j /\ candles_job'[x] = candles_job[x] /\ FetchReaches(x)
      BY <1>11, <1>13, <2>2 DEF Reaches
    <3>2. \A other \in candles_Jobs : Saves(other) =>
        Saves(other)' /\ candles_job'[other] = candles_job[other]
      BY <1>9, <1>13
    <3> QED BY <1>1, <1>10, <3>1, <3>2 DEF FetchReaches
  <2>3. ASSUME Saves(j)' PROVE SaveReaches(j)'
    <3>1. CASE Candles!Recorded = {}
      <4>1. ~candles_job[j].deep /\ candles_job[j].limit = base BY <1>5, <3>1
      <4> QED BY <1>1, <1>6, <1>12, <2>3, <3>1, <4>1 DEF SaveReaches
    <3>2. CASE Candles!Recorded # {}
      <4> SUFFICES ASSUME NEW b \in Candles!Bars, NEW c \in batch, seeded <= b, b < c
                   PROVE  b \in batch \/ Accounted(b)
        BY <1>1, <1>10, <1>12, <2>3, <3>2 DEF SaveReaches
      <4>1. b \in Nat /\ c \in Nat /\ c <= candles_now BY <1>6, DownloadFacts
      <4>2. FetchReaches(j) BY <1>1 DEF Reaches
      <4>3. b \in Unusable => Accounted(b) BY DEF Accounted
      <4>4. CASE candles_job[j].deep
        <5>1. b < candles_job[j].from => Accounted(b) BY <3>2, <4>2, <4>4 DEF FetchReaches
        <5> QED BY <1>5, <1>6, <4>1, <4>3, <4>4, <5>1
      <4>5. CASE ~candles_job[j].deep
        <5>1. b + candles_job[j].limit <= candles_now => Accounted(b)
          BY <3>2, <4>2, <4>5 DEF FetchReaches
        <5>2. b + candles_job[j].limit <= candles_now \/ candles_now < b + candles_job[j].limit
          BY <1>4, <1>5, <4>1
        <5>3. b <= candles_now BY <1>4, <4>1
        <5> QED BY <1>6, <4>3, <4>5, <5>1, <5>2, <5>3
      <4> QED BY <4>4, <4>5
    <3> QED BY <3>1, <3>2
  <2>4. ASSUME NEW x \in candles_Jobs, x # j, Saves(x)' PROVE SaveReaches(x)'
    <3>1. candles_job'[x] = candles_job[x] /\ SaveReaches(x) BY <1>13, <2>4 DEF Reaches
    <3> QED BY <1>1, <1>10, <3>1 DEF SaveReaches
  <2> QED BY <2>1, <2>2, <2>3, <2>4 DEF Reaches
<1>17. Renews'
  <2>1. \A b \in Candles!Bars, r \in Candles!Recorded' : stored'[b] = "partial" /\ b < r =>
      Excused(b)'
    BY <1>1, <1>10 DEF Renews
  <2>2. ASSUME NEW x \in candles_Jobs, Fetches(x)' PROVE FetchRenews(x)'
    <3>1. x # j /\ candles_job'[x] = candles_job[x] /\ FetchRenews(x)
      BY <1>11, <1>13, <2>2 DEF Renews
    <3> QED BY <1>1, <1>10, <3>1 DEF FetchRenews
  <2>3. ASSUME Saves(j)' PROVE SaveRenews(j)'
    <3>1. FetchRenews(j) BY <1>1 DEF Renews
    <3>2. ASSUME NEW b \in Candles!Bars, NEW c \in batch, stored[b] = "partial", b < c
          PROVE  b \in batch \/ Excused(b)
      <4>1. b \in Nat /\ c \in Nat /\ c <= candles_now BY <1>6, DownloadFacts
      <4>2. b \notin Unusable BY <3>2, RecordedFacts DEF InTime
      <4>3. CASE candles_job[j].deep BY <1>6, <3>1, <3>2, <4>2, <4>3 DEF FetchRenews
      <4>4. CASE ~candles_job[j].deep
        <5>1. Excused(b) \/ candles_now < b + candles_job[j].limit
          BY <3>1, <3>2, <4>4 DEF FetchRenews
        <5>2. b <= candles_now BY <1>4, <3>2, <4>1
        <5> QED BY <1>6, <4>2, <4>4, <5>1, <5>2
      <4> QED BY <4>3, <4>4
    <3>3. ASSUME candles_now \in batch,
                 candles_now - 1 \in Candles!Bars PROVE candles_now - 1 \in batch \cup Unusable
      <4>1. CASE candles_job[j].deep
        <5>1. candles_job[j].from <= candles_now - 1 /\ candles_now - 1 < candles_now
          BY <1>4, <1>5, <4>1
        <5> QED BY <1>6, <3>3, <4>1, <5>1
      <4>2. CASE ~candles_job[j].deep
        <5>1. candles_now < (candles_now - 1) + candles_job[j].limit /\ candles_now - 1 <= candles_now
          BY <1>4, <1>5, <4>2
        <5> QED BY <1>6, <3>3, <4>2, <5>1
      <4> QED BY <4>1, <4>2
    <3> QED BY <1>1, <1>10, <1>12, <2>3, <3>2, <3>3 DEF SaveRenews
  <2>4. ASSUME NEW x \in candles_Jobs, x # j, Saves(x)' PROVE SaveRenews(x)'
    <3>1. candles_job'[x] = candles_job[x] /\ SaveRenews(x) BY <1>13, <2>4 DEF Renews
    <3> QED BY <1>1, <1>10, <3>1 DEF SaveRenews
  <2> QED BY <2>1, <2>2, <2>3, <2>4 DEF Renews
<1> QED BY <1>14, <1>15, <1>16, <1>17

LEMMA StopKeepsIInv == ASSUME CandlesIInv, Candles!Stop PROVE CandlesIInv'
<1> USE DEF CandlesIInv
<1>1. /\ candles_now' = candles_now /\ stored' = stored /\ faults' = faults /\ seeded' = seeded
      /\ blind' = blind /\ lost' = lost /\ seams' = seams /\ stale' = stale
      /\ Candles!Recorded' = Candles!Recorded
      /\ candles_job' = [j \in candles_Jobs |-> Candles!Idle]
  BY DEF Candles!Stop, Candles!Recorded
<1>2. \A j \in candles_Jobs : ~Fetches(j)' /\ ~Saves(j)'
  BY <1>1 DEF Fetches, Saves, Candles!Idle
<1>3. \A b : (Accounted(b) <=> Accounted(b)') /\ (Excused(b) <=> Excused(b)')
  BY <1>1 DEF Accounted, Excused
<1>4. CandlesTypes' BY <1>1 DEF CandlesTypes
<1>5. InTime' BY <1>1, <1>2 DEF InTime
<1>6. backfill_enabled => Reaches' BY <1>1, <1>2, <1>3 DEF Reaches
<1>7. Renews' BY <1>1, <1>2, <1>3 DEF Renews
<1> QED BY <1>4, <1>5, <1>6, <1>7

LEMMA NextBarKeepsIInv == ASSUME CandlesIInv, Candles!NextBar PROVE CandlesIInv'
<1> USE DEF CandlesIInv
<1>1. /\ candles_now < candles_Horizon /\ candles_now' = candles_now + 1 /\ stored' = stored
      /\ faults' = faults
      /\ seeded' = seeded /\ blind' = blind /\ lost' = lost /\ seams' = seams
      /\ stale' = stale /\ Candles!Recorded' = Candles!Recorded
      /\ candles_job' = [j \in candles_Jobs |-> [candles_job[j] EXCEPT !.late = candles_job[j] # Candles!Idle]]
      /\ \A j \in candles_Jobs : ~candles_job[j].late
  BY DEF Candles!NextBar, Candles!Recorded
<1>2. candles_now \in Nat /\ candles_now >= 1 /\ candles_now' \in Candles!Bars
  BY <1>1, NowFacts, DownloadFacts DEF Candles!Bars
<1>3. ASSUME NEW j \in candles_Jobs
      PROVE  /\ candles_job'[j] \in {Candles!Idle} \cup FetchPlan \cup SavePlan
             /\ Fetches(j)' => /\ Fetches(j) /\ candles_job'[j].late = TRUE
                               /\ candles_job'[j].deep = candles_job[j].deep
                               /\ candles_job'[j].from = candles_job[j].from
                               /\ candles_job'[j].limit = candles_job[j].limit
             /\ Saves(j)' => /\ Saves(j) /\ candles_job'[j].late = TRUE
                             /\ candles_job'[j].todo = candles_job[j].todo
                             /\ candles_job'[j].seen = candles_job[j].seen
  <2> DEFINE is == candles_job[j] # Candles!Idle
  <2>1. candles_job'[j] = [candles_job[j] EXCEPT !.late = is] /\ is \in BOOLEAN BY <1>1
  <2>2. CASE Fetches(j)
    <3>1. candles_job[j] \in FetchPlan /\ is BY <2>2, JobFacts DEF Fetches
    <3> DEFINE plan == candles_job[j]
    <3>a. plan \in FetchPlan /\ candles_job'[j] = [plan EXCEPT !.late = TRUE] BY <2>1,
                                                                                 <3>1
    <3> HIDE DEF is, plan
    <3>b. /\ candles_job'[j] \in FetchPlan /\ candles_job'[j].late = TRUE
          /\ candles_job'[j].at = plan.at
          /\ candles_job'[j].deep = plan.deep /\ candles_job'[j].from = plan.from
          /\ candles_job'[j].limit = plan.limit
      BY <3>a DEF FetchPlan
    <3>2. /\ candles_job'[j] \in FetchPlan /\ candles_job'[j].late = TRUE
          /\ candles_job'[j].at = candles_job[j].at
          /\ candles_job'[j].deep = candles_job[j].deep
          /\ candles_job'[j].from = candles_job[j].from
          /\ candles_job'[j].limit = candles_job[j].limit
      BY <3>b DEF plan
    <3> QED BY <2>2, <3>1, <3>2 DEF Fetches, Saves
  <2>3. CASE Saves(j)
    <3>1. candles_job[j] \in SavePlan /\ is BY <2>3, JobFacts DEF Saves
    <3> DEFINE plan == candles_job[j]
    <3>a. plan \in SavePlan /\ candles_job'[j] = [plan EXCEPT !.late = TRUE] BY <2>1, <3>1
    <3> HIDE DEF is, plan
    <3>b. /\ candles_job'[j] \in SavePlan /\ candles_job'[j].late = TRUE
          /\ candles_job'[j].at = plan.at
          /\ candles_job'[j].todo = plan.todo /\ candles_job'[j].seen = plan.seen
      BY <3>a DEF SavePlan
    <3>2. /\ candles_job'[j] \in SavePlan /\ candles_job'[j].late = TRUE
          /\ candles_job'[j].at = candles_job[j].at
          /\ candles_job'[j].todo = candles_job[j].todo
          /\ candles_job'[j].seen = candles_job[j].seen
      BY <3>b DEF plan
    <3> QED BY <2>3, <3>1, <3>2 DEF Fetches, Saves
  <2>4. CASE candles_job[j] = Candles!Idle
    <3>1. is = FALSE BY <2>4
    <3> HIDE DEF is
    <3>2. candles_job'[j] = [Candles!Idle EXCEPT !.late = FALSE] BY <2>1, <2>4, <3>1
    <3>3. [Candles!Idle EXCEPT !.late = FALSE] = Candles!Idle
      <4> DEFINE idle == Candles!Idle
                 no == FALSE
      <4>1. idle = [at |-> "idle", late |-> no] BY DEF Candles!Idle
      <4> HIDE DEF idle, no
      <4>2. [idle EXCEPT !.late = no] = idle BY <4>1
      <4> QED BY <4>2 DEF idle, no
    <3> QED BY <2>4, <3>2, <3>3 DEF Fetches, Saves, Candles!Idle
  <2> QED BY <2>2, <2>3, <2>4, JobFacts
<1>4. \A b : (Accounted(b) <=> Accounted(b)') /\ (Excused(b) <=> Excused(b)')
  BY <1>1 DEF Accounted, Excused
<1>5. CandlesTypes'
  <2>1. candles_job' \in [candles_Jobs -> {Candles!Idle} \cup FetchPlan \cup SavePlan] BY <1>1, <1>3
  <2> QED BY <1>1, <1>2, <2>1 DEF CandlesTypes
<1>6. InTime'
  <2>1. \A b \in Candles!Bars : b <= candles_now => b <= candles_now'
    BY <1>1, <1>2, DownloadFacts
  <2>2. ASSUME NEW j \in candles_Jobs, Fetches(j)'
        PROVE  IF candles_job'[j].deep THEN Candles!Recorded # {} /\ candles_job'[j].from + Page <= candles_now' + 1 /\ 1 <= candles_job'[j].from
               ELSE candles_job'[j].limit >= base /\ (Candles!Recorded = {} => candles_job'[j].limit = base)
    <3>1. Fetches(j) /\ candles_job[j] \in FetchPlan BY <1>3, <2>2, JobFacts
    <3>2. candles_job[j].from \in Nat BY <3>1 DEF FetchPlan
    <3>3. candles_job[j].deep => Candles!Recorded # {} /\ candles_job[j].from + Page <= candles_now + 1 /\ 1 <= candles_job[j].from
      BY <3>1 DEF InTime
    <3>4. ~candles_job[j].deep =>
        candles_job[j].limit >= base /\ (Candles!Recorded = {} => candles_job[j].limit = base)
      BY <3>1 DEF InTime
    <3>5. candles_job[j].from + Page <= candles_now + 1 =>
        candles_job[j].from + Page <= candles_now' + 1
      BY <1>1, <1>2, <3>2, DownloadFacts
    <3> QED BY <1>3, <2>2, <3>3, <3>4, <3>5
  <2>3. ASSUME NEW j \in candles_Jobs, Saves(j)'
        PROVE  /\ candles_job'[j].todo # {}
               /\ \A c \in candles_job'[j].todo : c <= candles_job'[j].seen /\ c \notin Unusable
               /\ candles_job'[j].late /\ candles_job'[j].seen = candles_now' - 1
    <3>1. Saves(j) BY <1>3, <2>3
    <3>2. candles_job[j].seen = candles_now BY <1>1, <3>1 DEF InTime
    <3>3. candles_now' - 1 = candles_now BY <1>1, <1>2
    <3> QED BY <1>3, <2>3, <3>1, <3>2, <3>3 DEF InTime
  <2>4. \A b \in Candles!Recorded : b \in Candles!Bars BY RecordedFacts
  <2>5. \A b \in blind : b \in Candles!Bars BY DEF CandlesTypes
  <2> QED BY <1>1, <2>1, <2>2, <2>3, <2>4, <2>5 DEF InTime
<1>7. backfill_enabled => Reaches'
  <2> SUFFICES ASSUME backfill_enabled PROVE Reaches' OBVIOUS
  <2>1. \A b \in Candles!Bars, r \in Candles!Recorded' : seeded' <= b /\ b <= r => Accounted(b)'
    BY <1>1, <1>4 DEF Reaches
  <2>2. ASSUME NEW j \in candles_Jobs, Fetches(j)' PROVE FetchReaches(j)'
    <3>1. Fetches(j) /\ FetchReaches(j) /\ ~candles_job[j].late
      BY <1>1, <1>3, <2>2 DEF Reaches
    <3>2. ASSUME Candles!Recorded # {}, NEW b \in Candles!Bars, seeded <= b
          PROVE  IF candles_job[j].deep THEN b < candles_job[j].from => Accounted(b)
                 ELSE b + candles_job[j].limit <= candles_now + 1 => Accounted(b)
      BY <1>1, <3>1, <3>2 DEF FetchReaches
    <3>3. ASSUME Candles!Recorded # {}, NEW b \in Candles!Bars, seeded <= b
          PROVE  IF candles_job'[j].deep THEN b < candles_job'[j].from => Accounted(b)'
                 ELSE b + candles_job'[j].limit <= candles_now' => Accounted(b)'
      <4>1. IF candles_job[j].deep THEN b < candles_job[j].from => Accounted(b)'
            ELSE b + candles_job[j].limit <= candles_now + 1 => Accounted(b)'
        BY <1>4, <3>2, <3>3
      <4>2. /\ candles_job'[j].deep = candles_job[j].deep
            /\ candles_job'[j].from = candles_job[j].from
            /\ candles_job'[j].limit = candles_job[j].limit /\ candles_now' = candles_now + 1
        BY <1>1, <1>3, <2>2
      <4> QED BY <4>1, <4>2
    <3>4. candles_job'[j].late BY <1>3, <2>2
    <3> QED BY <1>1, <3>3, <3>4 DEF FetchReaches
  <2>3. ASSUME NEW j \in candles_Jobs, Saves(j)' PROVE SaveReaches(j)'
    <3>1. Saves(j) /\ SaveReaches(j) BY <1>3, <2>3 DEF Reaches
    <3> QED BY <1>1, <1>3, <1>4, <2>3, <3>1 DEF SaveReaches
  <2> QED BY <2>1, <2>2, <2>3 DEF Reaches
<1>8. Renews'
  <2>1. \A b \in Candles!Bars, r \in Candles!Recorded' : stored'[b] = "partial" /\ b < r =>
      Excused(b)'
    BY <1>1, <1>4 DEF Renews
  <2>2. ASSUME NEW j \in candles_Jobs, Fetches(j)' PROVE FetchRenews(j)'
    <3>1. Fetches(j) /\ FetchRenews(j) /\ ~candles_job[j].late
      BY <1>1, <1>3, <2>2 DEF Renews
    <3>2. ASSUME NEW b \in Candles!Bars, stored'[b] = "partial", ~Excused(b)'
          PROVE  IF candles_job'[j].deep THEN candles_job'[j].from <= b ELSE candles_now' < b + candles_job'[j].limit
      <4>1. IF candles_job[j].deep THEN candles_job[j].from <= b ELSE candles_now + 1 < b + candles_job[j].limit
        BY <1>1, <1>4, <3>1, <3>2 DEF FetchRenews
      <4>2. /\ candles_job'[j].deep = candles_job[j].deep
            /\ candles_job'[j].from = candles_job[j].from
            /\ candles_job'[j].limit = candles_job[j].limit /\ candles_now' = candles_now + 1
        BY <1>1, <1>3, <2>2
      <4> QED BY <4>1, <4>2
    <3>3. candles_job'[j].late BY <1>3, <2>2
    <3> QED BY <3>2, <3>3 DEF FetchRenews
  <2>3. ASSUME NEW j \in candles_Jobs, Saves(j)' PROVE SaveRenews(j)'
    <3>1. Saves(j) /\ SaveRenews(j) BY <1>3, <2>3 DEF Renews
    <3> QED BY <1>1, <1>3, <1>4, <2>3, <3>1 DEF SaveRenews
  <2> QED BY <2>1, <2>2, <2>3 DEF Renews
<1> QED BY <1>5, <1>6, <1>7, <1>8

(* A bar is written or its write fails; the job goes on with the rest.     *)
LEMMA SaveFacts ==
    ASSUME CandlesIInv, NEW j \in candles_Jobs, Candles!SaveNext(j)
    PROVE  LET m == Candles!Min(candles_job[j].todo)
               form == IF m = candles_job[j].seen THEN "partial" ELSE "final"
           IN  /\ Saves(j) /\ candles_job[j] \in SavePlan /\ candles_job[j].seen \in Nat
               /\ candles_job[j].late \in BOOLEAN
               /\ m \in candles_job[j].todo /\ m \in Candles!Bars /\ m \in Nat /\ m \notin Unusable
               /\ m <= candles_job[j].seen
               /\ \A c \in candles_job[j].todo : c \in Nat /\ m <= c /\ c <= candles_job[j].seen
               /\ \A x \in candles_Jobs : x # j => candles_job'[x] = candles_job[x]
               /\ ~Fetches(j) /\ ~Fetches(j)'
               /\ Saves(j)' => /\ candles_job'[j].late = candles_job[j].late
                               /\ candles_job'[j].seen = candles_job[j].seen
                               /\ candles_job'[j].todo = candles_job[j].todo \ {m}
                               /\ candles_job[j].todo \ {m} # {}
               /\ candles_job[j].todo \ {m} # {} => Saves(j)'
               /\ candles_job' \in [candles_Jobs -> {Candles!Idle} \cup FetchPlan \cup SavePlan]
               /\ candles_now' = candles_now /\ blind' = blind /\ seams' = seams
               /\ \/ Candles!Noted(m, form) /\ faults' = faults
                  \/ /\ faults < MaxFaults /\ faults' = faults + 1
                     /\ lost' = lost \cup {m} /\ stored' = stored /\ seeded' = seeded
                     /\ stale' = stale
<1> USE DEF CandlesIInv
<1> DEFINE plan == candles_job[j]
           todo == plan.todo
           m == Candles!Min(todo)
           rest == todo \ {m}
           next == IF rest = {} THEN Candles!Idle ELSE [plan EXCEPT !.todo = rest]
<1>1. Saves(j) /\ plan \in SavePlan BY JobFacts DEF Candles!SaveNext, Saves
<1>2. todo \in SUBSET Candles!Bars /\ todo # {} BY <1>1 DEF SavePlan, InTime
<1>3. m \in todo /\ \A c \in todo : m <= c
  <2> HIDE DEF todo
  <2> QED BY <1>2, LeastOf
<1>4. candles_job' = [candles_job EXCEPT ![j] = next] BY DEF Candles!SaveNext
<1>5. next = Candles!Idle \/ next \in SavePlan
  <2> HIDE DEF plan, rest
  <2>1. rest = {} \/ rest \in SUBSET Candles!Bars BY <1>2 DEF rest
  <2>2. rest \in SUBSET Candles!Bars => [plan EXCEPT !.todo = rest] \in SavePlan
    BY <1>1 DEF SavePlan
  <2> QED BY <2>1, <2>2
<1>6. rest # {} => /\ next.at = "save" /\ next.late = plan.late /\ next.todo = rest
                   /\ next.seen = plan.seen
  <2> HIDE DEF plan, rest
  <2>1. rest # {} => next = [plan EXCEPT !.todo = rest] OBVIOUS
  <2> HIDE DEF next
  <2> QED BY <1>1, <2>1 DEF SavePlan
<1>7. rest = {} => next = Candles!Idle OBVIOUS
<1> HIDE DEF next
<1>8. candles_job'[j] = next /\ \A x \in candles_Jobs : x # j => candles_job'[x] = candles_job[x]
  BY <1>4 DEF CandlesTypes
<1>9. candles_job' \in [candles_Jobs -> {Candles!Idle} \cup FetchPlan \cup SavePlan]
  BY <1>4, <1>5 DEF CandlesTypes
<1>10. ~Fetches(j) /\ ~Fetches(j)'
  BY <1>1, <1>6, <1>7, <1>8 DEF Fetches, Saves, Candles!Idle
<1>11. Saves(j)' <=> rest # {} BY <1>6, <1>7, <1>8 DEF Saves, Candles!Idle
<1>12. /\ plan.seen \in Nat /\ plan.late \in BOOLEAN
       /\ \A c \in todo : c \in Nat /\ c <= plan.seen /\ c \notin Unusable
  BY <1>1, <1>2, DownloadFacts DEF SavePlan, InTime
<1>13. m \in Candles!Bars /\ m \in Nat BY <1>2, <1>3, DownloadFacts
<1>14. /\ candles_now' = candles_now /\ blind' = blind /\ seams' = seams
       /\ \/ Candles!Noted(m, IF m = plan.seen THEN "partial" ELSE "final") /\ faults' = faults
          \/ /\ faults < MaxFaults /\ faults' = faults + 1
             /\ lost' = lost \cup {m} /\ stored' = stored /\ seeded' = seeded
             /\ stale' = stale
  BY DEF Candles!SaveNext, Candles!MayFail
<1> QED BY <1>1, <1>3, <1>6, <1>8, <1>9, <1>10, <1>11, <1>12, <1>13, <1>14

LEMMA NotedFacts ==
    ASSUME CandlesTypes, NEW m \in Candles!Bars, NEW form \in {"partial", "final"},
           Candles!Noted(m, form),
           blind' = blind, seams' = seams
    PROVE  /\ stored' \in [Candles!Bars -> {"none", "partial", "final"}]
           /\ stored'[m] = form /\ \A b \in Candles!Bars : b # m => stored'[b] = stored[b]
           /\ Candles!Recorded' = Candles!Recorded \cup {m}
           /\ seeded' = IF Candles!Recorded = {} THEN m ELSE seeded
           /\ lost' \subseteq Candles!Bars /\ stale' \subseteq Candles!Bars
           /\ \A b : b # m => (b \in lost' <=> b \in lost) /\ (b \in stale' <=> b \in stale)
           /\ form = "partial" => lost' = lost /\ stale \subseteq stale'
           /\ form = "partial" /\ (m < Candles!Latest \/ stored[m] = "final") => m \in stale'
           /\ \A b : Accounted(b) => Accounted(b)'
           /\ Accounted(m)'
           /\ \A b : Excused(b) /\ (b # m \/ form = "partial") => Excused(b)'
<1>1. /\ stored' = [stored EXCEPT ![m] = form]
      /\ seeded' = IF Candles!Recorded = {} THEN m ELSE seeded
      /\ lost' = IF form = "final" THEN lost \ {m} ELSE lost
      /\ stale' = IF form = "final" THEN stale \ {m}
                  ELSE IF m < Candles!Latest \/ stored[m] = "final" THEN stale \cup {m} ELSE stale
  BY DEF Candles!Noted
<1>2. /\ stored' \in [Candles!Bars -> {"none", "partial", "final"}]
      /\ stored'[m] = form /\ \A b \in Candles!Bars : b # m => stored'[b] = stored[b]
  BY <1>1 DEF CandlesTypes
<1>3. Candles!Recorded' = Candles!Recorded \cup {m} BY <1>2 DEF Candles!Recorded
<1>4. lost' \subseteq Candles!Bars /\ stale' \subseteq Candles!Bars
  BY <1>1 DEF CandlesTypes
<1>5. \A b : b # m => (b \in lost' <=> b \in lost) /\ (b \in stale' <=> b \in stale) BY <1>1
<1>6. form = "partial" => lost' = lost /\ stale \subseteq stale' BY <1>1
<1>7. form = "partial" /\ (m < Candles!Latest \/ stored[m] = "final") => m \in stale' BY <1>1
<1>8. lost \subseteq lost' \cup Candles!Recorded' BY <1>3, <1>5
<1>9. \A b : Accounted(b) => Accounted(b)' BY <1>3, <1>8, AccountedGrows
<1>10. Accounted(m)' BY <1>3 DEF Accounted
<1>11. \A b : Excused(b) /\ (b # m \/ form = "partial") => Excused(b)'
  BY <1>5, <1>6 DEF Excused
<1> QED BY <1>1, <1>2, <1>3, <1>4, <1>5, <1>6, <1>7, <1>9, <1>10, <1>11
LEMMA WriteFailureKeepsIInv ==
    ASSUME CandlesIInv, NEW j \in candles_Jobs, Candles!SaveNext(j),
           faults < MaxFaults, faults' = faults + 1, lost' = lost \cup {Candles!Min(candles_job[j].todo)},
           stored' = stored, seeded' = seeded, stale' = stale
    PROVE  CandlesIInv'
<1> USE DEF CandlesIInv
<1>0. PICK m : m = Candles!Min(candles_job[j].todo) OBVIOUS
<1>1. /\ Saves(j) /\ candles_job[j] \in SavePlan
      /\ m \in candles_job[j].todo /\ m \in Candles!Bars
      /\ \A x \in candles_Jobs : x # j => candles_job'[x] = candles_job[x]
      /\ ~Fetches(j) /\ ~Fetches(j)'
      /\ Saves(j)' => /\ candles_job'[j].late = candles_job[j].late
                      /\ candles_job'[j].seen = candles_job[j].seen
                      /\ candles_job'[j].todo = candles_job[j].todo \ {m}
                      /\ candles_job[j].todo \ {m} # {}
      /\ candles_job[j].todo \ {m} # {} => Saves(j)'
      /\ candles_job' \in [candles_Jobs -> {Candles!Idle} \cup FetchPlan \cup SavePlan]
      /\ candles_now' = candles_now /\ blind' = blind /\ seams' = seams
  BY <1>0, SaveFacts
<1>2. lost' = lost \cup {m} BY <1>0
<1>3. Candles!Recorded' = Candles!Recorded BY DEF Candles!Recorded
<1>4. \A b : Accounted(b) => Accounted(b)' BY <1>1, <1>2, <1>3, AccountedGrows
<1>5. \A b : Excused(b) => Excused(b)' BY <1>1, <1>2, ExcusedGrows
<1>6. Accounted(m)' /\ Excused(m)' BY <1>2 DEF Accounted, Excused
<1>7. \A x \in candles_Jobs : x # j => /\ candles_job'[x] = candles_job[x]
                                       /\ (Fetches(x)' <=> Fetches(x))
                                       /\ (Saves(x)' <=> Saves(x))
  BY <1>1 DEF Fetches, Saves
<1>8. CandlesTypes'
  <2>1. faults' \in 0 .. MaxFaults BY DownloadFacts DEF CandlesTypes
  <2> QED BY <1>1, <1>2, <2>1 DEF CandlesTypes
<1>9. InTime' BY <1>1, <1>3, <1>7 DEF InTime
<1>10. backfill_enabled => Reaches'
  <2> SUFFICES ASSUME backfill_enabled PROVE Reaches' OBVIOUS
  <2>1. \A b \in Candles!Bars, r \in Candles!Recorded' : seeded' <= b /\ b <= r => Accounted(b)'
    BY <1>3, <1>4 DEF Reaches
  <2>2. ASSUME NEW x \in candles_Jobs, Fetches(x)' PROVE FetchReaches(x)'
    <3>1. x # j /\ candles_job'[x] = candles_job[x] /\ FetchReaches(x)
      BY <1>1, <1>7, <2>2 DEF Reaches
    <3>2. ASSUME NEW b \in Candles!Bars,
                 \E other \in candles_Jobs :
                     Saves(other) /\ candles_job[other].late /\ b \in candles_job[other].todo
          PROVE  \/ Accounted(b)'
                 \/ \E other \in candles_Jobs :
                      Saves(other)' /\ candles_job'[other].late /\ b \in candles_job'[other].todo
      BY <1>1, <1>6, <1>7, <3>2
    <3> QED BY <1>1, <1>3, <1>4, <3>1, <3>2 DEF FetchReaches
  <2>3. ASSUME Saves(j)' PROVE SaveReaches(j)'
    <3>1. SaveReaches(j) BY <1>1 DEF Reaches
    <3> QED BY <1>1, <1>2, <1>3, <1>4, <1>6, <2>3, <3>1 DEF SaveReaches
  <2>4. ASSUME NEW x \in candles_Jobs, x # j, Saves(x)' PROVE SaveReaches(x)'
    <3>1. candles_job'[x] = candles_job[x] /\ SaveReaches(x) BY <1>7, <2>4 DEF Reaches
    <3> QED BY <1>2, <1>3, <1>4, <3>1 DEF SaveReaches
  <2> QED BY <2>1, <2>2, <2>3, <2>4 DEF Reaches
<1>11. Renews'
  <2>1. \A b \in Candles!Bars, r \in Candles!Recorded' : stored'[b] = "partial" /\ b < r =>
      Excused(b)'
    BY <1>3, <1>5 DEF Renews
  <2>2. ASSUME NEW x \in candles_Jobs, Fetches(x)' PROVE FetchRenews(x)'
    <3>1. x # j /\ candles_job'[x] = candles_job[x] /\ FetchRenews(x)
      BY <1>1, <1>7, <2>2 DEF Renews
    <3> QED BY <1>1, <1>5, <3>1 DEF FetchRenews
  <2>3. ASSUME Saves(j)' PROVE SaveRenews(j)'
    <3>1. SaveRenews(j) BY <1>1 DEF Renews
    <3> QED BY <1>1, <1>2, <1>5, <1>6, <2>3, <3>1 DEF SaveRenews
  <2>4. ASSUME NEW x \in candles_Jobs, x # j, Saves(x)' PROVE SaveRenews(x)'
    <3>1. candles_job'[x] = candles_job[x] /\ SaveRenews(x) BY <1>7, <2>4 DEF Renews
    <3> QED BY <1>2, <1>5, <3>1 DEF SaveRenews
  <2> QED BY <2>1, <2>2, <2>3, <2>4 DEF Renews
<1> QED BY <1>8, <1>9, <1>10, <1>11
LEMMA WriteKeepsIInv ==
    ASSUME CandlesIInv, NEW j \in candles_Jobs, Candles!SaveNext(j), faults' = faults,
           Candles!Noted(Candles!Min(candles_job[j].todo), IF Candles!Min(candles_job[j].todo) = candles_job[j].seen THEN "partial" ELSE "final")
    PROVE  CandlesIInv'
<1> USE DEF CandlesIInv
<1>0. PICK m : m = Candles!Min(candles_job[j].todo) OBVIOUS
<1>00. PICK form : form = IF m = candles_job[j].seen THEN "partial" ELSE "final" OBVIOUS
<1>1. /\ Saves(j) /\ candles_job[j] \in SavePlan /\ candles_job[j].seen \in Nat
      /\ m \in candles_job[j].todo /\ m \in Candles!Bars /\ m \in Nat /\ m \notin Unusable
      /\ m <= candles_job[j].seen
      /\ \A c \in candles_job[j].todo : c \in Nat /\ m <= c /\ c <= candles_job[j].seen
      /\ \A x \in candles_Jobs : x # j => candles_job'[x] = candles_job[x]
      /\ ~Fetches(j) /\ ~Fetches(j)'
      /\ Saves(j)' => /\ candles_job'[j].late = candles_job[j].late
                      /\ candles_job'[j].seen = candles_job[j].seen
                      /\ candles_job'[j].todo = candles_job[j].todo \ {m}
                      /\ candles_job[j].todo \ {m} # {}
      /\ candles_job[j].todo \ {m} # {} => Saves(j)'
      /\ candles_job' \in [candles_Jobs -> {Candles!Idle} \cup FetchPlan \cup SavePlan]
      /\ candles_now' = candles_now /\ blind' = blind /\ seams' = seams
  BY <1>0, SaveFacts
<1>2. form \in {"partial", "final"} /\ Candles!Noted(m, form) BY <1>0, <1>00
<1>3. /\ stored' \in [Candles!Bars -> {"none", "partial", "final"}]
      /\ stored'[m] = form /\ \A b \in Candles!Bars : b # m => stored'[b] = stored[b]
      /\ Candles!Recorded' = Candles!Recorded \cup {m}
      /\ seeded' = IF Candles!Recorded = {} THEN m ELSE seeded
      /\ lost' \subseteq Candles!Bars /\ stale' \subseteq Candles!Bars
      /\ \A b : b # m => (b \in lost' <=> b \in lost) /\ (b \in stale' <=> b \in stale)
      /\ form = "partial" => lost' = lost /\ stale \subseteq stale'
      /\ form = "partial" /\ (m < Candles!Latest \/ stored[m] = "final") => m \in stale'
      /\ \A b : Accounted(b) => Accounted(b)'
      /\ Accounted(m)'
      /\ \A b : Excused(b) /\ (b # m \/ form = "partial") => Excused(b)'
  BY <1>1, <1>2, NotedFacts
<1>4. \A x \in candles_Jobs : x # j => /\ candles_job'[x] = candles_job[x]
                                       /\ (Fetches(x)' <=> Fetches(x))
                                       /\ (Saves(x)' <=> Saves(x))
  BY <1>1 DEF Fetches, Saves
<1>5. /\ candles_now \in Nat /\ candles_now >= 1
      /\ \A x \in candles_Jobs : Saves(x) =>
           /\ candles_job[x].seen \in Nat /\ candles_job[x].todo \subseteq Candles!Bars
           /\ \A c \in candles_job[x].todo : c <= candles_job[x].seen /\ c \notin Unusable
           /\ candles_job[x].seen <= candles_now /\ candles_now <= candles_job[x].seen + 1
           /\ candles_job[x].seen = candles_now \/ (candles_job[x].late /\ candles_job[x].seen = candles_now - 1)
  <2>1. candles_now \in Nat /\ candles_now >= 1 BY NowFacts
  <2>2. ASSUME NEW x \in candles_Jobs, Saves(x)
        PROVE  candles_job[x].seen \in Nat /\ candles_job[x].todo \subseteq Candles!Bars
    BY <2>2, JobFacts, DownloadFacts DEF SavePlan
  <2>3. ASSUME NEW x \in candles_Jobs, Saves(x)
        PROVE  /\ \A c \in candles_job[x].todo : c <= candles_job[x].seen /\ c \notin Unusable
               /\ candles_job[x].seen = candles_now \/ (candles_job[x].late /\ candles_job[x].seen = candles_now - 1)
    BY <2>3 DEF InTime
  <2> QED BY <2>1, <2>2, <2>3
<1>6. CandlesTypes' BY <1>1, <1>3, DownloadFacts DEF CandlesTypes
<1>7. InTime'
  <2>1. seeded' \in Candles!Bars BY <1>1, <1>3 DEF InTime
  <2>2. \A b \in Candles!Recorded' : b <= candles_now /\ b \notin Unusable
    <3>1. m <= candles_now BY <1>1, <1>5
    <3> QED BY <1>1, <1>3, <3>1 DEF InTime
  <2>3. Candles!Recorded' # {} BY <1>3
  <2>4. ASSUME NEW x \in candles_Jobs, Fetches(x)'
        PROVE  IF candles_job[x].deep THEN Candles!Recorded # {} /\ candles_job[x].from + Page <= candles_now + 1 /\ 1 <= candles_job[x].from
               ELSE candles_job[x].limit >= base
    BY <1>1, <1>4, <2>4 DEF InTime
  <2>5. ASSUME NEW x \in candles_Jobs, Saves(x)'
        PROVE  /\ candles_job'[x].todo # {}
               /\ \A c \in candles_job'[x].todo : c <= candles_job'[x].seen /\ c \notin Unusable
               /\ candles_job'[x].seen = candles_now \/ (candles_job'[x].late /\ candles_job'[x].seen = candles_now - 1)
    <3>1. CASE x = j BY <1>1, <1>5, <2>5, <3>1
    <3>2. CASE x # j BY <1>4, <2>5, <3>2 DEF InTime
    <3> QED BY <3>1, <3>2
  <2>6. ASSUME NEW x \in candles_Jobs,
               Fetches(x)' PROVE candles_job'[x] = candles_job[x] BY <1>1, <2>6
  <2>7. \A b \in blind' : b <= candles_now BY <1>1 DEF InTime
  <2> QED BY <1>1, <2>1, <2>2, <2>3, <2>4, <2>5, <2>6, <2>7 DEF InTime
<1>8. ASSUME NEW b \in Candles!Bars
      PROVE  /\ b \in Nat
             /\ b \in Unusable \/ (b # m /\ b \in lost) => Accounted(b)'
             /\ Candles!Recorded = {} => Candles!Recorded' = {m} /\ seeded' = m
             /\ Candles!Recorded # {} => seeded' = seeded
BY <1>3, DownloadFacts DEF Accounted
<1>9. backfill_enabled => Reaches'
  <2> SUFFICES ASSUME backfill_enabled PROVE Reaches' OBVIOUS
  <2>1. SaveReaches(j) BY <1>1 DEF Reaches
  <2>2. Candles!Recorded = {} => /\ candles_job[j].seen < m + base
                                 /\ \A b \in Candles!Bars : candles_job[j].seen < b + base /\ b <= candles_job[j].seen =>
                                      b \in candles_job[j].todo \cup Unusable \cup lost
    BY <1>1, <2>1 DEF SaveReaches
  <2>3. ASSUME NEW b \in Candles!Bars, NEW r \in Candles!Recorded', seeded' <= b, b <= r
        PROVE  Accounted(b)'
    <3>1. b \in Nat /\ (r = m \/ (r \in Candles!Recorded /\ Candles!Recorded # {})) BY <1>3, <1>8
    <3>2. CASE Candles!Recorded = {} BY <1>1, <1>3, <1>8, <2>3, <3>1, <3>2
    <3>3. CASE Candles!Recorded # {} /\ r \in Candles!Recorded
      BY <1>3, <1>8, <2>3, <3>3 DEF Reaches
    <3>4. CASE Candles!Recorded # {} /\ r = m
      <4>1. b = m \/ b < m BY <1>1, <2>3, <3>1, <3>4
      <4>2. CASE b < m
        <5>1. b \notin candles_job[j].todo BY <1>1, <3>1, <4>2
        <5> QED BY <1>1, <1>3, <1>8, <2>1, <2>3, <3>4, <4>2, <5>1 DEF SaveReaches
      <4> QED BY <1>3, <4>1, <4>2
    <3> QED BY <3>1, <3>2, <3>3, <3>4
  <2>4. ASSUME NEW b \in Candles!Bars,
               \E other \in candles_Jobs :
                   Saves(other) /\ candles_job[other].late /\ b \in candles_job[other].todo
        PROVE  \/ Accounted(b)'
               \/ \E other \in candles_Jobs :
                    Saves(other)' /\ candles_job'[other].late /\ b \in candles_job'[other].todo
    BY <1>1, <1>3, <1>4, <2>4
  <2>5. ASSUME NEW x \in candles_Jobs, Fetches(x)' PROVE FetchReaches(x)'
    <3>1. x # j /\ Fetches(x) /\ candles_job'[x] = candles_job[x] BY <1>1, <1>4, <2>5
    <3>2. FetchReaches(x) BY <3>1 DEF Reaches
    <3>3. CASE Candles!Recorded # {}
      BY <1>1, <1>3, <2>4, <3>1, <3>2, <3>3 DEF FetchReaches
    <3>4. CASE Candles!Recorded = {}
      <4>1. ~candles_job[x].deep /\ candles_job[x].limit = base BY <3>1, <3>4 DEF InTime
      <4>2. ASSUME NEW b \in Candles!Bars, m <= b
            PROVE  /\ b + base <= candles_now => Accounted(b)'
                   /\ ~candles_job[x].late /\ b + base <= candles_now + 1 =>
                        \/ Accounted(b)'
                        \/ \E other \in candles_Jobs :
                             Saves(other)' /\ candles_job'[other].late /\ b \in candles_job'[other].todo
        <5>1. b \in Nat /\ candles_job[j].seen < m + base BY <1>8, <2>2, <3>4
        <5>2. CASE b + base <= candles_now
          <6>1. b = m BY <1>1, <1>5, <4>2, <5>1, <5>2, DownloadFacts
          <6> QED BY <1>3, <6>1
        <5>3. CASE b + base = candles_now + 1 /\ b # m
          <6>1. candles_job[j].seen # candles_now
            BY <1>1, <1>5, <4>2, <5>1, <5>3, DownloadFacts
          <6>2. candles_job[j].late /\ candles_job[j].seen = candles_now - 1
            BY <1>1, <1>5, <6>1
          <6>3. candles_job[j].seen < b + base /\ b <= candles_job[j].seen
            BY <1>5, <5>1, <5>3, <6>2, DownloadFacts
          <6>4. b \in candles_job[j].todo \cup Unusable \cup lost BY <2>2, <3>4, <6>3
          <6>5. b \in candles_job[j].todo =>
              Saves(j)' /\ candles_job'[j].late /\ b \in candles_job'[j].todo
            BY <1>1, <5>3, <6>2
          <6>6. ~(b + base <= candles_now) BY <1>5, <5>1, <5>3, DownloadFacts
          <6>7. \/ Accounted(b)'
                \/ Saves(j)' /\ candles_job'[j].late /\ b \in candles_job'[j].todo
            BY <1>8, <5>3, <6>4, <6>5
          <6> QED BY <6>6, <6>7
        <5>4. b + base <= candles_now + 1 => b + base <= candles_now \/ b + base = candles_now + 1
          BY <1>5, <5>1, DownloadFacts
        <5>5. CASE b = m BY <1>3, <5>5
        <5>6. CASE ~(b + base <= candles_now + 1)
          <6>1. ~(b + base <= candles_now) BY <1>5, <5>1, <5>6, DownloadFacts
          <6> QED BY <5>6, <6>1
        <5> QED BY <5>2, <5>3, <5>4, <5>5, <5>6
      <4> QED BY <1>1, <1>8, <3>1, <3>4, <4>1, <4>2 DEF FetchReaches
    <3> QED BY <3>3, <3>4
  <2>6. ASSUME Saves(j)' PROVE SaveReaches(j)'
    <3>1. ASSUME NEW b \in Candles!Bars, NEW c \in candles_job[j].todo, c # m,
                 seeded' <= b, b < c, b # m
          PROVE  b \in candles_job[j].todo \/ Accounted(b)'
      <4>1. CASE Candles!Recorded = {}
        <5>1. b \in Nat /\ m <= b /\ c \in Nat /\ c <= candles_job[j].seen
          BY <1>1, <1>8, <3>1, <4>1
        <5>2. candles_job[j].seen < b + base /\ b <= candles_job[j].seen
          BY <1>1, <2>2, <3>1, <4>1, <5>1, DownloadFacts
        <5> QED BY <1>8, <2>2, <3>1, <4>1, <5>2
      <4>2. CASE Candles!Recorded # {} BY <1>3, <1>8, <2>1, <3>1, <4>2 DEF SaveReaches
      <4> QED BY <4>1, <4>2
    <3> QED BY <1>1, <1>3, <2>6, <3>1 DEF SaveReaches
  <2>7. ASSUME NEW x \in candles_Jobs, x # j, Saves(x)' PROVE SaveReaches(x)'
    <3>1. Saves(x) /\ candles_job'[x] = candles_job[x] /\ SaveReaches(x)
      BY <1>4, <2>7 DEF Reaches
    <3>2. ASSUME NEW b \in Candles!Bars, NEW c \in candles_job[x].todo, seeded' <= b,
                 b < c
          PROVE  b \in candles_job[x].todo \/ Accounted(b)'
      <4>1. CASE Candles!Recorded = {}
        <5>1. /\ b \in Nat /\ m <= b /\ c \in Nat /\ c <= candles_job[x].seen
              /\ candles_job[x].seen \in Nat /\ candles_job[x].seen <= candles_now
          BY <1>5, <1>8, <3>1, <3>2, <4>1, DownloadFacts
        <5>2. CASE candles_job[x].seen < b + base
          <6>1. b <= candles_job[x].seen BY <3>2, <5>1
          <6>2. b \in candles_job[x].todo \cup Unusable \cup lost
            BY <3>1, <4>1, <5>2, <6>1 DEF SaveReaches
          <6> QED BY <1>3, <1>8, <6>2
        <5>3. CASE b + base <= candles_job[x].seen
          <6>1. b = m BY <1>1, <1>5, <2>2, <4>1, <5>1, <5>3, DownloadFacts
          <6> QED BY <1>3, <6>1
        <5> QED BY <5>1, <5>2, <5>3, DownloadFacts
      <4>2. CASE Candles!Recorded # {} BY <1>3, <1>8, <3>1, <3>2, <4>2 DEF SaveReaches
      <4> QED BY <4>1, <4>2
    <3> QED BY <1>3, <3>1, <3>2 DEF SaveReaches
  <2> QED BY <2>3, <2>5, <2>6, <2>7 DEF Reaches
<1>10. form = "partial" => m = candles_job[j].seen BY <1>00
<1>11. form = "partial" \/ form = "final" BY <1>2
<1>12. \A b \in Candles!Bars : b \in Nat /\ (b # m /\ Excused(b) => Excused(b)')
  BY <1>3, DownloadFacts
<1>13. Renews'
  <2>1. ASSUME NEW b \in Candles!Bars, NEW r \in Candles!Recorded',
               stored'[b] = "partial", b < r
        PROVE  Excused(b)'
    <3>1. CASE b = m
      <4>1. r \in Candles!Recorded /\ form = "partial" BY <1>1, <1>3, <2>1, <3>1
      <4>2. r \in Nat /\ r <= Candles!Latest /\ Candles!Latest \in Nat
        BY <4>1, LatestFacts, RecordedFacts, DownloadFacts
      <4>3. m < Candles!Latest BY <1>1, <2>1, <3>1, <4>2
      <4> QED BY <1>3, <3>1, <4>1, <4>3 DEF Excused
    <3>2. CASE b # m /\ r \in Candles!Recorded BY <1>3, <1>12, <2>1, <3>2 DEF Renews
    <3>3. CASE b # m /\ r = m
      <4>4. b \in Nat /\ b < m BY <1>12, <2>1, <3>3
      <4>5. b \notin candles_job[j].todo BY <1>1, <4>4
      <4>6. stored[b] = "partial" BY <1>3, <2>1, <3>3
      <4>1. b \notin candles_job[j].todo /\ stored[b] = "partial" BY <4>5, <4>6
      <4>2. SaveRenews(j) BY <1>1 DEF Renews
      <4> QED BY <1>1, <1>12, <2>1, <3>3, <4>1, <4>2 DEF SaveRenews
    <3> QED BY <1>3, <3>1, <3>2, <3>3
  <2>2. ASSUME NEW x \in candles_Jobs, Fetches(x)' PROVE FetchRenews(x)'
    <3>1. Fetches(x) /\ candles_job'[x] = candles_job[x] /\ candles_job[x] \in FetchPlan
      BY <1>1, <1>4, <2>2, JobFacts
    <3>2. FetchRenews(x) BY <3>1 DEF Renews
    <3>3. ASSUME form = "partial"
          PROVE  IF candles_job[x].deep THEN candles_job[x].from <= m
                 ELSE candles_now < m + candles_job[x].limit /\ candles_now + 1 < m + candles_job[x].limit
      <4>1. candles_now <= m + 1 BY <1>1, <1>5, <1>10, <3>3
      <4>2. candles_job[x].from \in Nat /\ candles_job[x].limit \in Nat
        BY <3>1 DEF FetchPlan
      <4>3. IF candles_job[x].deep THEN candles_job[x].from + Page <= candles_now + 1 ELSE candles_job[x].limit >= base
        BY <3>1 DEF InTime
      <4> QED BY <1>1, <1>5, <4>1, <4>2, <4>3, DownloadFacts
    <3> QED BY <1>1, <1>3, <1>11, <1>12, <3>1, <3>2, <3>3 DEF FetchRenews
  <2>3. ASSUME Saves(j)' PROVE SaveRenews(j)'
    <3>1. SaveRenews(j) BY <1>1 DEF Renews
    <3>2. form = "final" BY <1>1, <1>10, <1>11, <2>3
    <3>3. ASSUME NEW b \in Candles!Bars, NEW c \in candles_job[j].todo, c # m,
                 stored'[b] = "partial", b < c
          PROVE  (b \in candles_job[j].todo /\ b # m) \/ Excused(b)'
      <4>1. b # m /\ stored[b] = "partial" BY <1>3, <3>2, <3>3
      <4> QED BY <1>12, <3>1, <3>3, <4>1 DEF SaveRenews
    <3>4. ASSUME candles_job[j].seen \in candles_job[j].todo,
                 candles_job[j].seen - 1 \in Candles!Bars
          PROVE  \/ candles_job[j].seen - 1 \in (candles_job[j].todo \ {m}) \cup Unusable \cup lost' \cup stale'
                 \/ stored'[candles_job[j].seen - 1] = "final"
      <4>1. CASE candles_job[j].seen - 1 = m BY <1>3, <3>2, <4>1
      <4>2. CASE candles_job[j].seen - 1 # m BY <1>3, <3>1, <3>4, <4>2 DEF SaveRenews
      <4> QED BY <4>1, <4>2
    <3> QED BY <1>1, <2>3, <3>3, <3>4 DEF SaveRenews
  <2>4. ASSUME NEW x \in candles_Jobs, x # j, Saves(x)' PROVE SaveRenews(x)'
    <3>1. Saves(x) /\ candles_job'[x] = candles_job[x] /\ SaveRenews(x)
      BY <1>4, <2>4 DEF Renews
    <3>2. ASSUME NEW b \in Candles!Bars, NEW c \in candles_job[x].todo,
                 stored'[b] = "partial", b < c
          PROVE  b \in candles_job[x].todo \/ Excused(b)'
      <4>1. CASE b # m BY <1>3, <1>12, <3>1, <3>2, <4>1 DEF SaveRenews
      <4>2. CASE b = m
        <5>1. form = "partial" /\ m = candles_job[j].seen BY <1>3, <1>10, <3>2, <4>2
        <5>2. c \in Nat /\ c <= candles_job[x].seen BY <1>5, <3>1, DownloadFacts
        <5>3. c = candles_job[x].seen /\ m = candles_job[x].seen - 1
          BY <1>1, <1>5, <3>1, <3>2, <4>2, <5>1, <5>2
        <5>4. \/ m \in candles_job[x].todo \cup Unusable \cup lost \cup stale
              \/ stored[m] = "final"
          BY <1>1, <3>1, <5>3 DEF SaveRenews
        <5> QED BY <1>1, <1>3, <4>2, <5>1, <5>4 DEF Excused
      <4> QED BY <4>1, <4>2
    <3>3. ASSUME candles_job[x].seen \in candles_job[x].todo,
                 candles_job[x].seen - 1 \in Candles!Bars
          PROVE  \/ candles_job[x].seen - 1 \in candles_job[x].todo \cup Unusable \cup lost' \cup stale'
                 \/ stored'[candles_job[x].seen - 1] = "final"
      <4> DEFINE s == candles_job[x].seen - 1
      <4>1. s \in candles_job[x].todo \cup Unusable \cup lost \cup stale \/ stored[s] = "final"
        BY <3>1, <3>3 DEF SaveRenews
      <4>2. s \in Candles!Bars BY <3>3
      <4> HIDE DEF s
      <4>3. s \in candles_job[x].todo \cup Unusable \cup lost' \cup stale' \/ stored'[s] = "final"
        <5>1. CASE s # m BY <1>3, <4>1, <4>2, <5>1
        <5>2. CASE s = m /\ form = "final" BY <1>3, <5>2
        <5>3. CASE s = m /\ form = "partial" BY <1>3, <4>1, <5>3
        <5> QED BY <1>11, <5>1, <5>2, <5>3
      <4> QED BY <4>3 DEF s
    <3> QED BY <3>1, <3>2, <3>3 DEF SaveRenews
  <2> QED BY <2>1, <2>2, <2>3, <2>4 DEF Renews
<1> QED BY <1>6, <1>7, <1>9, <1>13

LEMMA SaveNextKeepsIInv ==
    ASSUME CandlesIInv, NEW j \in candles_Jobs, Candles!SaveNext(j)
    PROVE  CandlesIInv'
<1>1. CASE faults' = faults /\ Candles!Noted(Candles!Min(candles_job[j].todo),
             IF Candles!Min(candles_job[j].todo) = candles_job[j].seen THEN "partial" ELSE "final")
  BY <1>1, WriteKeepsIInv
<1>2. CASE /\ faults < MaxFaults /\ faults' = faults + 1
           /\ lost' = lost \cup {Candles!Min(candles_job[j].todo)}
           /\ stored' = stored /\ seeded' = seeded /\ stale' = stale
  BY <1>2, WriteFailureKeepsIInv
<1> QED BY <1>1, <1>2 DEF Candles!SaveNext, Candles!MayFail

LEMMA CandlesNextKeepsIInv == CandlesIInv /\ [Candles!Next]_Candles!downloadVars => CandlesIInv'
<1> SUFFICES ASSUME CandlesIInv,
                    [Candles!Next]_Candles!downloadVars PROVE CandlesIInv' OBVIOUS
<1>1. ASSUME NEW j \in candles_Jobs, Candles!Plan(j) PROVE CandlesIInv'
  BY <1>1, PlanKeepsIInv
<1>2. ASSUME NEW j \in candles_Jobs, Candles!Fetch(j) PROVE CandlesIInv'
  BY <1>2, FetchKeepsIInv
<1>3. ASSUME NEW j \in candles_Jobs, Candles!SaveNext(j) PROVE CandlesIInv'
  BY <1>3, SaveNextKeepsIInv
<1>4. CASE Candles!Stop BY <1>4, StopKeepsIInv
<1>5. CASE Candles!NextBar BY <1>5, NextBarKeepsIInv
<1>6. CASE UNCHANGED Candles!downloadVars
  <2>1. /\ candles_now' = candles_now /\ stored' = stored /\ candles_job' = candles_job
        /\ faults' = faults
        /\ seeded' = seeded /\ blind' = blind /\ lost' = lost /\ seams' = seams
        /\ stale' = stale
    BY <1>6 DEF Candles!downloadVars
  <2>2. CandlesTypes' BY <2>1 DEF CandlesIInv, CandlesTypes
  <2>3. InTime' BY <2>1 DEF CandlesIInv, InTime, Candles!Recorded, Fetches, Saves
  <2>4. \A j : (FetchReaches(j) <=> FetchReaches(j)') /\ (SaveReaches(j) <=> SaveReaches(j)')
    BY <2>1 DEF FetchReaches, SaveReaches, Candles!Recorded, Accounted, Saves
  <2>5. \A j : (FetchRenews(j) <=> FetchRenews(j)') /\ (SaveRenews(j) <=> SaveRenews(j)')
    BY <2>1 DEF FetchRenews, SaveRenews, Excused
  <2>6. backfill_enabled => Reaches'
    BY <2>1, <2>4 DEF CandlesIInv, Reaches, Candles!Recorded, Accounted, Fetches, Saves
  <2>7. Renews'
    BY <2>1, <2>5 DEF CandlesIInv, Renews, Candles!Recorded, Excused, Fetches, Saves
  <2> QED BY <2>2, <2>3, <2>6, <2>7 DEF CandlesIInv
<1> QED BY <1>1, <1>2, <1>3, <1>4, <1>5, <1>6 DEF Candles!Next

(* The inductive invariant holds in every reachable state.                  *)
THEOREM DownloadInvariant == Candles!Spec => []CandlesIInv
<1>1. CandlesIInv /\ [Candles!Next]_Candles!downloadVars => CandlesIInv'
  BY CandlesNextKeepsIInv
<1> QED BY <1>1, CandlesInitIInv, PTL DEF Candles!Spec

(* What the download keeps has the type it is given, in every job: the     *)
(* bars it notes as lost, late or below a gap are bars.                    *)
THEOREM CandlesTypeCorrect == Candles!Spec => []Candles!TypeOK
<1>1. CandlesIInv => Candles!TypeOK
  <2> SUFFICES ASSUME CandlesIInv PROVE Candles!TypeOK OBVIOUS
  <2>1. CandlesTypes BY DEF CandlesIInv
  <2>2. \A j \in candles_Jobs : candles_job[j].at \in {"idle", "fetch", "save"}
    BY <2>1, JobFacts DEF Fetches, Saves
  <2> QED BY <2>1, <2>2 DEF Candles!TypeOK, CandlesTypes
<1> QED BY <1>1, DownloadInvariant, PTL

(* Above the bar recorded first every hole below a stored bar has its      *)
(* cause in a failure or in a bar that cannot be used, or is the first of  *)
(* a gap as long as a page: jobs that overlap, stops and short backfills   *)
(* leave none (save_candles_to_db, gap_aware_fetch_limit).                 *)
THEOREM HolesAreExplained == Candles!Spec => []HolesNeedFailure
<1>1. CandlesIInv => Candles!HolesNeedFailure
  <2> SUFFICES ASSUME CandlesIInv, backfill_enabled, Candles!Recorded # {},
                      NEW b \in seeded .. Candles!Newest
               PROVE  Accounted(b)
    BY DEF Candles!HolesNeedFailure, Accounted
  <2>1. Candles!Newest \in Candles!Recorded /\ Candles!Newest \in Candles!Bars BY NewestFacts
  <2>2. seeded \in Candles!Bars BY DEF CandlesIInv, InTime
  <2>3. b \in Candles!Bars /\ seeded <= b /\ b <= Candles!Newest
    BY <2>1, <2>2, DownloadFacts DEF Candles!Bars
  <2> QED BY <2>1, <2>3 DEF CandlesIInv, Reaches
<1> QED BY <1>1, DownloadInvariant, PTL DEF HolesNeedFailure

(* A bar recorded while it was forming does not stay so below newer ones   *)
(* but for a failure, a late job or a gap as long as a page (save_candle's *)
(* upsert, Buffer bars fetched again).                                     *)
THEOREM PartialsAreExplained == Candles!Spec => []PartialOnlyAtSeams
<1>1. CandlesIInv => Candles!PartialOnlyAtSeams
  <2> SUFFICES ASSUME CandlesIInv, NEW b \in Candles!Bars, stored[b] = "partial",
                      b < Candles!Newest
               PROVE  Excused(b)
    BY DEF Candles!PartialOnlyAtSeams, Excused
  <2>1. b \in Candles!Recorded BY RecordedFacts
  <2>2. Candles!Newest \in Candles!Recorded BY <2>1, NewestFacts
  <2> QED BY <2>2 DEF CandlesIInv, Renews
<1> QED BY <1>1, DownloadInvariant, PTL DEF PartialOnlyAtSeams

-----------------------------------------------------------------------------
(***************************************************************************)
(* A symbol is purged on the exchange's word, for every threshold and any  *)
(* number of download jobs beside the poll.  The counter may be ahead of   *)
(* the answers heard by one, and only because the poll counts its answer   *)
(* later than it hears it; while it has an answer to count the counter is  *)
(* not ahead (CountedHeard).  Without that a success between the two would *)
(* let the counter run ahead further each round.                           *)
(***************************************************************************)

CountedHeard == fails <= IF poll = "unknown" THEN unknown ELSE unknown + 1

DelistIInv == Delist!TypeOK /\ CountedHeard /\ Delist!PurgeNeedsWord

LEMMA DelistInitIInv == ASSUME Delist!WatchAssumption, Delist!Init PROVE DelistIInv
<1>1. Delist!TypeOK
  <2>1. fails \in 0 .. MaxFails /\ unknown \in 0 .. MaxFails
    BY DEF Delist!WatchAssumption, Delist!Init
  <2> QED BY <2>1 DEF Delist!Init, Delist!TypeOK
<1>2. CountedHeard BY DEF Delist!Init, CountedHeard
<1>3. Delist!PurgeNeedsWord BY DEF Delist!Init, Delist!PurgeNeedsWord
<1> QED BY <1>1, <1>2, <1>3 DEF DelistIInv

(* What the answers leave of the count of "no such symbol".                 *)
LEMMA HeardFact ==
    ASSUME Delist!WatchAssumption, Delist!TypeOK, NEW answer \in Delist!Answers,
           Delist!Heard(answer)
    PROVE  /\ unknown' \in 0 .. MaxFails
           /\ answer \in {"candles", "old candles"} => unknown' = 0
           /\ answer = "no symbol" => unknown' = Delist!UpTo(unknown + 1) /\ unknown <= unknown'
           /\ answer = "transient" => unknown' = unknown
<1>1. unknown \in 0 .. MaxFails /\ MaxFails \in Nat
  BY DEF Delist!TypeOK, Delist!WatchAssumption
<1>2. Delist!UpTo(unknown + 1) \in 0 .. MaxFails /\ unknown <= Delist!UpTo(unknown + 1)
  BY <1>1 DEF Delist!UpTo
<1>3. CASE answer \in {"candles", "old candles"}
  <2>1. unknown' = 0 BY <1>3 DEF Delist!Heard
  <2>2. unknown' \in 0 .. MaxFails BY <1>1, <2>1
  <2>3. answer # "no symbol" /\ answer # "transient" BY <1>3
  <2> QED BY <2>1, <2>2, <2>3
<1>4. CASE answer = "no symbol"
  <2>1. unknown' = Delist!UpTo(unknown + 1) BY <1>4 DEF Delist!Heard
  <2> QED BY <1>1, <1>2, <1>4, <2>1
<1>5. CASE answer = "transient"
  <2>1. unknown' = unknown BY <1>5 DEF Delist!Heard
  <2> QED BY <1>1, <1>5, <2>1
<1> QED BY <1>3, <1>4, <1>5 DEF Delist!Answers

LEMMA PollAnswerKeepsIInv ==
    ASSUME Delist!WatchAssumption, DelistIInv, Delist!PollAnswer
    PROVE  DelistIInv'
<1> USE DEF DelistIInv, Delist!TypeOK
<1>1. PICK answer \in Delist!Answers :
        /\ Delist!Heard(answer)
        /\ fails' = IF answer \in {"candles", "old candles"} THEN 0 ELSE fails
        /\ poll' = CASE answer \in {"candles", "old candles"} -> "idle"
                     [] answer = "no symbol" -> "unknown"
                     [] OTHER -> "idle"
  BY DEF Delist!PollAnswer
<1>2. /\ skipped' = skipped /\ download' = download /\ evidence' = evidence
      /\ poll = "listed"
  BY DEF Delist!PollAnswer
<1>3. unknown' \in 0 .. MaxFails BY <1>1, HeardFact
<1>4. fails <= unknown + 1 /\ fails \in 0 .. MaxFails /\ MaxFails \in Nat
  BY <1>2 DEF CountedHeard, Delist!WatchAssumption
<1>5. CASE answer \in {"candles", "old candles"}
  <2>1. poll' = "idle" /\ fails' = 0 /\ unknown' = 0 BY <1>1, <1>5, HeardFact
  <2> QED BY <1>2, <1>3, <1>4, <2>1 DEF CountedHeard, Delist!PurgeNeedsWord
<1>6. CASE answer = "no symbol"
  <2>1. poll' = "unknown" /\ fails' = fails BY <1>1, <1>6
  <2>2. unknown' = Delist!UpTo(unknown + 1) BY <1>1, <1>6, HeardFact
  <2>3. fails <= unknown' BY <1>4, <2>2 DEF Delist!UpTo
  <2> QED BY <1>2, <1>3, <1>4, <2>1, <2>3 DEF CountedHeard, Delist!PurgeNeedsWord
<1>7. CASE answer = "transient"
  <2>1. poll' = "idle" /\ fails' = fails /\ unknown' = unknown BY <1>1, <1>7, HeardFact
  <2> QED BY <1>2, <1>3, <1>4, <2>1 DEF CountedHeard, Delist!PurgeNeedsWord
<1> QED BY <1>5, <1>6, <1>7 DEF Delist!Answers

LEMMA PollCountKeepsIInv ==
    ASSUME Delist!WatchAssumption, DelistIInv, Delist!PollCount
    PROVE  DelistIInv'
<1> USE DEF DelistIInv, Delist!TypeOK
<1>1. /\ skipped' = skipped /\ download' = download /\ unknown' = unknown
      /\ poll = "unknown" /\ fails <= unknown /\ threshold \in Nat /\ MaxFails \in Nat
  BY DEF Delist!PollCount, CountedHeard, Delist!WatchAssumption
<1>2. CASE threshold = 0
  <2>1. poll' = "idle" /\ fails' = fails /\ evidence' = evidence
    BY <1>2 DEF Delist!PollCount
  <2> QED BY <1>1, <2>1 DEF CountedHeard, Delist!PurgeNeedsWord
<1>3. CASE threshold # 0
  <2>1. fails' = Delist!UpTo(fails + 1) BY <1>3 DEF Delist!PollCount
  <2>2. fails' \in 0 .. MaxFails /\ fails' <= unknown + 1 BY <1>1, <2>1 DEF Delist!UpTo
  <2>3. poll' \in {"purge", "idle"} BY <1>3 DEF Delist!PollCount
  <2>4. \A n \in evidence' : n \in 0 .. MaxFails /\ n >= threshold - 1
    <3>1. CASE fails + 1 >= threshold
      <4>1. evidence' = evidence \cup {unknown} BY <1>3, <3>1 DEF Delist!PollCount
      <4> QED BY <1>1, <3>1, <4>1 DEF Delist!PurgeNeedsWord
    <3>2. CASE ~(fails + 1 >= threshold)
      BY <1>3, <3>2 DEF Delist!PollCount, Delist!PurgeNeedsWord
    <3> QED BY <3>1, <3>2
  <2> QED BY <1>1, <2>2, <2>3, <2>4 DEF CountedHeard, Delist!PurgeNeedsWord
<1> QED BY <1>2, <1>3

LEMMA DownloadKeepsIInv ==
    ASSUME Delist!WatchAssumption, DelistIInv, NEW j \in Downloads,
           Delist!DownloadAnswer(j) PROVE DelistIInv'
<1> USE DEF DelistIInv, Delist!TypeOK
<1>1. PICK answer \in Delist!Answers :
        /\ Delist!Heard(answer)
        /\ LET success == answer \in {"candles", "old candles"}
               counted == answer = "no symbol"
               purge == counted /\ threshold > 0 /\ fails + 1 >= threshold
           IN  /\ skipped' = (skipped \/ purge)
               /\ fails' = IF success \/ purge THEN 0
                           ELSE IF counted THEN Delist!UpTo(fails + 1) ELSE fails
               /\ evidence' = IF purge THEN evidence \cup {unknown'} ELSE evidence
  BY DEF Delist!DownloadAnswer
<1>2. poll' = poll /\ download' \in [Downloads -> {"idle", "listed"}]
  BY DEF Delist!DownloadAnswer
<1>3. unknown' \in 0 .. MaxFails BY <1>1, HeardFact
<1>4. /\ fails <= unknown + 1 /\ (poll = "unknown" => fails <= unknown)
      /\ fails \in 0 .. MaxFails /\ unknown \in 0 .. MaxFails
      /\ MaxFails \in Nat /\ threshold \in Nat /\ MaxFails > threshold
  BY DEF CountedHeard, Delist!WatchAssumption
<1>5. skipped' \in BOOLEAN BY <1>1
<1>6. CASE answer \in {"candles", "old candles"}
  <2>1. fails' = 0 /\ evidence' = evidence /\ unknown' = 0 BY <1>1, <1>6, HeardFact
  <2> QED BY <1>2, <1>4, <1>5, <2>1 DEF CountedHeard, Delist!PurgeNeedsWord
<1>7. CASE answer = "no symbol"
  <2>1. unknown' = Delist!UpTo(unknown + 1) BY <1>1, <1>7, HeardFact
  <2>2. CASE threshold > 0 /\ fails + 1 >= threshold
    <3>1. fails' = 0 /\ evidence' = evidence \cup {unknown'} BY <1>1, <1>7, <2>2
    <3>2. unknown' >= threshold - 1 BY <1>4, <2>1, <2>2 DEF Delist!UpTo
    <3>3. CountedHeard'
      <4>1. unknown' \in Nat BY <1>3, <1>4
      <4>2. \A n \in Nat : 0 <= n /\ 0 <= n + 1 OBVIOUS
      <4>3. 0 <= unknown' /\ 0 <= unknown' + 1 BY <4>1, <4>2
      <4> QED BY <3>1, <4>3 DEF CountedHeard
    <3>4. Delist!PurgeNeedsWord' BY <3>1, <3>2 DEF Delist!PurgeNeedsWord
    <3>5. Delist!TypeOK' BY <1>2, <1>3, <1>4, <1>5, <3>1
    <3> QED BY <3>3, <3>4, <3>5
  <2>3. CASE ~(threshold > 0 /\ fails + 1 >= threshold)
    <3>1. fails' = Delist!UpTo(fails + 1) /\ evidence' = evidence BY <1>1, <1>7, <2>3
    <3>2. fails' \in 0 .. MaxFails /\ fails' <= unknown' + 1 /\ (poll = "unknown" => fails' <= unknown')
      BY <1>4, <2>1, <3>1 DEF Delist!UpTo
    <3> QED BY <1>2, <1>3, <1>5, <3>1, <3>2 DEF CountedHeard, Delist!PurgeNeedsWord
  <2> QED BY <2>2, <2>3
<1>8. CASE answer = "transient"
  <2>1. fails' = fails /\ evidence' = evidence /\ unknown' = unknown
    BY <1>1, <1>8, HeardFact
  <2> QED BY <1>2, <1>4, <1>5, <2>1 DEF CountedHeard, Delist!PurgeNeedsWord
<1> QED BY <1>6, <1>7, <1>8 DEF Delist!Answers

LEMMA DelistNextKeepsIInv ==
    ASSUME Delist!WatchAssumption, DelistIInv, [Delist!Next]_Delist!watchVars
    PROVE  DelistIInv'
<1> USE DEF Delist!WatchAssumption, DelistIInv, Delist!TypeOK, CountedHeard,
        Delist!PurgeNeedsWord
<1>1. CASE Delist!PollList BY <1>1 DEF Delist!PollList
<1>2. CASE Delist!PollAnswer BY <1>2, PollAnswerKeepsIInv
<1>3. CASE Delist!PollCount BY <1>3, PollCountKeepsIInv
<1>4. CASE Delist!PollPurge BY <1>4 DEF Delist!PollPurge
<1>5. ASSUME NEW j \in Downloads, Delist!DownloadList(j) PROVE DelistIInv'
  BY <1>5 DEF Delist!DownloadList
<1>6. ASSUME NEW j \in Downloads, Delist!DownloadAnswer(j) PROVE DelistIInv'
  BY <1>6, DownloadKeepsIInv
<1>7. CASE UNCHANGED Delist!watchVars BY <1>7 DEF Delist!watchVars
<1> QED BY <1>1, <1>2, <1>3, <1>4, <1>5, <1>6, <1>7 DEF Delist!Next

-----------------------------------------------------------------------------

(* A symbol is purged on the exchange's word: whenever the poll or a       *)
(* download decides to purge it, the exchange has called it unknown        *)
(* threshold times since candles last came, one answer of the poll left    *)
(* aside.                                                                  *)
THEOREM PurgedOnItsWord == Delist!Spec => []PurgeNeedsWord
<1> USE DelistAssumed
<1>1. Delist!Init => DelistIInv BY DelistInitIInv
<1>2. DelistIInv /\ [Delist!Next]_Delist!watchVars => DelistIInv' BY DelistNextKeepsIInv
<1>3. DelistIInv => Delist!PurgeNeedsWord BY DEF DelistIInv
<1> QED BY <1>1, <1>2, <1>3, PTL DEF PurgeNeedsWord, Delist!Spec

(* Types: the counts stay within their bound and are those of one symbol.   *)
THEOREM WatchTypeCorrect == Delist!Spec => []Delist!TypeOK
<1> USE DelistAssumed
<1>1. Delist!Init => DelistIInv BY DelistInitIInv
<1>2. DelistIInv /\ [Delist!Next]_Delist!watchVars => DelistIInv' BY DelistNextKeepsIInv
<1>3. DelistIInv => Delist!TypeOK BY DEF DelistIInv
<1> QED BY <1>1, <1>2, <1>3, PTL DEF Delist!Spec

-----------------------------------------------------------------------------
(***************************************************************************)
(* The screener, for any number of jobs.  A job that has run alone since   *)
(* it read the pool finds what it has read, without what was purged since  *)
(* (UnseenIsPurged); two that run at once both know it (Paired).  So the   *)
(* difference it applies to the pool of now leaves what it has chosen.     *)
(***************************************************************************)

LEMMA ScreenSameCount == ASSUME NEW S PROVE Screen!Cardinality(S) = Cardinality(S)
BY DEF Screen!Cardinality, Cardinality

LEMMA ScreenSameFinite == ASSUME NEW S PROVE Screen!IsFiniteSet(S) <=> IsFiniteSet(S)
BY DEF Screen!IsFiniteSet, IsFiniteSet

Scoring ==
    [at : {"scoring"}, current : SUBSET screen_Candidates, purged : SUBSET screen_Candidates,
        shared : BOOLEAN]

ScreenTypes ==
    /\ workers \subseteq screen_Candidates /\ Cardinality(workers) <= max_workers
    /\ screener \in [screen_Jobs -> {Screen!Idle} \cup Scoring]
    /\ screen_rounds \in 0 .. screen_Rounds
    /\ selected \cup refused \cup gone \subseteq screen_Candidates /\ overlap \in BOOLEAN

ScreenPaired ==
    \A j, k \in screen_Jobs : (j # k /\ screener[j] # Screen!Idle /\ screener[k] # Screen!Idle) =>
        screener[j].shared

UnseenIsPurged ==
    \A j \in screen_Jobs : (screener[j] # Screen!Idle /\ ~screener[j].shared) =>
        workers = screener[j].current \ screener[j].purged

ScreenIInv == ScreenTypes /\ ScreenPaired /\ UnseenIsPurged /\ Screen!SelectionInForce

\* What ScreenerAssumption says of sets and numbers.
LEMMA ScreenerFacts ==
    /\ IsFiniteSet(screen_Candidates) /\ Screen!PinnedSet \subseteq screen_Candidates
    /\ screen_Boot \subseteq screen_Candidates /\ Cardinality(screen_Boot) <= max_workers
    /\ max_workers \in Nat /\ screen_Rounds \in Nat
<1>1. Pinned \in Seq(screen_Candidates) /\ IsFiniteSet(screen_Candidates)
  BY ScreenAssumed, ScreenSameFinite DEF Screen!ScreenerAssumption
<1>2. Cardinality(screen_Boot) <= max_workers
  BY ScreenAssumed, ScreenSameCount DEF Screen!ScreenerAssumption
<1>3. Screen!PinnedSet \subseteq screen_Candidates
  BY <1>1 DEF Screen!PinnedSet, Screen!Range
<1> QED BY <1>1, <1>2, <1>3, ScreenAssumed DEF Screen!ScreenerAssumption

\* A job is idle or scoring, and never both.
LEMMA ScreenJobFact ==
    ASSUME ScreenTypes, NEW j \in screen_Jobs
    PROVE  /\ screener[j] = Screen!Idle \/ screener[j] \in Scoring
           /\ screener[j] \in Scoring <=> screener[j] # Screen!Idle
BY DEF ScreenTypes, Screen!Idle, Scoring

\* A smaller pool has room if the larger one had.
LEMMA SmallerPool ==
    ASSUME NEW S \in SUBSET screen_Candidates, NEW T \in SUBSET S,
           Cardinality(S) <= max_workers
    PROVE  Cardinality(T) <= max_workers
<1>1. IsFiniteSet(S) BY ScreenerFacts, FS_Subset
<1>2. Cardinality(T) <= Cardinality(S) BY <1>1, FS_Subset
<1>3. Cardinality(S) \in Nat /\ Cardinality(T) \in Nat
  BY <1>1, FS_Subset, FS_CardinalityType
<1> QED BY <1>2, <1>3, ScreenerFacts

\* What is chosen are candidates.
LEMMA ChosenAreCandidates ==
    ASSUME NEW chosen \in Screen!Selections PROVE chosen \subseteq screen_Candidates
<1> DEFINE first == {Pinned[i] : i \in {i \in DOMAIN Pinned : i <= Screen!Cap}}
<1>1. first \subseteq screen_Candidates
  BY ScreenerFacts DEF Screen!PinnedSet, Screen!Range
<1>2. PICK o \in SUBSET (screen_Candidates \ first) : chosen = first \cup o
  BY DEF Screen!Selections
<1> QED BY <1>1, <1>2

LEMMA ScreenInitIInv == ASSUME Screen!Init PROVE ScreenIInv
<1>1. ScreenTypes
  <2>1. workers = screen_Boot /\ Cardinality(workers) <= max_workers
    BY ScreenerFacts DEF Screen!Init
  <2>2. screener \in [screen_Jobs -> {Screen!Idle} \cup Scoring] BY DEF Screen!Init
  <2>3. 0 \in 0 .. screen_Rounds BY ScreenerFacts
  <2> QED BY <2>1, <2>2, <2>3, ScreenerFacts DEF Screen!Init, ScreenTypes
<1>2. \A j \in screen_Jobs : screener[j] = Screen!Idle BY DEF Screen!Init
<1> QED BY <1>1, <1>2
          DEF Screen!Init, ScreenIInv, ScreenPaired, UnseenIsPurged,
              Screen!SelectionInForce

(* Whoever reads the pool beside another job is marked, and marks it.      *)
LEMMA ReadPoolStep ==
    ASSUME ScreenIInv, NEW j \in screen_Jobs, Screen!ReadPool(j)
    PROVE  ScreenIInv'
<1> DEFINE begun == [at |-> "scoring", current |-> workers, purged |-> {},
                     shared |-> Screen!Running # {}]
<1>1. /\ ScreenTypes /\ screener[j] = Screen!Idle /\ screen_rounds < screen_Rounds
      /\ screen_rounds' = screen_rounds + 1
      /\ screener' = [k \in screen_Jobs |->
           IF k = j THEN begun
           ELSE IF screener[k] = Screen!Idle THEN Screen!Idle ELSE [screener[k] EXCEPT !.shared = TRUE]]
      /\ UNCHANGED <<workers, selected, refused, gone, overlap>>
  BY DEF ScreenIInv, Screen!ReadPool
<1>2. /\ begun \in Scoring /\ begun.current = workers /\ begun.purged = {}
      /\ begun.shared = (Screen!Running # {})
  BY <1>1 DEF Scoring, ScreenTypes
<1> HIDE DEF begun
<1>3. screener'[j] = begun BY <1>1
<1>4. ASSUME NEW k \in screen_Jobs, k # j
      PROVE  \/ screener'[k] = Screen!Idle /\ screener[k] = Screen!Idle
             \/ screener[k] # Screen!Idle /\ screener'[k] \in Scoring /\ screener'[k].shared
  <2>1. CASE screener[k] = Screen!Idle BY <1>1, <1>4, <2>1
  <2>2. CASE screener[k] # Screen!Idle
    <3>1. screener'[k] = [screener[k] EXCEPT !.shared = TRUE] BY <1>1, <1>4, <2>2
    <3>2. screener[k] \in Scoring BY <1>1, <2>2, ScreenJobFact
    <3> QED BY <2>2, <3>1, <3>2 DEF Scoring
  <2> QED BY <2>1, <2>2
<1>5. ScreenTypes'
  <2>1. \A k \in screen_Jobs : screener'[k] \in {Screen!Idle} \cup Scoring
    BY <1>2, <1>3, <1>4
  <2>2. screener' = [k \in screen_Jobs |-> screener'[k]] BY <1>1
  <2>3. screener' \in [screen_Jobs -> {Screen!Idle} \cup Scoring] BY <2>1, <2>2
  <2>4. screen_rounds' \in 0 .. screen_Rounds BY <1>1, ScreenerFacts DEF ScreenTypes
  <2> QED BY <1>1, <2>3, <2>4 DEF ScreenTypes
<1>6. ScreenPaired'
  <2>1. ASSUME NEW k \in screen_Jobs, k # j, screener[k] # Screen!Idle PROVE begun.shared
    BY <1>2, <2>1 DEF Screen!Running
  <2> QED BY <1>3, <1>4, <2>1 DEF ScreenPaired
<1>7. UnseenIsPurged' BY <1>1, <1>2, <1>3, <1>4 DEF UnseenIsPurged
<1> QED BY <1>1, <1>5, <1>6, <1>7 DEF ScreenIInv, Screen!SelectionInForce

(* The difference is taken to the pool that was read and applied to the    *)
(* pool of now; that leaves what was chosen, as far as it was there to     *)
(* keep.                                                                   *)
LEMMA ScreenApplyStep ==
    ASSUME ScreenIInv, NEW j \in screen_Jobs, Screen!Apply(j)
    PROVE  ScreenIInv'
<1>1. PICK chosen \in Screen!Selections :
        LET diff == Screen!SelectTopNDiff(screener[j].current, chosen)
        IN  \E taken \in Screen!Registered(workers, diff.to_add) :
              /\ workers' = (workers \cup taken) \ diff.to_remove
              /\ selected' = chosen
              /\ refused' = diff.to_add \ taken
  BY DEF Screen!Apply
<1> DEFINE to_add == chosen \ screener[j].current
           to_remove == (screener[j].current \ chosen) \ Screen!PinnedSet
<1>2. PICK taken \in Screen!Registered(workers, to_add) :
        /\ workers' = (workers \cup taken) \ to_remove
        /\ selected' = chosen
        /\ refused' = to_add \ taken
  BY <1>1 DEF Screen!SelectTopNDiff
<1>3. /\ ScreenTypes /\ screener[j] # Screen!Idle /\ screener[j] \in Scoring
      /\ screener' = [screener EXCEPT ![j] = Screen!Idle]
      /\ gone' = screener[j].purged /\ overlap' = screener[j].shared
      /\ screen_rounds' = screen_rounds
  BY ScreenJobFact DEF ScreenIInv, Screen!Apply
<1>4. /\ taken \subseteq to_add
      /\ Cardinality(workers \cup taken) <= max_workers \/ taken \subseteq workers
  BY <1>2, ScreenSameCount DEF Screen!Registered
<1>5. chosen \subseteq screen_Candidates BY ChosenAreCandidates
<1>6. screener'[j] = Screen!Idle /\ \A k \in screen_Jobs : k # j => screener'[k] = screener[k]
  BY <1>3 DEF ScreenTypes
<1>7. ScreenTypes'
  <2>1. workers \cup taken \subseteq screen_Candidates BY <1>3, <1>4, <1>5 DEF ScreenTypes
  <2>2. Cardinality(workers \cup taken) <= max_workers
    <3>1. CASE taken \subseteq workers
      <4>1. workers \cup taken = workers BY <3>1
      <4> QED BY <1>3, <4>1 DEF ScreenTypes
    <3> QED BY <1>4, <3>1
  <2>3. Cardinality(workers') <= max_workers BY <1>2, <2>1, <2>2, SmallerPool
  <2>4. screener' \in [screen_Jobs -> {Screen!Idle} \cup Scoring] BY <1>3 DEF ScreenTypes
  <2>5. gone' \subseteq screen_Candidates /\ overlap' \in BOOLEAN BY <1>3 DEF Scoring
  <2> QED BY <1>2, <1>3, <1>5, <2>1, <2>3, <2>4, <2>5 DEF ScreenTypes
<1>8. ScreenPaired' BY <1>6 DEF ScreenIInv, ScreenPaired
<1>9. UnseenIsPurged'
  <2>1. \A k \in screen_Jobs : screener'[k] # Screen!Idle => k # j /\ screener'[k] = screener[k]
    BY <1>6
  <2>2. \A k \in screen_Jobs : screener'[k] # Screen!Idle => screener'[k].shared
    BY <1>3, <2>1 DEF ScreenIInv, ScreenPaired
  <2> QED BY <2>2 DEF UnseenIsPurged
<1>10. Screen!SelectionInForce'
  <2> SUFFICES ASSUME ~screener[j].shared
               PROVE  /\ workers' \subseteq chosen \cup Screen!PinnedSet
                      /\ chosen \subseteq workers' \cup screener[j].purged \cup (to_add \ taken)
    <3>1. Screen!PinnedSet' = Screen!PinnedSet BY DEF Screen!PinnedSet
    <3> QED BY <1>2, <1>3, <3>1 DEF Screen!SelectionInForce
  <2>1. workers = screener[j].current \ screener[j].purged
    BY <1>3 DEF ScreenIInv, UnseenIsPurged
  <2> QED BY <1>2, <1>4, <2>1
<1> QED BY <1>7, <1>8, <1>9, <1>10 DEF ScreenIInv

LEMMA GiveUpStep ==
    ASSUME ScreenIInv, NEW j \in screen_Jobs, Screen!GiveUp(j)
    PROVE  ScreenIInv'
<1>1. /\ ScreenTypes /\ screener' = [screener EXCEPT ![j] = Screen!Idle]
      /\ UNCHANGED <<workers, screen_rounds, selected, refused, gone, overlap>>
  BY DEF ScreenIInv, Screen!GiveUp
<1>2. screener'[j] = Screen!Idle /\ \A k \in screen_Jobs : k # j => screener'[k] = screener[k]
  BY <1>1 DEF ScreenTypes
<1>3. ScreenTypes'
  <2>1. screener' \in [screen_Jobs -> {Screen!Idle} \cup Scoring] BY <1>1 DEF ScreenTypes
  <2> QED BY <1>1, <2>1 DEF ScreenTypes
<1>4. ScreenPaired' BY <1>2 DEF ScreenIInv, ScreenPaired
<1>5. UnseenIsPurged' BY <1>1, <1>2 DEF ScreenIInv, UnseenIsPurged
<1> QED BY <1>1, <1>3, <1>4, <1>5 DEF ScreenIInv, Screen!SelectionInForce

(* Every job at work is told of the purge.                                 *)
LEMMA PurgeStep ==
    ASSUME ScreenIInv, NEW s \in screen_Candidates, Screen!Purge(s)
    PROVE  ScreenIInv'
<1>1. /\ ScreenTypes /\ workers' = workers \ {s} /\ gone' = gone \cup {s}
      /\ screener' = [j \in screen_Jobs |-> IF screener[j] = Screen!Idle THEN Screen!Idle
                                            ELSE [screener[j] EXCEPT !.purged = @ \cup {s}]]
      /\ UNCHANGED <<screen_rounds, selected, refused, overlap>>
  BY DEF ScreenIInv, Screen!Purge
<1>2. ASSUME NEW j \in screen_Jobs
      PROVE  \/ screener'[j] = Screen!Idle /\ screener[j] = Screen!Idle
             \/ /\ screener[j] # Screen!Idle /\ screener'[j] \in Scoring
                /\ screener'[j].current = screener[j].current
                /\ screener'[j].purged = screener[j].purged \cup {s}
                /\ screener'[j].shared = screener[j].shared
  <2>1. CASE screener[j] = Screen!Idle BY <1>1, <2>1
  <2>2. CASE screener[j] # Screen!Idle
    <3>1. screener'[j] = [screener[j] EXCEPT !.purged = @ \cup {s}] BY <1>1, <2>2
    <3>2. screener[j] \in Scoring BY <1>1, <2>2, ScreenJobFact
    <3> QED BY <2>2, <3>1, <3>2 DEF Scoring
  <2> QED BY <2>1, <2>2
<1>3. ScreenTypes'
  <2>1. \A j \in screen_Jobs : screener'[j] \in {Screen!Idle} \cup Scoring BY <1>2
  <2>2. screener' = [j \in screen_Jobs |-> screener'[j]] BY <1>1
  <2>3. screener' \in [screen_Jobs -> {Screen!Idle} \cup Scoring] BY <2>1, <2>2
  <2>4. Cardinality(workers') <= max_workers BY <1>1, SmallerPool DEF ScreenTypes
  <2> QED BY <1>1, <2>3, <2>4 DEF ScreenTypes
<1>4. ScreenPaired' BY <1>2 DEF ScreenIInv, ScreenPaired
<1>5. UnseenIsPurged' BY <1>1, <1>2 DEF ScreenIInv, UnseenIsPurged
<1>6. Screen!SelectionInForce'
  BY <1>1 DEF ScreenIInv, Screen!SelectionInForce, Screen!PinnedSet
<1> QED BY <1>3, <1>4, <1>5, <1>6 DEF ScreenIInv

LEMMA ScreenNextKeepsIInv ==
    ASSUME ScreenIInv, [Screen!Next]_Screen!screenerVars
    PROVE  ScreenIInv'
<1>1. CASE \E j \in screen_Jobs : Screen!ReadPool(j) BY <1>1, ReadPoolStep
<1>2. CASE \E j \in screen_Jobs : Screen!Apply(j) BY <1>2, ScreenApplyStep
<1>3. CASE \E j \in screen_Jobs : Screen!GiveUp(j) BY <1>3, GiveUpStep
<1>4. CASE \E s \in screen_Candidates : Screen!Purge(s) BY <1>4, PurgeStep
<1>5. CASE UNCHANGED Screen!screenerVars
  BY <1>5
    DEF Screen!screenerVars, ScreenIInv, ScreenTypes, ScreenPaired, UnseenIsPurged,
        Screen!SelectionInForce, Screen!PinnedSet
<1> QED BY <1>1, <1>2, <1>3, <1>4, <1>5 DEF Screen!Next

(* Every name and number of the screener keeps its type, and the pool      *)
(* never holds more symbols than the engine has workers for, whatever      *)
(* overlapping jobs add.                                                   *)
THEOREM PoolIsBounded == Screen!Spec => []Screen!TypeOK
<1>1. ASSUME ScreenTypes PROVE Screen!TypeOK
  <2>1. Cardinality(workers) <= max_workers BY <1>1, ScreenSameCount DEF ScreenTypes
  <2>2. \A j \in screen_Jobs : screener[j].at \in {"idle", "scoring"}
    BY <1>1 DEF ScreenTypes, Screen!Idle, Scoring
  <2> QED BY <1>1, <2>1, <2>2, ScreenSameCount DEF ScreenTypes, Screen!TypeOK
<1>2. ScreenIInv => Screen!TypeOK BY <1>1 DEF ScreenIInv
<1> QED BY <1>2, ScreenInitIInv, ScreenNextKeepsIInv, PTL DEF Screen!Spec

(* The pool is what was selected last, besides pinned symbols, what was    *)
(* purged and what a full pool refused, however long a job that runs alone *)
(* has been scoring (SelectionInForce, Screener).                          *)
THEOREM PoolIsSelection == Screen!Spec => []SelectionInForce
<1>1. ScreenIInv => Screen!SelectionInForce BY DEF ScreenIInv
<1> QED BY <1>1, ScreenInitIInv, ScreenNextKeepsIInv, PTL
          DEF SelectionInForce, Screen!Spec

-----------------------------------------------------------------------------
(***************************************************************************)
(* The tuning jobs, for any number of them side by side.  Two jobs that    *)
(* run at once both know it (Paired), so a retrain that ran alone applies  *)
(* what it searched for (SearchHolds).  A kind of file that two jobs have  *)
(* not been sealing at once has one job at its temporary name, and that    *)
(* job moves the file only after it has written all of it (SealedAlone).   *)
(***************************************************************************)

Searched == tuning_Strategies \cup {"none"}
Datas == [of : Searched, params : Searched]
Files == [state : {"none", "torn"}] \cup [state : {"whole"}, data : Datas]
Early ==
    [at : {"begun", "searched", "applied"}, kind : Tuning!Kinds, of : Searched, shared : BOOLEAN]
Sealers ==
    [at : {"writing", "written"}, kind : Tuning!Kinds, of : Searched, shared : BOOLEAN, data : Datas,
     on : {"temp", "disk", "unlinked"}]

TuningTypes ==
    /\ tuning_job \in [Slots -> {Tuning!Idle} \cup Early \cup Sealers]
    /\ temp \in [Tuning!Kinds -> Files] /\ disk \in [Tuning!Kinds -> Files]
    /\ live_strategy \in tuning_Strategies \cup {"AUTO"} /\ params \in Searched
    /\ crossed \in BOOLEAN /\ raced \subseteq Tuning!Kinds /\ tuning_rounds \in 0 .. tuning_Rounds

TuningPaired ==
    \A s, t \in Slots : (s # t /\ tuning_job[s].at # "idle" /\ tuning_job[t].at # "idle") =>
        tuning_job[s].shared

SearchHolds ==
    \A s \in Slots : tuning_job[s].at = "searched" =>
        /\ tuning_job[s].of \in tuning_Strategies
        /\ tuning_job[s].kind = "ml" /\ ~tuning_job[s].shared =>
             tuning_job[s].of = Tuning!SearchedFor

SealedAlone ==
    \A k \in Tuning!Kinds \ raced : \A s \in Tuning!Sealing(k) :
        /\ \A t \in Tuning!Sealing(k) : s = t
        /\ tuning_job[s].on = "temp"
        /\ tuning_job[s].at = "written" => temp[k].state = "whole"

TuningIInv ==
    TuningTypes /\ TuningPaired /\ SearchHolds /\ SealedAlone /\ Tuning!TunedForStrategy /\ Tuning!SealedIsWhole

\* A slot is idle, or holds a job of one of the two shapes.
LEMMA TuningJobFact ==
    ASSUME TuningTypes, NEW s \in Slots
    PROVE  /\ tuning_job[s].at = "idle" <=> tuning_job[s] = Tuning!Idle
           /\ tuning_job[s] = Tuning!Idle \/ tuning_job[s] \in Early \/ tuning_job[s] \in Sealers
           /\ tuning_job[s].at \in {"begun", "searched", "applied"} => tuning_job[s] \in Early
           /\ tuning_job[s].at \in {"writing", "written"} => tuning_job[s] \in Sealers
           /\ tuning_job[s] # Tuning!Idle => /\ tuning_job[s].kind \in Tuning!Kinds
                                             /\ tuning_job[s].of \in Searched
                                             /\ tuning_job[s].shared \in BOOLEAN
BY DEF TuningTypes, Tuning!Idle, Early, Sealers

LEMMA SealingIs ==
    ASSUME TuningTypes, NEW k
    PROVE  Tuning!Sealing(k) = {s \in Slots : tuning_job[s].at \in {"writing", "written"} /\ tuning_job[s].kind = k}
BY TuningJobFact DEF Tuning!Sealing, Tuning!Running

LEMMA NextSealingIs ==
    ASSUME TuningTypes', NEW k
    PROVE  Tuning!Sealing(k)' = {s \in Slots : tuning_job'[s].at \in {"writing", "written"} /\ tuning_job'[s].kind = k}
<1>1. \A s \in Slots : tuning_job'[s].at \in {"writing", "written"} => tuning_job'[s] # Tuning!Idle
  BY DEF Tuning!Idle
<1> QED BY <1>1 DEF Tuning!Sealing, Tuning!Running

LEMMA SearchedForFact ==
    ASSUME TuningTypes PROVE Tuning!SearchedFor \in tuning_Strategies
BY TuningAssumed DEF Tuning!TuningAssumption, TuningTypes, Tuning!SearchedFor

LEMMA TuningInitIInv == ASSUME Tuning!Init PROVE TuningIInv
<1>1. TuningTypes
  <2>1. 0 \in 0 .. tuning_Rounds BY TuningAssumed DEF Tuning!TuningAssumption
  <2>2. Tuning!None \in Files BY DEF Tuning!None, Files
  <2>3. temp \in [Tuning!Kinds -> Files] /\ disk \in [Tuning!Kinds -> Files]
    BY <2>2 DEF Tuning!Init
  <2>4. tuning_job \in [Slots -> {Tuning!Idle} \cup Early \cup Sealers] BY DEF Tuning!Init
  <2> QED BY <2>1, <2>3, <2>4 DEF Tuning!Init, TuningTypes, Searched
<1>2. \A s \in Slots : tuning_job[s].at = "idle" BY DEF Tuning!Init, Tuning!Idle
<1>3. \A k \in Tuning!Kinds : Tuning!Sealing(k) = {} BY <1>1, <1>2, SealingIs
<1>4. Tuning!SealedIsWhole BY DEF Tuning!Init, Tuning!None, Tuning!SealedIsWhole
<1> QED BY <1>1, <1>2, <1>3, <1>4
    DEF Tuning!Init, TuningIInv, TuningPaired, SearchHolds, SealedAlone,
        Tuning!TunedForStrategy

(* A job begins: it and every job that runs now know that they share.      *)
LEMMA TuningBeginStep ==
    ASSUME TuningIInv, NEW s \in Slots, NEW kind \in Tuning!Kinds, Tuning!Begin(s, kind)
    PROVE  TuningIInv'
<1>1. TuningTypes /\ tuning_job[s] = Tuning!Idle BY DEF TuningIInv, Tuning!Begin
<1> DEFINE begun == [at |-> "begun", kind |-> kind, of |-> "none", shared |-> Tuning!Running # {}]
<1>2. /\ tuning_job' = [t \in Slots |-> IF t = s THEN begun ELSE IF tuning_job[t] = Tuning!Idle THEN Tuning!Idle
                                ELSE [tuning_job[t] EXCEPT !.shared = TRUE]]
      /\ UNCHANGED <<live_strategy, params, temp, disk, crossed, raced>>
      /\ tuning_rounds' = tuning_rounds + 1 /\ tuning_rounds < tuning_Rounds
  BY DEF Tuning!Begin
<1>3. begun \in Early /\ begun.at = "begun" /\ begun.shared = (Tuning!Running # {})
  BY DEF Early, Searched
<1> HIDE DEF begun
<1>4. tuning_job'[s] = begun BY <1>2
<1>5. ASSUME NEW t \in Slots, t # s
      PROVE  \/ tuning_job'[t] = Tuning!Idle /\ tuning_job[t] = Tuning!Idle
             \/ /\ tuning_job[t] # Tuning!Idle /\ tuning_job'[t] \in Early \cup Sealers
                /\ tuning_job'[t].shared
                /\ tuning_job'[t].at = tuning_job[t].at /\ tuning_job'[t].kind = tuning_job[t].kind
                /\ tuning_job'[t].of = tuning_job[t].of
                /\ tuning_job[t] \in Sealers => tuning_job'[t].on = tuning_job[t].on
  <2>1. CASE tuning_job[t] = Tuning!Idle BY <1>2, <1>5, <2>1
  <2>2. CASE tuning_job[t] # Tuning!Idle
    <3>1. tuning_job'[t] = [tuning_job[t] EXCEPT !.shared = TRUE] BY <1>2, <1>5, <2>2
    <3>2. CASE tuning_job[t] \in Early BY <2>2, <3>1, <3>2 DEF Early, Sealers
    <3>3. CASE tuning_job[t] \in Sealers BY <2>2, <3>1, <3>3 DEF Sealers
    <3> QED BY <1>1, <2>2, <3>2, <3>3, TuningJobFact
  <2> QED BY <2>1, <2>2
<1>6. tuning_job' \in [Slots -> {Tuning!Idle} \cup Early \cup Sealers]
  <2>1. \A t \in Slots : tuning_job'[t] \in {Tuning!Idle} \cup Early \cup Sealers
    BY <1>3, <1>4, <1>5
  <2>2. tuning_job' = [t \in Slots |-> tuning_job'[t]] BY <1>2
  <2> QED BY <2>1, <2>2
<1>7. tuning_rounds' \in 0 .. tuning_Rounds
  BY <1>1, <1>2, TuningAssumed DEF TuningTypes, Tuning!TuningAssumption
<1>8. TuningTypes' BY <1>1, <1>2, <1>6, <1>7 DEF TuningTypes
<1>9. \A t \in Slots : t # s /\ tuning_job'[t].at # "idle" =>
    tuning_job[t] # Tuning!Idle /\ tuning_job'[t].shared
  BY <1>5 DEF Tuning!Idle
<1>10. TuningPaired'
  <2>1. ASSUME NEW t \in Slots, t # s, tuning_job[t] # Tuning!Idle PROVE begun.shared
    BY <1>3, <2>1 DEF Tuning!Running
  <2> QED BY <1>4, <1>9, <2>1 DEF TuningPaired
<1>11. SearchHolds'
  <2>1. Tuning!SearchedFor' = Tuning!SearchedFor BY <1>2 DEF Tuning!SearchedFor
  <2>2. \A t \in Slots : tuning_job'[t].at = "searched" =>
          t # s /\ tuning_job[t].at = "searched" /\ tuning_job'[t].shared /\ tuning_job'[t].of = tuning_job[t].of
    BY <1>3, <1>4, <1>5 DEF Tuning!Idle
  <2> QED BY <2>1, <2>2 DEF TuningIInv, SearchHolds
<1>12. \A k : Tuning!Sealing(k)' = Tuning!Sealing(k)
  <2> TAKE k
  <2>1. Tuning!Sealing(k)' = {t \in Slots : tuning_job'[t].at \in {"writing", "written"} /\ tuning_job'[t].kind = k}
    BY <1>8, NextSealingIs
  <2>2. Tuning!Sealing(k) = {t \in Slots : tuning_job[t].at \in {"writing", "written"} /\ tuning_job[t].kind = k}
    BY <1>1, SealingIs
  <2>3. \A t \in Slots : (tuning_job'[t].at \in {"writing", "written"} /\ tuning_job'[t].kind = k) <=>
                         (tuning_job[t].at \in {"writing", "written"} /\ tuning_job[t].kind = k)
    BY <1>1, <1>3, <1>4, <1>5 DEF Tuning!Idle
  <2> QED BY <2>1, <2>2, <2>3
<1>13. SealedAlone'
  <2>1. \A k : \A t \in Tuning!Sealing(k) : t \in Slots /\ tuning_job[t] \in Sealers
    BY <1>1, SealingIs, TuningJobFact
  <2>2. \A k : \A t \in Tuning!Sealing(k) :
      tuning_job'[t].on = tuning_job[t].on /\ tuning_job'[t].at = tuning_job[t].at
    BY <1>1, <1>5, <2>1 DEF Tuning!Idle, Sealers
  <2> QED BY SMTT(20), <1>2, <1>12, <2>2 DEF TuningIInv, SealedAlone
<1> QED BY <1>2, <1>8, <1>10, <1>11, <1>13
    DEF TuningIInv, Tuning!TunedForStrategy, Tuning!SealedIsWhole, Tuning!SearchedFor

-----------------------------------------------------------------------------

\* What the steps of one job alone share: the other slots are as they were.
LEMMA PairedKept ==
    ASSUME TuningTypes, TuningPaired, NEW s \in Slots, tuning_job[s].at # "idle",
           \A t \in Slots : t # s => tuning_job'[t] = tuning_job[t],
           tuning_job'[s].at # "idle" => tuning_job'[s].shared = tuning_job[s].shared
    PROVE  TuningPaired'
BY DEF TuningPaired

\* A kind that no step of another job touches stays alone at its temporary name.
LEMMA AloneKept ==
    ASSUME TuningTypes, TuningTypes', SealedAlone, NEW s \in Slots,
           NEW k \in Tuning!Kinds \ raced, raced \subseteq raced',
           k \notin raced', temp'[k] = temp[k],
           \A t \in Slots : t # s => tuning_job'[t] = tuning_job[t],
           ~(tuning_job'[s].at \in {"writing", "written"} /\ tuning_job'[s].kind = k)
    PROVE  \A t \in Tuning!Sealing(k)' :
             /\ \A u \in Tuning!Sealing(k)' : t = u
             /\ tuning_job'[t].on = "temp"
             /\ tuning_job'[t].at = "written" => temp'[k].state = "whole"
<1>1. \A t \in Tuning!Sealing(k)' :
    t # s /\ t \in Tuning!Sealing(k) /\ tuning_job'[t] = tuning_job[t]
  BY NextSealingIs, SealingIs
<1> QED BY <1>1 DEF SealedAlone

LEMMA SearchStep ==
    ASSUME TuningIInv, NEW s \in Slots, Tuning!Search(s)
    PROVE  TuningIInv'
<1>1. PICK of \in tuning_Strategies :
        /\ tuning_job[s].kind = "ml" => of = Tuning!SearchedFor
        /\ tuning_job' = [tuning_job EXCEPT ![s].at = "searched", ![s].of = of]
  BY DEF Tuning!Search
<1>2. /\ TuningTypes /\ tuning_job[s].at = "begun" /\ tuning_job[s] \in Early
      /\ UNCHANGED <<live_strategy, params, temp, disk, crossed, raced, tuning_rounds>>
  BY TuningJobFact DEF TuningIInv, Tuning!Search
<1>3. /\ tuning_job'[s] \in Early /\ tuning_job'[s].at = "searched" /\ tuning_job'[s].of = of
      /\ tuning_job'[s].kind = tuning_job[s].kind /\ tuning_job'[s].shared = tuning_job[s].shared
      /\ \A t \in Slots : t # s => tuning_job'[t] = tuning_job[t]
  BY <1>1, <1>2 DEF TuningTypes, Early, Searched
<1>4. TuningTypes'
  <2>1. tuning_job' \in [Slots -> {Tuning!Idle} \cup Early \cup Sealers]
    BY <1>1, <1>2, <1>3 DEF TuningTypes
  <2> QED BY <1>2, <2>1 DEF TuningTypes
<1>5. Tuning!SearchedFor' = Tuning!SearchedFor BY <1>2 DEF Tuning!SearchedFor
<1>6. SearchHolds' BY <1>1, <1>3, <1>5 DEF TuningIInv, SearchHolds
<1>7. TuningPaired' BY <1>2, <1>3, PairedKept DEF TuningIInv
<1>8. SealedAlone'
  BY <1>2, <1>3, <1>4, AloneKept DEF TuningIInv, SealedAlone
<1> QED BY <1>2, <1>4, <1>5, <1>6, <1>7, <1>8
          DEF TuningIInv, Tuning!TunedForStrategy, Tuning!SealedIsWhole

(* Any job that another one runs beside is shared, so what a retrain alone *)
(* searched for outlives no change of the strategy.                        *)
LEMMA TuningApplyStep ==
    ASSUME TuningIInv, NEW s \in Slots, Tuning!Apply(s)
    PROVE  TuningIInv'
<1>1. /\ TuningTypes /\ TuningPaired /\ tuning_job[s].at = "searched" /\ tuning_job[s] \in Early
      /\ params' = tuning_job[s].of
      /\ live_strategy' = IF tuning_job[s].kind = "backtest" THEN tuning_job[s].of ELSE live_strategy
      /\ crossed' = tuning_job[s].shared
      /\ tuning_job' = [tuning_job EXCEPT ![s].at = "applied"]
      /\ UNCHANGED <<temp, disk, raced, tuning_rounds>>
  BY TuningJobFact DEF TuningIInv, Tuning!Apply
<1>2. /\ tuning_job[s].of \in tuning_Strategies
      /\ tuning_job[s].kind = "ml" /\ ~tuning_job[s].shared => tuning_job[s].of = Tuning!SearchedFor
  BY <1>1 DEF TuningIInv, SearchHolds
<1>3. /\ tuning_job'[s] \in Early /\ tuning_job'[s].at = "applied"
      /\ tuning_job'[s].shared = tuning_job[s].shared
      /\ tuning_job[s].kind \in Tuning!Kinds /\ tuning_job[s].shared \in BOOLEAN
      /\ \A t \in Slots : t # s => tuning_job'[t] = tuning_job[t]
  BY <1>1 DEF TuningTypes, Early
<1>4. TuningTypes'
  <2>1. tuning_job' \in [Slots -> {Tuning!Idle} \cup Early \cup Sealers]
    BY <1>1, <1>3 DEF TuningTypes
  <2>2. live_strategy' \in tuning_Strategies \cup {"AUTO"} /\ params' \in Searched /\ crossed' \in BOOLEAN
    BY <1>1, <1>2, <1>3 DEF TuningTypes, Searched
  <2> QED BY <1>1, <2>1, <2>2 DEF TuningTypes
<1>5. TuningPaired' BY <1>1, <1>3, PairedKept
<1>6. \A t \in Slots : tuning_job'[t].at = "searched" =>
        t # s /\ tuning_job'[t] = tuning_job[t] /\ tuning_job[t].shared
  BY <1>1, <1>3 DEF TuningPaired
<1>7. SearchHolds' BY <1>6 DEF TuningIInv, SearchHolds
<1>8. SealedAlone' BY <1>1, <1>3, <1>4, AloneKept DEF TuningIInv, SealedAlone
<1>9. Tuning!TunedForStrategy'
  <2>1. CASE tuning_job[s].kind = "backtest"
    <3>1. live_strategy' = tuning_job[s].of /\ live_strategy' # "AUTO"
      BY <1>1, <1>2, <2>1, TuningAssumed DEF Tuning!TuningAssumption
    <3> QED BY <1>1, <3>1 DEF Tuning!TunedForStrategy, Tuning!SearchedFor
  <2>2. CASE tuning_job[s].kind = "ml"
    <3>1. Tuning!SearchedFor' = Tuning!SearchedFor BY <1>1, <2>2 DEF Tuning!SearchedFor
    <3> QED BY <1>1, <1>2, <2>2, <3>1 DEF Tuning!TunedForStrategy
  <2> QED BY <1>3, <2>1, <2>2 DEF Tuning!Kinds
<1> QED BY <1>1, <1>4, <1>5, <1>7, <1>8, <1>9 DEF TuningIInv, Tuning!SealedIsWhole

(* A job that finds the temporary name free is alone at it; one that does  *)
(* not leaves its mark in raced.                                           *)
LEMMA OpenTempStep ==
    ASSUME TuningIInv, NEW s \in Slots, Tuning!OpenTemp(s)
    PROVE  TuningIInv'
<1> DEFINE kind == tuning_job[s].kind
           writing == [at |-> "writing", kind |-> kind, of |-> tuning_job[s].of,
                       shared |-> tuning_job[s].shared, data |-> [of |-> tuning_job[s].of, params |-> params],
                       on |-> "temp"]
<1>1. /\ TuningTypes /\ tuning_job[s].at = "applied" /\ tuning_job[s] \in Early
      /\ tuning_job' = [tuning_job EXCEPT ![s] = writing]
      /\ temp' = [temp EXCEPT ![kind] = [state |-> "torn"]]
      /\ raced' = IF Tuning!Sealing(kind) = {} THEN raced ELSE raced \cup {kind}
      /\ UNCHANGED <<live_strategy, params, disk, crossed, tuning_rounds>>
  BY TuningJobFact DEF TuningIInv, Tuning!OpenTemp
<1>2. kind \in Tuning!Kinds /\ writing \in Sealers /\ writing.at = "writing" /\ writing.on = "temp"
      /\ writing.kind = kind /\ writing.shared = tuning_job[s].shared
  BY <1>1 DEF TuningTypes, Early, Sealers, Datas
<1> HIDE DEF kind, writing
<1>3. /\ tuning_job'[s] = writing
      /\ \A t \in Slots : t # s => tuning_job'[t] = tuning_job[t]
  BY <1>1 DEF TuningTypes
<1>4. TuningTypes'
  <2>1. tuning_job' \in [Slots -> {Tuning!Idle} \cup Early \cup Sealers]
    BY <1>1, <1>2 DEF TuningTypes
  <2>2. [state |-> "torn"] \in Files BY DEF Files
  <2>3. temp' \in [Tuning!Kinds -> Files] BY <1>1, <2>2 DEF TuningTypes
  <2>4. raced' \subseteq Tuning!Kinds BY <1>1, <1>2 DEF TuningTypes
  <2> QED BY <1>1, <2>1, <2>3, <2>4 DEF TuningTypes
<1>5. TuningPaired' BY <1>1, <1>2, <1>3, PairedKept DEF TuningIInv
<1>6. SearchHolds'
  <2>1. Tuning!SearchedFor' = Tuning!SearchedFor BY <1>1 DEF Tuning!SearchedFor
  <2> QED BY <1>2, <1>3, <2>1 DEF TuningIInv, SearchHolds
<1>7. SealedAlone'
  <2> SUFFICES ASSUME NEW k \in Tuning!Kinds \ raced'
               PROVE  \A t \in Tuning!Sealing(k)' :
                        /\ \A u \in Tuning!Sealing(k)' : t = u
                        /\ tuning_job'[t].on = "temp"
                        /\ tuning_job'[t].at = "written" => temp'[k].state = "whole"
    BY DEF SealedAlone
  <2>1. k \in Tuning!Kinds \ raced /\ raced \subseteq raced' BY <1>1
  <2>2. CASE k = kind
    <3>1. Tuning!Sealing(k) = {} BY <1>1, <1>2, <2>2
    <3>2. \A t \in Tuning!Sealing(k)' : t = s
      BY <1>1, <1>3, <1>4, <3>1, SealingIs, NextSealingIs
    <3> QED BY <1>2, <1>3, <3>2
  <2>3. CASE k # kind
    <3>1. temp'[k] = temp[k] BY <1>1, <2>3 DEF TuningTypes
    <3> QED BY <1>1, <1>2, <1>3, <1>4, <2>1, <2>3, <3>1, AloneKept DEF TuningIInv
  <2> QED BY <2>2, <2>3
<1>8. Tuning!SealedIsWhole' BY <1>1 DEF TuningIInv, Tuning!SealedIsWhole
<1> QED BY <1>1, <1>4, <1>5, <1>6, <1>7, <1>8
          DEF TuningIInv, Tuning!TunedForStrategy, Tuning!SearchedFor

LEMMA TuningWriteStep ==
    ASSUME TuningIInv, NEW s \in Slots, Tuning!Write(s)
    PROVE  TuningIInv'
<1> DEFINE kind == tuning_job[s].kind
           whole == [state |-> "whole", data |-> tuning_job[s].data]
           torn == [state |-> "torn"]
           others == {t \in Tuning!Sealing(kind) \ {s} : tuning_job[t].at = "writing" /\ tuning_job[t].on = tuning_job[s].on}
<1>1. PICK result \in IF others = {} THEN {whole} ELSE {whole, torn} :
        /\ temp' = IF tuning_job[s].on = "temp" THEN [temp EXCEPT ![kind] = result] ELSE temp
        /\ disk' = IF tuning_job[s].on = "disk" THEN [disk EXCEPT ![kind] = result] ELSE disk
  BY DEF Tuning!Write
<1>2. /\ TuningTypes /\ tuning_job[s].at = "writing" /\ tuning_job[s] \in Sealers
      /\ tuning_job' = [tuning_job EXCEPT ![s].at = "written"]
      /\ UNCHANGED <<live_strategy, params, crossed, raced, tuning_rounds>>
  BY TuningJobFact DEF TuningIInv, Tuning!Write
<1>3. kind \in Tuning!Kinds /\ whole \in Files /\ torn \in Files /\ whole.state = "whole"
  BY <1>2 DEF Sealers, Files
<1>4. /\ tuning_job'[s] \in Sealers /\ tuning_job'[s].at = "written"
      /\ tuning_job'[s].on = tuning_job[s].on
      /\ tuning_job'[s].kind = kind /\ tuning_job'[s].shared = tuning_job[s].shared
      /\ \A t \in Slots : t # s => tuning_job'[t] = tuning_job[t]
  BY <1>2 DEF TuningTypes, Sealers
<1>5. s \in Tuning!Sealing(kind) BY <1>2, SealingIs
<1>6. kind \notin raced => others = {} /\ tuning_job[s].on = "temp"
  BY <1>3, <1>5 DEF TuningIInv, SealedAlone
<1>7. result \in Files /\ (others = {} => result = whole) BY <1>1, <1>3
<1> HIDE DEF kind, whole, torn, others
<1>8. TuningTypes'
  <2>1. tuning_job' \in [Slots -> {Tuning!Idle} \cup Early \cup Sealers]
    BY <1>2, <1>4 DEF TuningTypes
  <2>2. temp' \in [Tuning!Kinds -> Files] BY <1>1, <1>2, <1>3, <1>7 DEF TuningTypes
  <2>3. disk' \in [Tuning!Kinds -> Files] BY <1>1, <1>2, <1>3, <1>7 DEF TuningTypes
  <2> QED BY <1>2, <2>1, <2>2, <2>3 DEF TuningTypes
<1>9. TuningPaired' BY <1>2, <1>4, PairedKept DEF TuningIInv
<1>10. SearchHolds'
  <2>1. Tuning!SearchedFor' = Tuning!SearchedFor BY <1>2 DEF Tuning!SearchedFor
  <2> QED BY <1>4, <2>1 DEF TuningIInv, SearchHolds
<1>11. SealedAlone'
  <2> SUFFICES ASSUME NEW k \in Tuning!Kinds \ raced'
               PROVE  \A t \in Tuning!Sealing(k)' :
                        /\ \A u \in Tuning!Sealing(k)' : t = u
                        /\ tuning_job'[t].on = "temp"
                        /\ tuning_job'[t].at = "written" => temp'[k].state = "whole"
    BY DEF SealedAlone
  <2>1. k \in Tuning!Kinds \ raced /\ raced' = raced BY <1>2
  <2>2. CASE k = kind
    <3>1. \A t \in Tuning!Sealing(k) : t = s
      BY <1>5, <2>1, <2>2 DEF TuningIInv, SealedAlone
    <3>2. \A t \in Tuning!Sealing(k)' : t = s
      BY <1>2, <1>4, <1>8, <3>1, SealingIs, NextSealingIs
    <3>3. temp'[k] = whole BY <1>1, <1>2, <1>3, <1>6, <1>7, <2>1, <2>2 DEF TuningTypes
    <3> QED BY <1>3, <1>4, <1>6, <2>1, <2>2, <3>2, <3>3
  <2>3. CASE k # kind
    <3>1. temp'[k] = temp[k] BY <1>1, <1>2, <2>3 DEF TuningTypes
    <3> QED BY <1>2, <1>4, <1>8, <2>1, <2>3, <3>1, AloneKept DEF TuningIInv
  <2> QED BY <2>2, <2>3
<1>12. Tuning!SealedIsWhole'
  <2>1. \A k \in Tuning!Kinds \ raced : disk'[k] = disk[k]
    BY <1>1, <1>2, <1>6 DEF TuningTypes
  <2> QED BY <1>2, <2>1 DEF TuningIInv, Tuning!SealedIsWhole
<1> QED BY <1>2, <1>8, <1>9, <1>10, <1>11, <1>12
          DEF TuningIInv, Tuning!TunedForStrategy, Tuning!SearchedFor

LEMMA TuningFailStep ==
    ASSUME TuningIInv, NEW s \in Slots, Tuning!Fail(s)
    PROVE  TuningIInv'
<1>1. /\ TuningTypes /\ tuning_job[s].at \in {"begun", "applied"}
      /\ tuning_job' = [tuning_job EXCEPT ![s] = Tuning!Idle]
      /\ UNCHANGED <<live_strategy, params, temp, disk, crossed, raced, tuning_rounds>>
  BY DEF TuningIInv, Tuning!Fail
<1>2. tuning_job'[s].at = "idle" /\ \A t \in Slots : t # s => tuning_job'[t] = tuning_job[t]
  BY <1>1 DEF TuningTypes, Tuning!Idle
<1>3. TuningTypes'
  <2>1. tuning_job' \in [Slots -> {Tuning!Idle} \cup Early \cup Sealers]
    BY <1>1 DEF TuningTypes
  <2> QED BY <1>1, <2>1 DEF TuningTypes
<1>4. TuningPaired' BY <1>1, <1>2, PairedKept DEF TuningIInv
<1>5. SearchHolds'
  <2>1. Tuning!SearchedFor' = Tuning!SearchedFor BY <1>1 DEF Tuning!SearchedFor
  <2> QED BY <1>2, <2>1 DEF TuningIInv, SearchHolds
<1>6. SealedAlone' BY <1>1, <1>2, <1>3, AloneKept DEF TuningIInv, SealedAlone
<1> QED BY <1>1, <1>3, <1>4, <1>5, <1>6
    DEF TuningIInv, Tuning!TunedForStrategy, Tuning!SearchedFor, Tuning!SealedIsWhole

(* The temporary file is moved by the one job that opened it, which has    *)
(* written all of it.                                                      *)
LEMMA RenameStep ==
    ASSUME TuningIInv, NEW s \in Slots, Tuning!Rename(s)
    PROVE  TuningIInv'
<1> DEFINE kind == tuning_job[s].kind
<1>1. /\ TuningTypes /\ tuning_job[s].at = "written" /\ tuning_job[s] \in Sealers
      /\ kind \in Tuning!Kinds
      /\ UNCHANGED <<live_strategy, params, crossed, raced, tuning_rounds>>
  BY TuningJobFact DEF TuningIInv, Tuning!Rename, Sealers
<1>2. s \in Tuning!Sealing(kind) BY <1>1, SealingIs
<1>3. \/ /\ tuning_job' = [tuning_job EXCEPT ![s] = Tuning!Idle] /\ UNCHANGED <<temp, disk>>
      \/ /\ disk' = [disk EXCEPT ![kind] = temp[kind]]
         /\ temp' = [temp EXCEPT ![kind] = Tuning!None]
         /\ tuning_job' = [t \in Slots |->
              IF t = s THEN Tuning!Idle
              ELSE IF t \in Tuning!Sealing(kind)
              THEN [tuning_job[t] EXCEPT !.on = IF @ = "temp" THEN "disk" ELSE "unlinked"]
              ELSE tuning_job[t]]
  BY DEF Tuning!Rename
<1> HIDE DEF kind
<1>4. tuning_job'[s] = Tuning!Idle /\ tuning_job'[s].at = "idle"
  BY <1>1, <1>3 DEF TuningTypes, Tuning!Idle
<1>5. ASSUME NEW t \in Slots, t # s
      PROVE  /\ tuning_job'[t] \in {Tuning!Idle} \cup Early \cup Sealers
             /\ tuning_job'[t].at = tuning_job[t].at
             /\ tuning_job[t] # Tuning!Idle => /\ tuning_job'[t].kind = tuning_job[t].kind
                                               /\ tuning_job'[t].of = tuning_job[t].of
                                /\ tuning_job'[t].shared = tuning_job[t].shared
             /\ t \notin Tuning!Sealing(kind) => tuning_job'[t] = tuning_job[t]
  <2>1. CASE tuning_job'[t] = tuning_job[t] BY <1>1, <2>1 DEF TuningTypes
  <2>2. CASE /\ t \in Tuning!Sealing(kind)
             /\ tuning_job'[t] = [tuning_job[t] EXCEPT !.on = IF @ = "temp" THEN "disk" ELSE "unlinked"]
    <3>1. tuning_job[t] \in Sealers BY <1>1, <2>2, SealingIs, TuningJobFact
    <3> QED BY <2>2, <3>1 DEF Sealers
  <2> QED BY <1>1, <1>3, <1>5, <2>1, <2>2 DEF TuningTypes
<1>6. TuningTypes'
  <2>1. \A t \in Slots : tuning_job'[t] \in {Tuning!Idle} \cup Early \cup Sealers BY <1>4, <1>5
  <2>2. tuning_job' = [t \in Slots |-> tuning_job'[t]] BY <1>1, <1>3 DEF TuningTypes
  <2>3. tuning_job' \in [Slots -> {Tuning!Idle} \cup Early \cup Sealers] BY <2>1, <2>2
  <2>4. Tuning!None \in Files BY DEF Tuning!None, Files
  <2>5. temp' \in [Tuning!Kinds -> Files] /\ disk' \in [Tuning!Kinds -> Files]
    BY <1>1, <1>3, <2>4 DEF TuningTypes
  <2> QED BY <1>1, <2>3, <2>5 DEF TuningTypes
<1>7. TuningPaired'
  BY <1>4, <1>5, TuningJobFact, <1>1 DEF TuningIInv, TuningPaired, Tuning!Idle
<1>8. SearchHolds'
  <2>1. Tuning!SearchedFor' = Tuning!SearchedFor BY <1>1 DEF Tuning!SearchedFor
  <2>2. \A t \in Slots : tuning_job'[t].at = "searched" => t # s /\ tuning_job'[t] = tuning_job[t]
    <3>1. \A t \in Slots : tuning_job[t].at = "searched" => t \notin Tuning!Sealing(kind)
      BY <1>1, SealingIs
    <3> QED BY <1>4, <1>5, <3>1
  <2> QED BY <2>1, <2>2 DEF TuningIInv, SearchHolds
<1>9. SealedAlone'
  <2> SUFFICES ASSUME NEW k \in Tuning!Kinds \ raced'
               PROVE  \A t \in Tuning!Sealing(k)' :
                        /\ \A u \in Tuning!Sealing(k)' : t = u
                        /\ tuning_job'[t].on = "temp"
                        /\ tuning_job'[t].at = "written" => temp'[k].state = "whole"
    BY DEF SealedAlone
  <2>1. k \in Tuning!Kinds \ raced /\ raced' = raced BY <1>1
  <2>2. \A t \in Tuning!Sealing(k)' : t # s /\ t \in Tuning!Sealing(k)
    BY <1>1, <1>4, <1>5, <1>6, SealingIs, NextSealingIs DEF Tuning!Idle
  <2>3. CASE k = kind BY <1>2, <2>1, <2>2, <2>3 DEF TuningIInv, SealedAlone
  <2>4. CASE k # kind
    <3>1. temp'[k] = temp[k] BY <1>1, <1>3, <2>4 DEF TuningTypes
    <3>2. \A t \in Tuning!Sealing(k)' :
        t \notin Tuning!Sealing(kind) /\ tuning_job'[t] = tuning_job[t]
      BY <1>1, <1>5, <2>2, <2>4, SealingIs
    <3> QED BY <2>1, <2>2, <3>1, <3>2 DEF TuningIInv, SealedAlone
  <2> QED BY <2>3, <2>4
<1>10. Tuning!SealedIsWhole'
  <2>1. \A k \in Tuning!Kinds \ raced : disk'[k] = disk[k] \/ disk'[k].state = "whole"
    BY <1>1, <1>2, <1>3 DEF TuningTypes, TuningIInv, SealedAlone
  <2> QED BY <1>1, <2>1 DEF TuningIInv, Tuning!SealedIsWhole
<1> QED BY <1>1, <1>6, <1>7, <1>8, <1>9, <1>10
          DEF TuningIInv, Tuning!TunedForStrategy, Tuning!SearchedFor

LEMMA RestartStep ==
    ASSUME TuningIInv, Tuning!Restart
    PROVE  TuningIInv'
<1>1. /\ TuningTypes /\ tuning_job' = [s \in Slots |-> Tuning!Idle] /\ live_strategy' = "AUTO"
      /\ params' = "none"
      /\ crossed' = FALSE /\ UNCHANGED <<temp, disk, raced, tuning_rounds>>
  BY DEF TuningIInv, Tuning!Restart
<1>2. TuningTypes' BY <1>1 DEF TuningTypes, Searched
<1>3. \A s \in Slots : tuning_job'[s].at = "idle" BY <1>1 DEF Tuning!Idle
<1>4. \A k : Tuning!Sealing(k)' = {} BY <1>2, <1>3, NextSealingIs
<1> QED BY <1>1, <1>2, <1>3, <1>4
    DEF TuningIInv, TuningPaired, SearchHolds, SealedAlone, Tuning!TunedForStrategy,
        Tuning!SealedIsWhole

LEMMA TuningNextKeepsIInv ==
    ASSUME TuningIInv, [Tuning!Next]_Tuning!tuningVars
    PROVE  TuningIInv'
<1>1. CASE \E s \in Slots, kind \in Tuning!Kinds : Tuning!Begin(s, kind)
  BY <1>1, TuningBeginStep
<1>2. CASE \E s \in Slots : Tuning!Search(s) BY <1>2, SearchStep
<1>3. CASE \E s \in Slots : Tuning!Apply(s) BY <1>3, TuningApplyStep
<1>4. CASE \E s \in Slots : Tuning!OpenTemp(s) BY <1>4, OpenTempStep
<1>5. CASE \E s \in Slots : Tuning!Write(s) BY <1>5, TuningWriteStep
<1>6. CASE \E s \in Slots : Tuning!Rename(s) BY <1>6, RenameStep
<1>7. CASE \E s \in Slots : Tuning!Fail(s) BY <1>7, TuningFailStep
<1>8. CASE Tuning!Restart BY <1>8, RestartStep
<1>9. CASE UNCHANGED Tuning!tuningVars
  BY <1>9
    DEF Tuning!tuningVars, TuningIInv, TuningTypes, TuningPaired, SearchHolds,
        SealedAlone, Tuning!TunedForStrategy,
              Tuning!SealedIsWhole, Tuning!SearchedFor, Tuning!Sealing, Tuning!Running
<1> QED BY <1>1, <1>2, <1>3, <1>4, <1>5, <1>6, <1>7, <1>8, <1>9 DEF Tuning!Next

(* The stops in force were searched for the strategy in force, however     *)
(* retrains, backtests and restarts follow each other, unless two jobs ran *)
(* side by side (TunedForStrategy, TuningJobs).                            *)
THEOREM TunedTogether == Tuning!Spec => []TunedForStrategy
<1>1. TuningIInv => Tuning!TunedForStrategy BY DEF TuningIInv
<1> QED BY <1>1, TuningInitIInv, TuningNextKeepsIInv, PTL
          DEF TunedForStrategy, Tuning!Spec

(* However the stops and the jobs interleave, a sealed file of a kind that *)
(* two jobs have not been sealing at once is whole (SealedIsWhole,         *)
(* TuningJobs).                                                            *)
THEOREM SealsAreWhole == Tuning!Spec => []SealedIsWhole
<1>1. TuningIInv => Tuning!SealedIsWhole BY DEF TuningIInv
<1> QED BY <1>1, TuningInitIInv, TuningNextKeepsIInv, PTL DEF SealedIsWhole, Tuning!Spec

(* Types: a job is idle or in one of its six places, a file absent, torn or *)
(* whole.                                                                   *)
THEOREM TuningTypeCorrect == Tuning!Spec => []Tuning!TypeOK
<1>1. ASSUME TuningIInv PROVE Tuning!TypeOK
  <2>1. TuningTypes BY <1>1 DEF TuningIInv
  <2>2. ASSUME NEW s \in Slots
        PROVE  tuning_job[s].at \in {"idle", "begun", "searched", "applied", "writing", "written"}
    <3>1. tuning_job[s] \in {Tuning!Idle} \cup Early \cup Sealers BY <2>1 DEF TuningTypes
    <3> QED BY <3>1 DEF Tuning!Idle, Early, Sealers
  <2>3. ASSUME NEW f \in Files PROVE f.state \in {"none", "torn", "whole"} BY DEF Files
  <2>4. \A k \in Tuning!Kinds : {temp[k].state, disk[k].state} \subseteq {"none", "torn", "whole"}
    BY <2>1, <2>3 DEF TuningTypes
  <2> QED BY <2>1, <2>2, <2>4 DEF TuningTypes, Tuning!TypeOK, Searched
<1> QED BY <1>1, TuningInitIInv, TuningNextKeepsIInv, PTL DEF Tuning!Spec

=============================================================================
