--------------------------- MODULE CandleDownload ---------------------------
(***************************************************************************)
(* How the stored candles of one symbol and interval follow the exchange   *)
(* (engines/master/jobs_download.rs, data_fetcher/binance.rs,              *)
(* persistence/writer.rs).  A job reads the newest stored bar, decides     *)
(* between the last bars and a paged backfill, fetches, and writes bar by  *)
(* bar.  Nothing keeps two jobs apart, each write may fail on its own, and *)
(* the engine may stop at any time.  Bar n is still forming at time n.     *)
(***************************************************************************)
EXTENDS Integers, FiniteSets, FiniteSetsExt

CONSTANTS
    Page,              \* bars one request returns at most (1000 in the code)
    base,              \* config download_candle_limit (50 at least in the code)
    Buffer,            \* bars fetched again below the gap (5 in the code)
    max_requests,      \* pages of one backfill
    backfill_enabled,
    Unusable,          \* bars the exchange reports with inconsistent prices
    Jobs,
    Starts,            \* bars at which the first job may begin
    Horizon,           \* bound on time
    MaxFaults          \* bound on failed reads and writes

DownloadAssumption ==
    /\ Page \in Nat \ {0} /\ base \in 3 .. Page /\ Buffer \in Nat \ {0, 1}
    /\ max_requests \in Nat \ {0} /\ backfill_enabled \in BOOLEAN
    /\ Horizon \in Nat /\ Starts \subseteq 1 .. Horizon /\ Unusable \subseteq 1 .. Horizon
    /\ MaxFaults \in Nat

VARIABLES
    now,
    stored,            \* bar -> "none", "partial" (recorded while forming) or "final"
    job,               \* job -> what it does next
    faults,
    seeded,            \* the bar recorded before all others, or 0 (history)
    blind,             \* bars below which a failed read hid the gap (history)
    lost,              \* bars whose write failed and has not been made good (history)
    seams,             \* newest bars a fetch began too far above to record again (history)
    stale              \* bars a late job set back, or recorded behind newer ones (history)

downloadVars == <<now, stored, job, faults, seeded, blind, lost, seams, stale>>

Bars == 1 .. Horizon
Idle == [at |-> "idle", late |-> FALSE]
Recorded == {b \in Bars : stored[b] # "none"}
Newest == Max(Recorded)
Latest == Max(Recorded \cup {0})

Init ==
    /\ now \in Starts /\ faults = 0
    /\ stored = [b \in Bars |-> "none"]
    /\ job = [j \in Jobs |-> Idle]
    /\ seeded = 0 /\ blind = {} /\ lost = {} /\ seams = {} /\ stale = {}

\* Bound: a behaviour has jobs that overlap or reads and writes that fail, not both.
Alone(j) == \A other \in Jobs \ {j} : job[other] = Idle
MayFail(j) == faults < MaxFaults /\ Alone(j)

-----------------------------------------------------------------------------

\* Mutant: a deep gap is fetched like a shallow one.
PlanLatest(last) ==
    LET missing == now - last
    IN  [at |-> "fetch", deep |-> FALSE, from |-> 0, late |-> FALSE,
         limit |-> Max({base, Min({missing + Buffer, Page})})]

\* gap_aware_fetch_limit and deep_gap_start_ms.
PlanFor(last) ==
    LET missing == now - last
    IN  IF backfill_enabled /\ missing > Page
        THEN [at |-> "fetch", deep |-> TRUE, from |-> last + 1, late |-> FALSE, limit |-> Page]
        ELSE [at |-> "fetch", deep |-> FALSE, from |-> 0, late |-> FALSE,
              limit |-> Max({base, Min({missing + Buffer, Page})})]

Seed == [at |-> "fetch", deep |-> FALSE, from |-> 0, late |-> FALSE, limit |-> base]

\* A read that fails is taken for a symbol without candles.
Plan(j) ==
    /\ job[j].at = "idle"
    /\ faults = 0 \/ Alone(j)
    /\ \/ /\ job' = [job EXCEPT ![j] = IF Recorded = {} THEN Seed ELSE PlanFor(Newest)]
          /\ seams' = IF Recorded # {} /\ now - Newest + Buffer > Page
                      THEN seams \cup {Newest} ELSE seams
          /\ UNCHANGED <<faults, blind>>
       \/ /\ MayFail(j) /\ faults' = faults + 1
          /\ job' = [job EXCEPT ![j] = Seed]
          /\ blind' = 1 .. now
          /\ UNCHANGED seams
    /\ UNCHANGED <<now, stored, seeded, lost, stale>>

PageOf(from, k) == (from + (k - 1) * Page .. from + k * Page - 1) \cap (1 .. now)
Usable(bars) == bars \ Unusable
FullPage(from, k) == Cardinality(Usable(PageOf(from, k))) = Page

\* fetch_history_market: pages forward until one is not full, fails or is the last allowed.
Backfill(from, requests) ==
    UNION {Usable(PageOf(from, k)) :
             k \in {k \in 1 .. requests : \A before \in 1 .. k - 1 : FullPage(from, before)}}

Fetched(plan, requests) ==
    IF plan.deep THEN Backfill(plan.from, requests)
    ELSE Usable((now - plan.limit + 1 .. now) \cap Bars)

\* requests: how many of the pages are answered; without a candle the job fails.
Fetch(j) ==
    /\ job[j].at = "fetch"
    /\ \E requests \in 0 .. max_requests :
         /\ job[j].deep \/ requests \in {0, 1}
         /\ LET batch == IF requests = 0 THEN {} ELSE Fetched(job[j], requests)
            IN  job' = [job EXCEPT ![j] = IF batch = {} THEN Idle
                                          ELSE [at |-> "save", late |-> job[j].late,
                                                todo |-> batch, seen |-> now]]
    /\ UNCHANGED <<now, stored, faults, seeded, blind, lost, seams, stale>>

\* What is known of a bar that has been recorded in a form.
Noted(bar, form) ==
    /\ stored' = [stored EXCEPT ![bar] = form]
    /\ seeded' = IF Recorded = {} THEN bar ELSE seeded
    /\ lost' = IF form = "final" THEN lost \ {bar} ELSE lost
    /\ stale' = IF form = "final" THEN stale \ {bar}
                ELSE IF bar < Latest \/ stored[bar] = "final" THEN stale \cup {bar} ELSE stale

\* Mutant: the newest bar is written first.
SaveNewestFirst(j) ==
    /\ job[j].at = "save"
    /\ LET bar  == Max(job[j].todo)
           rest == job[j].todo \ {bar}
       IN  /\ job' = [job EXCEPT ![j] = IF rest = {} THEN Idle ELSE [@ EXCEPT !.todo = rest]]
           /\ Noted(bar, IF bar = job[j].seen THEN "partial" ELSE "final")
    /\ UNCHANGED <<now, faults, blind, seams>>

\* save_candle: an upsert; one that fails is skipped and the next one tried.
SaveNext(j) ==
    /\ job[j].at = "save"
    /\ LET bar  == Min(job[j].todo)
           rest == job[j].todo \ {bar}
       IN  /\ job' = [job EXCEPT ![j] = IF rest = {} THEN Idle ELSE [@ EXCEPT !.todo = rest]]
           /\ \/ /\ Noted(bar, IF bar = job[j].seen THEN "partial" ELSE "final")
                 /\ UNCHANGED faults
              \/ /\ MayFail(j) /\ faults' = faults + 1
                 /\ lost' = lost \cup {bar}
                 /\ UNCHANGED <<stored, seeded, stale>>
    /\ UNCHANGED <<now, blind, seams>>

\* The engine stops; time goes on without it.
Stop ==
    /\ job' = [j \in Jobs |-> Idle]
    /\ UNCHANGED <<now, stored, faults, seeded, blind, lost, seams, stale>>

\* A fetch begins right after its plan, gives up after 15 seconds, and what it brought
\* is written at once: at most one bar passes in between.
NextBar ==
    /\ now < Horizon
    /\ \A j \in Jobs : ~job[j].late
    /\ now' = now + 1
    /\ job' = [j \in Jobs |-> [job[j] EXCEPT !.late = job[j] # Idle]]
    /\ UNCHANGED <<stored, faults, seeded, blind, lost, seams, stale>>

Next ==
    \/ \E j \in Jobs : Plan(j) \/ Fetch(j) \/ SaveNext(j)
    \/ Stop
    \/ NextBar

Spec == Init /\ [][Next]_downloadVars

-----------------------------------------------------------------------------

TypeOK ==
    /\ now \in Bars /\ faults \in 0 .. MaxFaults
    /\ stored \in [Bars -> {"none", "partial", "final"}]
    /\ \A j \in Jobs : job[j].at \in {"idle", "fetch", "save"}
    /\ seeded \in 0 .. Horizon
    /\ blind \cup lost \cup seams \cup stale \subseteq Bars

\* With the backfill enabled, and above the bar recorded before all others, there is a
\* hole below a stored bar only where a bar cannot be used, where its write failed, or
\* where a failed read hid the gap: engine stops, overlapping jobs, backfills cut short
\* and bars closing meanwhile leave none but the first bar of a gap of exactly a page,
\* when one more bar closes before it is fetched.
HolesNeedFailure ==
    backfill_enabled /\ Recorded # {} =>
      \A b \in seeded .. Newest :
        b \in Recorded \cup Unusable \cup lost \cup blind \/ b - 1 \in seams

\* A bar recorded while it was forming is recorded again once it has closed and
\* newer bars are stored, except at the foot of a gap as long as a page, after a
\* failure, or when a job that fetched earlier sets it back or writes it behind newer ones.
PartialOnlyAtSeams ==
    \A b \in Bars : (stored[b] = "partial" /\ b < Newest) =>
      b \in seams \cup lost \cup stale \cup blind

=============================================================================
