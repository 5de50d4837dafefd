------------------------------ MODULE SymbolPlan ------------------------------
(* Which time frame and which strategy a symbol is traded with: seeded at    *)
(* boot from an offline scan, then revised by the backtest jobs, which score *)
(* first the time frames and then the strategies on the one chosen           *)
(* (engines/master/jobs_backtest.rs, backtester/walk_forward.rs).            *)
EXTENDS Naturals, Sequences, FiniteSets

CONSTANTS Frames, Candidates,       \* time frames, and those the jobs choose between
          ConfigFrame,              \* config.interval, of a symbol without one of its own
          Strategies,               \* the pool
          Seeds,                    \* what the scan may have found: edges, best first
          MIN_SCORE, STRAT_MARGIN, MaxScore,
          Jobs
PlanAssumption ==
    /\ Candidates \subseteq Frames /\ ConfigFrame \in Frames
    /\ Seeds \subseteq Seq(Frames \X Strategies) /\ {"none", "keep", "demote"} \cap (Frames \cup Strategies) = {}
    /\ {MIN_SCORE, STRAT_MARGIN, MaxScore} \subseteq Nat

None == "none"

VARIABLES symbol_interval, symbol_strategy, symbol_tracks,
          booted,
          job,          \* per job: what it read and what it is going to write
          proven,       \* the time frame and the strategies that passed there, last time scored
          pieced        \* the plan in force is not one job's: jobs overlapped, or the one
                        \* that wrote its time frame could score no strategy on it
vars == <<symbol_interval, symbol_strategy, symbol_tracks, booted, job, proven, pieced>>

Idle == [on |-> FALSE]
Decisions == Strategies \cup {"keep", "demote"}
Plan == [on: {TRUE}, interval: Frames \cup {None}, strategy: Decisions, scored: BOOLEAN,
         effective: Frames, passed: SUBSET Strategies, late: BOOLEAN]

TypeOK ==
    /\ symbol_interval \in Frames \cup {None}
    /\ symbol_strategy \in Strategies \cup {None}
    /\ symbol_tracks \in Seeds \cup {<<>>}
    /\ {booted, pieced} \subseteq BOOLEAN
    /\ job \in [Jobs -> Plan \cup {Idle}]
    /\ proven \in [frame: Frames, strategies: SUBSET Strategies]

Init ==
    /\ symbol_interval = None /\ symbol_strategy = None /\ symbol_tracks = <<>>
    /\ booted = FALSE /\ pieced = FALSE
    /\ job = [j \in Jobs |-> Idle]
    /\ proven = [frame |-> ConfigFrame, strategies |-> {}]

\* from_env: the first edge the scan has for the symbol becomes its time frame and strategy,
\* several become tracks.  They passed the scan's own walk-forward gate.
Boot ==
    /\ ~booted /\ booted' = TRUE
    /\ \E edges \in Seeds :
         IF edges = <<>>
         THEN UNCHANGED <<symbol_interval, symbol_strategy, symbol_tracks, proven>>
         ELSE /\ symbol_interval' = edges[1][1] /\ symbol_strategy' = edges[1][2]
              /\ proven' = [frame |-> edges[1][1], strategies |-> {edges[1][2]}]
              /\ symbol_tracks' = IF Len(edges) > 1 THEN edges ELSE <<>>
    /\ UNCHANGED <<job, pieced>>

InForce == IF symbol_interval = None THEN ConfigFrame ELSE symbol_interval

Best(scored, score) == {x \in scored : \A y \in scored : score[y] <= score[x]}

\* pick_best_with_margin: the best, if it beats the current one by more than the margin.
PickBestWithMargin(scored, score, current, margin) ==
    {IF current \in scored /\ score[b] <= score[current] + margin THEN current ELSE b :
       b \in Best(scored, score)}

\* Mutant: the margin protects a strategy that no longer passes, too.
StrategyChoicesSticky(score, current) ==
    {IF score[b] < MIN_SCORE \/ b = current THEN "keep" ELSE b :
       b \in IF current = None THEN Best(Strategies, score)
             ELSE PickBestWithMargin(Strategies, score, current, STRAT_MARGIN)}

\* evaluate_symbol_strategy with a non-empty pool; ties go either way.
StrategyChoices(score, current) ==
    IF current # None /\ score[current] < MIN_SCORE
    THEN {IF score[b] >= MIN_SCORE THEN b ELSE "demote" : b \in Best(Strategies, score)}
    ELSE {IF score[b] < MIN_SCORE \/ b = current THEN "keep" ELSE b :
            b \in IF current = None THEN Best(Strategies, score)
                  ELSE PickBestWithMargin(Strategies, score, current, STRAT_MARGIN)}

\* The time frame the strategies are scored on: the one just chosen.
EffectiveFrame(chosen, current) == IF chosen = None THEN current ELSE chosen

\* What a job that chose this time frame, and this strategy if it scored them, will write.
Decided(chosen, strategy, scored, passed) ==
    [on |-> TRUE, interval |-> IF chosen = InForce THEN None ELSE chosen, strategy |-> strategy,
     scored |-> scored, effective |-> EffectiveFrame(chosen, InForce), passed |-> passed,
     late |-> FALSE]

\* The job reads the plan in force under one lock and scores without it.  Any candidate
\* whose candles were read, and are enough, may score best with the one strategy they are
\* compared with; with none, no time frame is chosen.  The strategies are scored on candles
\* read anew, and that read may fail or be short whatever the first one gave: then the
\* strategy is kept, unscored, and the time frame chosen is written all the same.
Evaluate(j) ==
    \E chosen \in Candidates \cup {None} :
      \/ \E score \in [Strategies -> 0 .. MaxScore] :
           \E choice \in StrategyChoices(score, symbol_strategy) :
             job' = [job EXCEPT ![j] =
                       Decided(chosen, choice, TRUE, {s \in Strategies : score[s] >= MIN_SCORE})]
      \/ job' = [job EXCEPT ![j] = Decided(chosen, "keep", FALSE, {})]

Begin(j) ==
    /\ booted /\ ~job[j].on
    /\ Evaluate(j)
    /\ UNCHANGED <<symbol_interval, symbol_strategy, symbol_tracks, booted, proven, pieced>>

\* The results are written under one lock, whatever was written since the job began.
Write(j) ==
    LET p == job[j] IN
    /\ p.on
    /\ symbol_interval' = IF p.interval = None THEN symbol_interval ELSE p.interval
    /\ symbol_strategy' = CASE p.strategy = "keep" -> symbol_strategy
                            [] p.strategy = "demote" -> None
                            [] OTHER -> p.strategy
    /\ IF p.scored
       THEN proven' = [frame |-> p.effective, strategies |-> p.passed] /\ pieced' = p.late
       ELSE proven' = proven /\ pieced' = (pieced \/ p.interval # None)
    /\ job' = [k \in Jobs |-> IF k = j THEN Idle
                              ELSE IF job[k].on THEN [job[k] EXCEPT !.late = TRUE] ELSE job[k]]
    /\ UNCHANGED <<symbol_tracks, booted>>

Next == Boot \/ \E j \in Jobs : Begin(j) \/ Write(j)

Spec == Init /\ [][Next]_vars

\* execute_trade_cycle: what a flat symbol's cycle looks for an entry with.
Traded ==
    IF Len(symbol_tracks) > 1 THEN {symbol_tracks[i] : i \in DOMAIN symbol_tracks}
    ELSE IF symbol_strategy = None THEN {}
    ELSE {<<InForce, symbol_strategy>>}

\* A strategy assigned to a symbol is traded on the time frame it passed on when last
\* scored, though the two are chosen one after the other, each may be kept, and the job
\* writes what it chose later.  Exempt: two jobs that overlapped; tracks from the boot,
\* which no job revises; and a job whose second read of the candles failed or was short,
\* which writes a new time frame under the old strategy (until the next one that scores).
EdgeIsProven ==
    ~pieced /\ Len(symbol_tracks) <= 1 =>
      \A t \in Traded : t[1] = proven.frame /\ t[2] \in proven.strategies

=============================================================================
