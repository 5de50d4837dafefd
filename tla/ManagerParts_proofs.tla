------------------------- MODULE ManagerParts_proofs --------------------------
(***************************************************************************)
(* What is proved of the managers of parameters and executors and of the   *)
(* bridge, for every value of their bounds and limits.                     *)
(***************************************************************************)
EXTENDS ManagerParts, SequenceTheorems, TLAPS

-----------------------------------------------------------------------------
(***************************************************************************)
(* Time frame and strategy of a symbol, for any frames, strategies, scores *)
(* and number of jobs.  The invariant says what a job that nobody has      *)
(* overtaken is going to write: the time frame its scores were made on,    *)
(* and a strategy that passed there or the one in force, which did; or the *)
(* strategy in force, unscored, which makes the plan a pieced one if the   *)
(* time frame is new.                                                      *)
(***************************************************************************)

(* The jobs' records, and what the plan in force may be. *)
PlanTypes ==
    /\ symbol_interval \in Frames \cup {Plan!None}
    /\ symbol_strategy \in plan_Strategies \cup {Plan!None}
    /\ plan_job \in [plan_Jobs -> Plan!Plan \cup {Plan!Idle}]

(* Strategy s, traded on `frame`, passed there when it was last scored.     *)
PlanSound(s, frame, scores) == s # Plan!None => frame = scores.frame /\ s \in scores.strategies

(* What is in force once plan p is written, given what is in force before.  *)
Written(p, frame) == IF p.interval = Plan!None THEN frame ELSE p.interval
Chosen(p, strategy) == CASE p.strategy = "keep" -> strategy
                         [] p.strategy = "demote" -> Plan!None
                         [] OTHER -> p.strategy

(* A plan that was not scored keeps the strategy; one that was, and that is *)
(* not late, is sound against its own scores.                               *)
PlanIsSound(p, strategy, frame) ==
    /\ ~p.scored => p.strategy = "keep"
    /\ p.scored /\ ~p.late =>
          PlanSound(Chosen(p, strategy), Written(p, frame), [frame |-> p.effective, strategies |-> p.passed])

PlanIInv ==
    /\ PlanTypes
    /\ \A j \in plan_Jobs : plan_job[j] # Plan!Idle =>
         PlanIsSound(plan_job[j], symbol_strategy, Plan!InForce)
    /\ ~pieced /\ Len(symbol_tracks) <= 1 => PlanSound(symbol_strategy, Plan!InForce, proven)
    /\ ~booted => \A j \in plan_Jobs : plan_job[j] = Plan!Idle

-----------------------------------------------------------------------------

LEMMA IdleIsNoPlan == Plan!Idle \notin Plan!Plan /\ ~Plan!Idle.on /\ \A p \in Plan!Plan : p.on
BY DEF Plan!Idle, Plan!Plan

(* Whatever is chosen passed, or the strategy in force is kept, which did.  *)
LEMMA ChoicesPass ==
    ASSUME Plan!PlanAssumption, NEW score \in [plan_Strategies -> 0 .. MaxScore],
           NEW current \in plan_Strategies \cup {Plan!None},
               NEW choice \in Plan!StrategyChoices(score, current)
    PROVE  \/ choice \in plan_Strategies /\ score[choice] >= MIN_SCORE
           \/ choice = "demote"
           \/ choice = "keep" /\ (current # Plan!None => score[current] >= MIN_SCORE)
<1>1. Plan!None \notin plan_Strategies BY DEF Plan!PlanAssumption, Plan!None
<1>2. \A s \in plan_Strategies : score[s] \in Nat /\ MIN_SCORE \in Nat
  BY DEF Plan!PlanAssumption
<1>3. Plan!Best(plan_Strategies, score) \subseteq plan_Strategies BY DEF Plan!Best
<1>4. CASE current # Plan!None /\ score[current] < MIN_SCORE
  <2>1. PICK b \in Plan!Best(plan_Strategies, score) : choice = IF score[b] >= MIN_SCORE THEN b ELSE "demote"
    BY <1>4 DEF Plan!StrategyChoices
  <2> QED BY <1>3, <2>1
<1>5. CASE current = Plan!None
  <2>1. PICK b \in Plan!Best(plan_Strategies, score) :
          choice = IF score[b] < MIN_SCORE \/ b = current THEN "keep" ELSE b
    BY <1>5 DEF Plan!StrategyChoices
  <2> QED BY <1>2, <1>3, <1>5, <2>1
<1>6. CASE current # Plan!None /\ ~(score[current] < MIN_SCORE)
  <2>1. current \in plan_Strategies /\ score[current] >= MIN_SCORE BY <1>2, <1>6
  <2>2. Plan!PickBestWithMargin(plan_Strategies, score, current, STRAT_MARGIN) \subseteq plan_Strategies
    BY <1>3, <2>1 DEF Plan!PickBestWithMargin
  <2>3. PICK b \in Plan!PickBestWithMargin(plan_Strategies, score, current, STRAT_MARGIN) :
          choice = IF score[b] < MIN_SCORE \/ b = current THEN "keep" ELSE b
    BY <1>6 DEF Plan!StrategyChoices
  <2> QED BY <1>2, <2>1, <2>2, <2>3
<1> QED BY <1>4, <1>5, <1>6

LEMMA PlanBeginStep ==
    ASSUME Plan!PlanAssumption, PlanIInv, NEW j \in plan_Jobs, Plan!Begin(j)
    PROVE  PlanIInv'
<1>1. PICK chosen \in plan_Candidates \cup {Plan!None} :
         \/ \E score \in [plan_Strategies -> 0 .. MaxScore] :
              \E choice \in Plan!StrategyChoices(score, symbol_strategy) :
                plan_job' = [plan_job EXCEPT ![j] =
                          Plan!Decided(chosen, choice, TRUE, {s \in plan_Strategies : score[s] >= MIN_SCORE})]
         \/ plan_job' = [plan_job EXCEPT ![j] = Plan!Decided(chosen, "keep", FALSE, {})]
  BY DEF Plan!Begin, Plan!Evaluate
<1> DEFINE effective == Plan!EffectiveFrame(chosen, Plan!InForce)
           interval == IF chosen = Plan!InForce THEN Plan!None ELSE chosen
<1>3. /\ Plan!None \notin Frames \cup plan_Strategies /\ plan_Candidates \subseteq Frames
      /\ Plan!InForce \in Frames
      /\ symbol_interval \in Frames \cup {Plan!None}
      /\ symbol_strategy \in plan_Strategies \cup {Plan!None}
      /\ plan_job \in [plan_Jobs -> Plan!Plan \cup {Plan!Idle}]
  BY DEF Plan!PlanAssumption, Plan!None, PlanIInv, PlanTypes, Plan!InForce
<1>4. chosen \in Frames \cup {Plan!None} /\ effective \in Frames
  BY <1>3 DEF Plan!EffectiveFrame
<1>5. PICK choice \in Plan!Decisions, enough \in BOOLEAN, passed \in SUBSET plan_Strategies :
         /\ plan_job' = [plan_job EXCEPT ![j] = Plan!Decided(chosen, choice, enough, passed)]
         /\ IF enough
            THEN \/ choice \in passed
                 \/ choice = "demote"
                 \/ choice = "keep" /\ (symbol_strategy # Plan!None => symbol_strategy \in passed)
            ELSE choice = "keep"
  <2>1. CASE plan_job' = [plan_job EXCEPT ![j] = Plan!Decided(chosen, "keep", FALSE, {})]
    <3>1. "keep" \in Plan!Decisions /\ FALSE \in BOOLEAN /\ {} \in SUBSET plan_Strategies
      BY DEF Plan!Decisions
    <3> QED BY <2>1, <3>1
  <2>2. CASE \E score \in [plan_Strategies -> 0 .. MaxScore] :
               \E c \in Plan!StrategyChoices(score, symbol_strategy) :
                 plan_job' = [plan_job EXCEPT ![j] =
                           Plan!Decided(chosen, c, TRUE, {s \in plan_Strategies : score[s] >= MIN_SCORE})]
    <3>1. PICK score \in [plan_Strategies -> 0 .. MaxScore] :
            \E c \in Plan!StrategyChoices(score, symbol_strategy) :
              plan_job' = [plan_job EXCEPT ![j] =
                        Plan!Decided(chosen, c, TRUE, {s \in plan_Strategies : score[s] >= MIN_SCORE})]
      BY <2>2
    <3> DEFINE scores == {s \in plan_Strategies : score[s] >= MIN_SCORE}
    <3>2. PICK c \in Plan!StrategyChoices(score, symbol_strategy) :
            plan_job' = [plan_job EXCEPT ![j] = Plan!Decided(chosen, c, TRUE, scores)]
      BY <3>1
    <3>3. \/ c \in plan_Strategies /\ score[c] >= MIN_SCORE
          \/ c = "demote"
          \/ c = "keep" /\ (symbol_strategy # Plan!None => score[symbol_strategy] >= MIN_SCORE)
      BY <1>3, ChoicesPass
    <3>4. \/ c \in scores
          \/ c = "demote"
          \/ c = "keep" /\ (symbol_strategy # Plan!None => symbol_strategy \in scores)
      BY <1>3, <3>3
    <3>5. c \in Plan!Decisions /\ TRUE \in BOOLEAN /\ scores \in SUBSET plan_Strategies
      BY <3>3 DEF Plan!Decisions
    <3> QED BY <3>2, <3>4, <3>5
  <2> QED BY <1>1, <2>1, <2>2
<1> DEFINE p == Plan!Decided(chosen, choice, enough, passed)
<1>7. (IF interval = Plan!None THEN Plan!InForce ELSE interval) = effective
  BY <1>3, <1>4 DEF Plan!EffectiveFrame
<1>8. p \in Plan!Plan
  <2>1. interval \in Frames \cup {Plan!None} BY <1>4
  <2> QED BY <1>4, <2>1 DEF Plan!Plan, Plan!Decided
<1>9. /\ p.strategy = choice /\ p.interval = interval /\ p.effective = effective
      /\ p.passed = passed
  BY DEF Plan!Decided
<1>10. p.scored <=> enough BY DEF Plan!Decided
<1> HIDE DEF p, effective, interval
<1>11. plan_job' = [plan_job EXCEPT ![j] = p] BY <1>5 DEF p
<1>12. UNCHANGED <<symbol_interval, symbol_strategy, symbol_tracks, booted, proven, pieced>> /\ booted
  BY DEF Plan!Begin
<1>13. PlanIsSound(p, symbol_strategy, Plan!InForce)
  <2>1. ~p.scored => p.strategy = "keep" BY <1>5, <1>9, <1>10
  <2>2. ASSUME p.scored
        PROVE PlanSound(Chosen(p, symbol_strategy), Written(p, Plan!InForce), [frame |-> p.effective, strategies |-> p.passed])
    <3>1. Written(p, Plan!InForce) = p.effective BY <1>7, <1>9 DEF Written
    <3>2. Chosen(p, symbol_strategy) = Plan!None \/ Chosen(p, symbol_strategy) \in p.passed
      <4>1. CASE choice \in passed
        <5>1. choice \in plan_Strategies BY <4>1
        <5>2. choice # "keep" /\ choice # "demote" BY <5>1 DEF Plan!PlanAssumption
        <5> QED BY <1>9, <4>1, <5>1, <5>2 DEF Chosen
      <4>2. CASE choice = "demote" BY <1>9, <4>2 DEF Chosen
      <4>3. CASE choice = "keep" /\ (symbol_strategy # Plan!None => symbol_strategy \in passed)
        BY <1>9, <4>3 DEF Chosen
      <4> QED BY <1>5, <1>10, <2>2, <4>1, <4>2, <4>3
    <3> QED BY <3>1, <3>2 DEF PlanSound
  <2> QED BY <2>1, <2>2 DEF PlanIsSound
<1>14. \A k \in plan_Jobs : plan_job'[k] = IF k = j THEN p ELSE plan_job[k] BY <1>3, <1>11
<1>15. symbol_strategy' = symbol_strategy /\ Plan!InForce' = Plan!InForce
  BY <1>12 DEF Plan!InForce
<1>16. PlanTypes' BY <1>3, <1>8, <1>11, <1>12 DEF PlanTypes
<1>17. \A k \in plan_Jobs : plan_job'[k] # Plan!Idle =>
    PlanIsSound(plan_job'[k], symbol_strategy', Plan!InForce')
  BY <1>13, <1>14, <1>15 DEF PlanIInv
<1>18. ~pieced' /\ Len(symbol_tracks') <= 1 => PlanSound(symbol_strategy', Plan!InForce', proven')
  BY <1>12 DEF PlanIInv, Plan!InForce
<1> QED BY <1>12, <1>16, <1>17, <1>18 DEF PlanIInv

LEMMA BootStep == ASSUME Plan!PlanAssumption, PlanIInv, Plan!Boot PROVE PlanIInv'
<1>1. PICK edges \in Seeds :
         IF edges = <<>>
         THEN UNCHANGED <<symbol_interval, symbol_strategy, symbol_tracks, proven>>
         ELSE /\ symbol_interval' = edges[1][1] /\ symbol_strategy' = edges[1][2]
              /\ proven' = [frame |-> edges[1][1], strategies |-> {edges[1][2]}]
              /\ symbol_tracks' = IF Len(edges) > 1 THEN edges ELSE <<>>
  BY DEF Plan!Boot
<1>2. /\ \A k \in plan_Jobs : plan_job[k] = Plan!Idle
      /\ booted' = TRUE /\ UNCHANGED <<plan_job, pieced>>
  BY DEF Plan!Boot, PlanIInv
<1>3. CASE edges = <<>>
  <2>1. UNCHANGED <<symbol_interval, symbol_strategy, symbol_tracks, proven>> BY <1>1, <1>3
  <2> QED BY <1>2, <2>1 DEF PlanIInv, PlanTypes, Plan!InForce
<1>4. CASE edges # <<>>
  <2>1. edges[1] \in Frames \X plan_Strategies
    <3>1. edges \in Seq(Frames \X plan_Strategies) BY DEF Plan!PlanAssumption
    <3> QED BY <1>4, <3>1
  <2>2. edges[1][1] \in Frames /\ edges[1][2] \in plan_Strategies /\ edges[1][1] # Plan!None
    BY <2>1 DEF Plan!PlanAssumption, Plan!None
  <2>3. PlanTypes' BY <1>1, <1>2, <1>4, <2>2 DEF PlanIInv, PlanTypes
  <2>4. PlanSound(symbol_strategy', Plan!InForce', proven')
    BY <1>1, <1>4, <2>2 DEF PlanSound, Plan!InForce
  <2> QED BY <1>2, <2>3, <2>4 DEF PlanIInv
<1> QED BY <1>3, <1>4

LEMMA PlanWriteStep ==
    ASSUME Plan!PlanAssumption, PlanIInv, NEW j \in plan_Jobs, Plan!Write(j)
    PROVE  PlanIInv'
<1> DEFINE p == plan_job[j]
<1>1. p \in Plan!Plan
  BY IdleIsNoPlan DEF Plan!Write, PlanIInv, PlanTypes
<1>2. PlanIsSound(p, symbol_strategy, Plan!InForce) BY <1>1, IdleIsNoPlan DEF PlanIInv
<1>3. /\ Plan!None \notin Frames \cup plan_Strategies /\ "keep" # Plan!None
      /\ p.interval \in Frames \cup {Plan!None} /\ p.strategy \in Plan!Decisions
      /\ p.late \in BOOLEAN /\ p.scored \in BOOLEAN
  BY <1>1 DEF Plan!PlanAssumption, Plan!None, Plan!Plan
<1>4. /\ symbol_interval' = IF p.interval = Plan!None THEN symbol_interval ELSE p.interval
      /\ symbol_strategy' = Chosen(p, symbol_strategy)
      /\ p.scored => proven' = [frame |-> p.effective, strategies |-> p.passed] /\ pieced' = p.late
      /\ ~p.scored => proven' = proven /\ pieced' = (pieced \/ p.interval # Plan!None)
      /\ UNCHANGED <<symbol_tracks, booted>>
  BY DEF Plan!Write, Chosen
<1>5. Plan!InForce' = Written(p, Plan!InForce) BY <1>3, <1>4 DEF Plan!InForce, Written
<1>6. \A k \in plan_Jobs : plan_job'[k] = IF k = j THEN Plan!Idle
                                          ELSE IF plan_job[k].on THEN [plan_job[k] EXCEPT !.late = TRUE] ELSE plan_job[k]
  BY DEF Plan!Write
<1>7. \A k \in plan_Jobs : \/ plan_job'[k] = Plan!Idle
                           \/ plan_job'[k] \in Plan!Plan /\ plan_job[k] \in Plan!Plan /\ plan_job'[k] = [plan_job[k] EXCEPT !.late = TRUE]
  <2> TAKE k \in plan_Jobs
  <2>1. CASE k = j BY <1>6, <2>1
  <2>2. CASE k # j /\ plan_job[k] = Plan!Idle BY <1>6, <2>2, IdleIsNoPlan
  <2>3. CASE k # j /\ plan_job[k] # Plan!Idle
    <3>1. plan_job[k] \in Plan!Plan BY <2>3 DEF PlanIInv, PlanTypes
    <3>2. [plan_job[k] EXCEPT !.late = TRUE] \in Plan!Plan BY <3>1 DEF Plan!Plan
    <3> QED BY <1>6, <2>3, <3>1, <3>2, IdleIsNoPlan
  <2> QED BY <2>1, <2>2, <2>3
<1>8. symbol_strategy' \in plan_Strategies \cup {Plan!None}
  BY <1>3, <1>4 DEF Chosen, Plan!Decisions, PlanIInv, PlanTypes
<1>9. PlanTypes'
  <2>1. plan_job' \in [plan_Jobs -> Plan!Plan \cup {Plan!Idle}]
    <3>1. plan_job' = [k \in plan_Jobs |-> plan_job'[k]] BY DEF Plan!Write
    <3> QED BY <1>7, <3>1
  <2> QED BY <1>3, <1>4, <1>8, <2>1 DEF PlanIInv, PlanTypes
<1>10. \A k \in plan_Jobs : plan_job'[k] # Plan!Idle =>
    PlanIsSound(plan_job'[k], symbol_strategy', Plan!InForce')
  <2> SUFFICES ASSUME NEW k \in plan_Jobs,
                      plan_job'[k] # Plan!Idle PROVE PlanIsSound(plan_job'[k], symbol_strategy', Plan!InForce') OBVIOUS
  <2>1. /\ plan_job[k] \in Plan!Plan /\ plan_job'[k] = [plan_job[k] EXCEPT !.late = TRUE] BY <1>7
  <2>2. /\ plan_job'[k].late /\ plan_job'[k].scored = plan_job[k].scored
        /\ plan_job'[k].interval = plan_job[k].interval
        /\ plan_job'[k].strategy = plan_job[k].strategy
    BY <2>1 DEF Plan!Plan
  <2>3. plan_job[k] # Plan!Idle BY <2>1, IdleIsNoPlan
  <2> QED BY <1>5, <2>2, <2>3 DEF PlanIInv, PlanIsSound
<1>11. ~pieced' /\ Len(symbol_tracks') <= 1 => PlanSound(symbol_strategy', Plan!InForce', proven')
  <2>1. CASE p.scored BY <1>2, <1>4, <1>5, <2>1 DEF PlanIsSound
  <2>2. CASE ~p.scored /\ p.interval # Plan!None BY <1>4, <2>2
  <2>3. CASE ~p.scored /\ p.interval = Plan!None
    <3>1. symbol_strategy' = symbol_strategy /\ Plan!InForce' = Plan!InForce
      BY <1>2, <1>4, <1>5, <2>3 DEF PlanIsSound, Chosen, Written
    <3>2. proven' = proven /\ pieced' = (pieced \/ FALSE) /\ symbol_tracks' = symbol_tracks
      BY <1>4, <2>3
    <3> QED BY <3>1, <3>2 DEF PlanIInv
  <2> QED BY <1>3, <2>1, <2>2, <2>3
<1>12. booted'
  BY <1>1, <1>4, IdleIsNoPlan DEF PlanIInv
<1> QED BY <1>9, <1>10, <1>11, <1>12 DEF PlanIInv

LEMMA PlanInvariant == Plan!Spec => []PlanIInv
<1> USE PlanAssumed
<1>1. Plan!Init => PlanIInv
  BY DEF Plan!Init, PlanIInv, PlanTypes, PlanSound
<1>2. PlanIInv /\ [Plan!Next]_Plan!vars => PlanIInv'
  <2> SUFFICES ASSUME PlanIInv, [Plan!Next]_Plan!vars PROVE PlanIInv' OBVIOUS
  <2>1. CASE UNCHANGED Plan!vars
    BY <2>1 DEF Plan!vars, PlanIInv, PlanTypes, PlanIsSound, Chosen, Written, Plan!InForce
  <2> QED BY <2>1, BootStep, PlanBeginStep, PlanWriteStep DEF Plan!Next
<1> QED BY <1>1, <1>2, PTL DEF Plan!Spec

(* A strategy that a job assigned trades on the time frame it passed on,    *)
(* for any number of jobs, unless two of them overlapped or the last to     *)
(* change the time frame could not score the strategies on it: the two      *)
(* choices of one job fit together (walk_forward.rs                         *)
(* evaluate_symbol_strategy).                                               *)
THEOREM EdgeProven == Plan!Spec => []EdgeIsProven
<1> USE PlanAssumed
<1>1. PlanIInv => Plan!EdgeIsProven
  <2> SUFFICES ASSUME PlanIInv, ~pieced, Len(symbol_tracks) <= 1, NEW t \in Plan!Traded
               PROVE  t[1] = proven.frame /\ t[2] \in proven.strategies
    BY DEF Plan!EdgeIsProven
  <2>1. t = <<Plan!InForce, symbol_strategy>> /\ symbol_strategy # Plan!None
    BY DEF Plan!Traded, PlanIInv, PlanTypes
  <2>2. PlanSound(symbol_strategy, Plan!InForce, proven) BY DEF PlanIInv
  <2> QED BY <2>1, <2>2 DEF PlanSound
<1> QED BY <1>1, PlanInvariant, PTL DEF EdgeIsProven

(* What the invariant leaves out: the tracks come from the scan, and the    *)
(* scores in force are those of some job or of the scan.                    *)
Scored ==
    /\ symbol_tracks \in Seeds \cup {<<>>} /\ booted \in BOOLEAN /\ pieced \in BOOLEAN
    /\ proven \in [frame : Frames, strategies : SUBSET plan_Strategies]

LEMMA NextScored ==
    ASSUME Plan!PlanAssumption, PlanIInv, Scored, [Plan!Next]_Plan!vars
    PROVE  Scored'
<1>1. CASE Plan!Boot
  <2>1. PICK edges \in Seeds :
           IF edges = <<>>
           THEN UNCHANGED <<symbol_interval, symbol_strategy, symbol_tracks, proven>>
           ELSE /\ symbol_interval' = edges[1][1] /\ symbol_strategy' = edges[1][2]
                /\ proven' = [frame |-> edges[1][1], strategies |-> {edges[1][2]}]
                /\ symbol_tracks' = IF Len(edges) > 1 THEN edges ELSE <<>>
    BY <1>1 DEF Plan!Boot
  <2>2. booted' = TRUE /\ pieced' = pieced BY <1>1 DEF Plan!Boot
  <2>3. CASE edges = <<>> BY <2>1, <2>2, <2>3 DEF Scored
  <2>4. CASE edges # <<>>
    <3>1. edges \in Seq(Frames \X plan_Strategies) BY DEF Plan!PlanAssumption
    <3>2. edges[1] \in Frames \X plan_Strategies BY <2>4, <3>1
    <3>3. edges[1][1] \in Frames /\ {edges[1][2]} \in SUBSET plan_Strategies BY <3>2
    <3>4. proven' \in [frame : Frames, strategies : SUBSET plan_Strategies]
      BY <2>1, <2>4, <3>3
    <3> QED BY <2>1, <2>2, <2>4, <3>4 DEF Scored
  <2> QED BY <2>3, <2>4
<1>2. ASSUME NEW j \in plan_Jobs, Plan!Begin(j) PROVE Scored'
  BY <1>2 DEF Plan!Begin, Scored
<1>3. ASSUME NEW j \in plan_Jobs, Plan!Write(j) PROVE Scored'
  <2>1. plan_job[j] \in Plan!Plan
    BY <1>3, IdleIsNoPlan DEF Plan!Write, PlanIInv, PlanTypes
  <2>2. /\ plan_job[j].effective \in Frames /\ plan_job[j].passed \in SUBSET plan_Strategies
        /\ plan_job[j].late \in BOOLEAN
    BY <2>1 DEF Plan!Plan
  <2>3. pieced' \in BOOLEAN
    <3>1. CASE plan_job[j].scored
      <4>1. pieced' = plan_job[j].late BY <1>3, <3>1 DEF Plan!Write
      <4> QED BY <2>2, <4>1
    <3>2. CASE ~plan_job[j].scored
      <4>1. pieced' = (pieced \/ plan_job[j].interval # Plan!None)
        BY <1>3, <3>2 DEF Plan!Write
      <4> QED BY <4>1
    <3> QED BY <3>1, <3>2
  <2>4. proven' \in [frame : Frames, strategies : SUBSET plan_Strategies]
    <3>1. CASE plan_job[j].scored
      <4>1. proven' = [frame |-> plan_job[j].effective, strategies |-> plan_job[j].passed]
        BY <1>3, <3>1 DEF Plan!Write
      <4> QED BY <2>2, <4>1
    <3>2. CASE ~plan_job[j].scored
      <4>1. proven' = proven BY <1>3, <3>2 DEF Plan!Write
      <4> QED BY <4>1 DEF Scored
    <3> QED BY <3>1, <3>2
  <2> QED BY <1>3, <2>3, <2>4 DEF Plan!Write, Scored
<1>4. CASE UNCHANGED Plan!vars BY <1>4 DEF Plan!vars, Scored
<1> QED BY <1>1, <1>2, <1>3, <1>4 DEF Plan!Next

(* Types: what is in force, and what any job is going to write, is a time   *)
(* frame and a strategy of the pool.                                        *)
THEOREM PlanTypeCorrect == Plan!Spec => []Plan!TypeOK
<1> USE PlanAssumed
<1>1. ASSUME Plan!Init PROVE Scored
  <2>1. ConfigFrame \in Frames BY DEF Plan!PlanAssumption
  <2>2. [frame |-> ConfigFrame, strategies |-> {}] \in [frame : Frames,
                                                        strategies : SUBSET plan_Strategies]
    BY <2>1
  <2> QED BY <1>1, <2>2 DEF Plan!Init, Scored
<1>2. PlanIInv /\ Scored /\ [Plan!Next]_Plan!vars => Scored' BY NextScored
<1>3. PlanIInv /\ Scored => Plan!TypeOK BY DEF PlanIInv, PlanTypes, Scored, Plan!TypeOK
<1> QED BY <1>1, <1>2, <1>3, PlanInvariant, PTL DEF Plan!Spec

-----------------------------------------------------------------------------
(***************************************************************************)
(* The job's decisions stay in force, for any number of symbols and        *)
(* regimes.  What makes it inductive is that no cycle is about to write    *)
(* the patch of a regime decided on (NoneAboutToInstall): a cycle decides  *)
(* to write only where there is no patch, and what it may still overwrite  *)
(* when the job writes is not counted as decided.                          *)
(***************************************************************************)

Shape ==
    /\ overrides \in [Regimes -> Regime!Patch \cup {Regime!NoPatch}]
    /\ cycle \in [Symbols -> [at: {"start", "install", "observe"},
                              regime: Regimes \cup {Regime!None}]]
    /\ decided \subseteq Regimes

NoneAboutToInstall == \A s \in Symbols : cycle[s].at = "install" => cycle[s].regime \notin decided

RegimeIInv == Shape /\ NoneAboutToInstall /\ Regime!JobPatchKept

LEMMA RegimeInitIInv == ASSUME Regime!Init PROVE RegimeIInv
BY DEF Regime!Init, RegimeIInv, Shape, NoneAboutToInstall, Regime!JobPatchKept,
   Regime!Patch, Regime!NoPatch, Regime!None

(* A tightened patch is no decision of the job any more.                    *)
LEMMA TightenKeepsIInv ==
    ASSUME RegimeIInv, NEW r \in Regimes, Regime!Tighten(r),
           UNCHANGED cycle PROVE RegimeIInv'
<1> USE DEF RegimeIInv, Shape, Regime!Tighten
<1>1. Regime!Tightened(r) \in Regime!Patch
  <2>1. overrides[r] \in Regime!Patch \cup {Regime!NoPatch} BY DEF Shape
  <2>2. overrides[r] # Regime!NoPatch => overrides[r].by \in {"base", "default", "job"}
    BY <2>1 DEF Regime!Patch
  <2> QED BY <2>2 DEF Regime!Tightened, Regime!Patch
<1>2. Shape' BY <1>1
<1>3. NoneAboutToInstall' BY DEF NoneAboutToInstall
<1>4. Regime!JobPatchKept' BY DEF Regime!JobPatchKept
<1> QED BY <1>2, <1>3, <1>4

(* A regime without a patch is not one the job has decided on.              *)
LEMMA CheckKeepsIInv ==
    ASSUME RegimeIInv, NEW s \in Symbols, Regime!EnsureCheck(s)
    PROVE  RegimeIInv'
<1>1. PICK r \in Regimes :
        cycle' = [cycle EXCEPT ![s] = [at |-> IF Regime!NeedsPatch(r) THEN "install" ELSE "observe",
                                       regime |-> r]]
  BY DEF Regime!EnsureCheck
<1>2. overrides' = overrides /\ decided' = decided BY DEF Regime!EnsureCheck
<1>3. Shape'
  <2>1. [at |-> IF Regime!NeedsPatch(r) THEN "install" ELSE "observe", regime |-> r]
          \in [at: {"start", "install", "observe"}, regime: Regimes \cup {Regime!None}]
    OBVIOUS
  <2> QED BY <1>1, <1>2, <2>1 DEF RegimeIInv, Shape
<1>4. Regime!NeedsPatch(r) => r \notin decided
  BY DEF Regime!NeedsPatch, RegimeIInv, Regime!JobPatchKept, Regime!NoPatch, Regime!None
<1>5. NoneAboutToInstall'
  <2>1. SUFFICES ASSUME NEW t \in Symbols, cycle'[t].at = "install"
                 PROVE  cycle'[t].regime \notin decided
    BY <1>2 DEF NoneAboutToInstall
  <2>2. CASE t = s
    <3>1. cycle'[t] = [at |-> IF Regime!NeedsPatch(r) THEN "install" ELSE "observe", regime |-> r]
      BY <1>1, <2>2 DEF RegimeIInv, Shape
    <3> QED BY <1>4, <2>1, <3>1
  <2>3. CASE t # s
    <3>1. cycle'[t] = cycle[t] BY <1>1, <2>3 DEF RegimeIInv, Shape
    <3> QED BY <2>1, <3>1 DEF RegimeIInv, NoneAboutToInstall
  <2> QED BY <2>2, <2>3
<1>6. Regime!JobPatchKept' BY <1>2 DEF RegimeIInv, Regime!JobPatchKept
<1> QED BY <1>3, <1>5, <1>6 DEF RegimeIInv

LEMMA InstallKeepsIInv ==
    ASSUME RegimeIInv, NEW s \in Symbols, Regime!EnsureInstall(s)
    PROVE  RegimeIInv'
<1> USE DEF RegimeIInv, Shape, Regime!EnsureInstall
<1>1. [by |-> "default", policy |-> FALSE] \in Regime!Patch BY DEF Regime!Patch
<1>2. cycle[s].regime \notin decided BY DEF NoneAboutToInstall
<1>3. Shape'
  <2>1. cycle' \in [Symbols -> [at: {"start", "install", "observe"}, regime: Regimes \cup {Regime!None}]]
    OBVIOUS
  <2>2. overrides' \in [Regimes -> Regime!Patch \cup {Regime!NoPatch}] BY <1>1
  <2> QED BY <2>1, <2>2
<1>4. NoneAboutToInstall' BY DEF NoneAboutToInstall
<1>5. Regime!JobPatchKept' BY <1>2 DEF Regime!JobPatchKept
<1> QED BY <1>3, <1>4, <1>5

LEMMA ObserveKeepsIInv ==
    ASSUME RegimeIInv, NEW s \in Symbols, Regime!Observe(s)
    PROVE  RegimeIInv'
<1> DEFINE r == cycle[s].regime
<1>1. cycle' = [cycle EXCEPT ![s] = [at |-> "start", regime |-> Regime!None]]
  BY DEF Regime!Observe
<1>2. cycle' \in [Symbols -> [at: {"start", "install", "observe"},
                              regime: Regimes \cup {Regime!None}]]
  BY <1>1 DEF RegimeIInv, Shape
<1>3. \A t \in Symbols : cycle'[t].at = "install" => cycle'[t] = cycle[t]
  BY <1>1 DEF RegimeIInv, Shape
<1>4. CASE Regime!Tighten(r)
  <2>1. /\ overrides' = [overrides EXCEPT ![r] = Regime!Tightened(r)] /\ decided' = decided \ {r}
    BY <1>4 DEF Regime!Tighten
  <2>2. r \in Regimes => Regime!Tightened(r) \in Regime!Patch
    <3>1. SUFFICES ASSUME r \in Regimes PROVE Regime!Tightened(r) \in Regime!Patch OBVIOUS
    <3>2. overrides[r] \in Regime!Patch \cup {Regime!NoPatch}
      BY <3>1 DEF RegimeIInv, Shape
    <3>3. overrides[r] # Regime!NoPatch => overrides[r].by \in {"base", "default", "job"}
      BY <3>2 DEF Regime!Patch
    <3> QED BY <3>3 DEF Regime!Tightened, Regime!Patch
  <2>3. overrides' \in [Regimes -> Regime!Patch \cup {Regime!NoPatch}]
    BY <2>1, <2>2 DEF RegimeIInv, Shape
  <2>4. \A q \in decided' : overrides'[q] = overrides[q] BY <2>1 DEF RegimeIInv, Shape
  <2>5. Shape' BY <1>2, <2>1, <2>3 DEF RegimeIInv, Shape
  <2>6. NoneAboutToInstall' BY <1>3, <2>1 DEF RegimeIInv, NoneAboutToInstall
  <2>7. Regime!JobPatchKept' BY <2>1, <2>4 DEF RegimeIInv, Regime!JobPatchKept
  <2> QED BY <2>5, <2>6, <2>7 DEF RegimeIInv
<1>5. CASE UNCHANGED <<overrides, decided>>
  <2>1. Shape' BY <1>2, <1>5 DEF RegimeIInv, Shape
  <2>2. NoneAboutToInstall' BY <1>3, <1>5 DEF RegimeIInv, NoneAboutToInstall
  <2>3. Regime!JobPatchKept' BY <1>5 DEF RegimeIInv, Regime!JobPatchKept
  <2> QED BY <2>1, <2>2, <2>3 DEF RegimeIInv
<1> QED BY <1>4, <1>5 DEF Regime!Observe

LEMMA CloseKeepsIInv ==
    ASSUME RegimeIInv, NEW r \in Regimes, Regime!Close(r)
    PROVE  RegimeIInv'
<1>1. UNCHANGED cycle BY DEF Regime!Close
<1>2. CASE Regime!Tighten(r) BY <1>1, <1>2, TightenKeepsIInv
<1>3. CASE UNCHANGED <<overrides, decided>>
  BY <1>1, <1>3 DEF RegimeIInv, Shape, NoneAboutToInstall, Regime!JobPatchKept
<1> QED BY <1>2, <1>3 DEF Regime!Close

LEMMA JobKeepsIInv == ASSUME RegimeIInv, Regime!JobWrites PROVE RegimeIInv'
<1>1. PICK rs \in SUBSET Regimes \ {{}} : \E directed \in SUBSET rs :
        /\ overrides' = [r \in Regimes |->
                           IF r \in rs THEN [by |-> "job",
                                              policy |-> r \in directed] ELSE overrides[r]]
        /\ decided' = ((decided \ rs) \cup directed)
                         \ {cycle[s].regime : s \in {t \in Symbols : cycle[t].at = "install"}}
  BY DEF Regime!JobWrites
<1>2. PICK directed \in SUBSET rs :
        /\ overrides' = [r \in Regimes |->
                           IF r \in rs THEN [by |-> "job",
                                              policy |-> r \in directed] ELSE overrides[r]]
        /\ decided' = ((decided \ rs) \cup directed)
                         \ {cycle[s].regime : s \in {t \in Symbols : cycle[t].at = "install"}}
  BY <1>1
<1>3. cycle' = cycle BY DEF Regime!JobWrites
<1>4. Shape'
  <2>1. ASSUME NEW r \in Regimes PROVE overrides'[r] \in Regime!Patch \cup {Regime!NoPatch}
    <3>1. (r \in directed) \in BOOLEAN OBVIOUS
    <3>2. [by |-> "job", policy |-> r \in directed] \in Regime!Patch
      BY <3>1 DEF Regime!Patch
    <3> QED BY <1>2, <3>2 DEF RegimeIInv, Shape
  <2>2. overrides' \in [Regimes -> Regime!Patch \cup {Regime!NoPatch}] BY <1>2, <2>1
  <2>3. decided' \subseteq Regimes BY <1>1, <1>2 DEF RegimeIInv, Shape
  <2> QED BY <1>3, <2>2, <2>3 DEF RegimeIInv, Shape
<1>5. NoneAboutToInstall' BY <1>2, <1>3 DEF NoneAboutToInstall
<1>6. Regime!JobPatchKept'
  <2>1. SUFFICES ASSUME NEW r \in decided' PROVE overrides'[r].by = "job" /\ overrides'[r].policy
    BY DEF Regime!JobPatchKept
  <2>2. r \in Regimes BY <1>4 DEF Shape
  <2>3. CASE r \in directed
    <3>1. overrides'[r] = [by |-> "job", policy |-> r \in directed] BY <1>2, <2>2, <2>3
    <3>2. (r \in directed) = TRUE BY <2>3
    <3>3. overrides'[r] = [by |-> "job", policy |-> TRUE] BY <3>1, <3>2, Zenon
    <3> QED BY <3>3
  <2>4. CASE r \notin directed
    <3>1. r \in decided /\ r \notin rs BY <1>2, <2>1, <2>4
    <3>2. overrides'[r] = overrides[r] BY <1>2, <2>2, <3>1
    <3> QED BY <3>1, <3>2 DEF RegimeIInv, Regime!JobPatchKept
  <2> QED BY <2>3, <2>4
<1> QED BY <1>4, <1>5, <1>6 DEF RegimeIInv

LEMMA RegimeNextKeepsIInv ==
    ASSUME RegimeIInv, [Regime!Next]_Regime!vars
    PROVE  RegimeIInv'
<1>1. ASSUME NEW s \in Symbols, Regime!EnsureCheck(s) PROVE RegimeIInv'
  BY <1>1, CheckKeepsIInv
<1>2. ASSUME NEW s \in Symbols, Regime!EnsureInstall(s) PROVE RegimeIInv'
  BY <1>2, InstallKeepsIInv
<1>3. ASSUME NEW s \in Symbols, Regime!Observe(s) PROVE RegimeIInv'
  BY <1>3, ObserveKeepsIInv
<1>4. ASSUME NEW r \in Regimes, Regime!Close(r) PROVE RegimeIInv' BY <1>4, CloseKeepsIInv
<1>5. CASE Regime!JobWrites BY <1>5, JobKeepsIInv
<1>6. CASE Regime!Tick
  BY <1>6 DEF Regime!Tick, RegimeIInv, Shape, NoneAboutToInstall, Regime!JobPatchKept
<1>7. CASE UNCHANGED Regime!vars
  BY <1>7 DEF Regime!vars, RegimeIInv, Shape, NoneAboutToInstall, Regime!JobPatchKept
<1> QED BY <1>1, <1>2, <1>3, <1>4, <1>5, <1>6, <1>7 DEF Regime!Next

-----------------------------------------------------------------------------

(* The patch and the direction policy that the backtest job wrote for a    *)
(* regime stay in force through every cycle's ensure_regime_patch, until   *)
(* a drift or a losing window tightens the patch.                          *)
THEOREM JobDecides == Regime!Spec => []JobPatchKept
<1>1. Regime!Init => RegimeIInv BY RegimeInitIInv
<1>2. RegimeIInv /\ [Regime!Next]_Regime!vars => RegimeIInv' BY RegimeNextKeepsIInv
<1>3. RegimeIInv => Regime!JobPatchKept BY DEF RegimeIInv
<1> QED BY <1>1, <1>2, <1>3, PTL DEF JobPatchKept, Regime!Spec

(* What else a cycle and a close record.                                    *)
Noticed ==
    /\ feedback \in [Regimes -> Seq(BOOLEAN)]
    /\ \A r \in Regimes : Len(feedback[r]) <= WINDOW
    /\ last_observed_regime \in Regimes \cup {Regime!None}
    /\ pending_regime \in [regime : Regimes \cup {Regime!None}, count : Nat]
    /\ last_drift_at \in 0 .. regime_Horizon /\ regime_now \in 1 .. regime_Horizon

LEMMA ObserveKeepsNoticed ==
    ASSUME Regime!RegimeAssumption, RegimeIInv, Noticed, NEW s \in Symbols,
           Regime!Observe(s) PROVE Noticed'
<1> DEFINE r == cycle[s].regime
<1>1. r \in Regimes \cup {Regime!None} BY DEF RegimeIInv, Shape
<1>2. UNCHANGED <<feedback, regime_now>> /\ Regime!Observed(r) BY DEF Regime!Observe
<1> HIDE DEF r
<1>3. Regime!Sightings(r) \in Nat BY DEF Regime!Sightings, Noticed
<1>4. Regime!NoCandidate \in [regime : Regimes \cup {Regime!None}, count : Nat]
  BY DEF Regime!NoCandidate
<1>5. [regime |-> r, count |-> Regime!Sightings(r)] \in [regime : Regimes \cup {Regime!None},
                                                         count : Nat]
  BY <1>1, <1>3
<1>6. regime_now \in 0 .. regime_Horizon BY DEF Noticed, Regime!RegimeAssumption
<1> QED BY <1>1, <1>2, <1>4, <1>5, <1>6 DEF Regime!Observed, Noticed

(* The feedback looks back on no more than WINDOW trades.                   *)
LEMMA CloseKeepsNoticed ==
    ASSUME Regime!RegimeAssumption, Noticed, NEW r \in Regimes,
           Regime!Close(r) PROVE Noticed'
<1>1. PICK won \in BOOLEAN : feedback' = [feedback EXCEPT ![r] = Regime!Recorded(r, won)]
  BY DEF Regime!Close
<1>2. UNCHANGED <<last_observed_regime, pending_regime, last_drift_at, regime_now>>
  BY DEF Regime!Close
<1>3. Regime!Recorded(r, won) \in Seq(BOOLEAN) /\ Len(Regime!Recorded(r, won)) <= WINDOW
  <2> DEFINE q == Append(feedback[r], won)
  <2>1. WINDOW \in Nat BY DEF Regime!RegimeAssumption
  <2>2. feedback[r] \in Seq(BOOLEAN) /\ Len(feedback[r]) <= WINDOW BY DEF Noticed
  <2>3. q \in Seq(BOOLEAN) /\ Len(q) = Len(feedback[r]) + 1 /\ Len(feedback[r]) \in Nat
    BY <2>2
  <2> HIDE DEF q
  <2>4. Tail(q) \in Seq(BOOLEAN) /\ Len(Tail(q)) = Len(q) - 1 BY <2>3, EmptySeq
  <2>5. Regime!Recorded(r, won) = IF Len(q) > WINDOW THEN Tail(q) ELSE q
    BY DEF Regime!Recorded, q
  <2>6. CASE Len(q) > WINDOW
    <3>1. Len(q) = WINDOW + 1 BY <2>1, <2>2, <2>3, <2>6
    <3> QED BY <2>1, <2>4, <2>5, <2>6, <3>1
  <2>7. CASE ~(Len(q) > WINDOW) BY <2>1, <2>3, <2>5, <2>7
  <2> QED BY <2>6, <2>7
<1> QED BY <1>1, <1>2, <1>3 DEF Noticed

LEMMA NextKeepsNoticed ==
    ASSUME Regime!RegimeAssumption, RegimeIInv, Noticed,
           [Regime!Next]_Regime!vars PROVE Noticed'
<1>1. ASSUME NEW s \in Symbols,
             Regime!EnsureCheck(s) \/ Regime!EnsureInstall(s) PROVE Noticed'
  BY <1>1 DEF Regime!EnsureCheck, Regime!EnsureInstall, Noticed
<1>2. ASSUME NEW s \in Symbols, Regime!Observe(s) PROVE Noticed'
  BY <1>2, ObserveKeepsNoticed
<1>3. ASSUME NEW r \in Regimes, Regime!Close(r) PROVE Noticed' BY <1>3, CloseKeepsNoticed
<1>4. CASE Regime!JobWrites BY <1>4 DEF Regime!JobWrites, Noticed
<1>5. CASE Regime!Tick BY <1>5 DEF Regime!Tick, Noticed, Regime!RegimeAssumption
<1>6. CASE UNCHANGED Regime!vars BY <1>6 DEF Regime!vars, Noticed
<1> QED BY <1>1, <1>2, <1>3, <1>4, <1>5, <1>6 DEF Regime!Next

(* Types: a regime's feedback looks back on no more than its window, and    *)
(* the patches are those of the cycles and of the job.                      *)
THEOREM RegimeTypeCorrect == Regime!Spec => []Regime!TypeOK
<1> USE RegimeAssumed
<1>1. Regime!Init => RegimeIInv /\ Noticed
  BY RegimeInitIInv DEF Regime!Init, Noticed, Regime!NoCandidate, Regime!RegimeAssumption
<1>2. RegimeIInv /\ [Regime!Next]_Regime!vars => RegimeIInv' BY RegimeNextKeepsIInv
<1>3. RegimeIInv /\ Noticed /\ [Regime!Next]_Regime!vars => Noticed' BY NextKeepsNoticed
<1>4. RegimeIInv /\ Noticed => Regime!TypeOK
  BY DEF RegimeIInv, Shape, Noticed, Regime!TypeOK
<1> QED BY <1>1, <1>2, <1>3, <1>4, PTL DEF Regime!Spec

-----------------------------------------------------------------------------
(***************************************************************************)
(* No live trading without a paper time of its own, for every interval,    *)
(* paper time and loss limit.  What makes it inductive is that the time    *)
(* the code compares with (mode_switch_time) is the beginning of the       *)
(* current spell in paper mode, which neither a good result nor a lost     *)
(* trade may change.                                                       *)
(***************************************************************************)

SinceSwitch == mode = "Paper" => mode_switch_time = paper_since

SchedIInv == Sched!TypeOK /\ SinceSwitch

LEMMA SchedInitIInv == ASSUME Sched!SchedulerAssumption, Sched!Init PROVE SchedIInv
BY DEF Sched!SchedulerAssumption, Sched!Init, SchedIInv, Sched!TypeOK, SinceSwitch,
   Sched!Never

(* A result switches the mode under one lock and takes the time with it.    *)
LEMMA ResultKeepsIInv ==
    ASSUME Sched!SchedulerAssumption, SchedIInv, NEW ready \in BOOLEAN,
           Sched!ProcessResult(ready)
    PROVE  SchedIInv'
<1> USE DEF Sched!SchedulerAssumption, SchedIInv, Sched!TypeOK, Sched!ProcessResult
<1>1. sched_now' = sched_now /\ losses' = losses /\ last_backtest' \in Sched!Never .. sched_Horizon
  BY DEF Sched!Never
<1>2. CASE ready
  <2>1. mode' = mode \/ (mode = "Paper" /\ mode' = "Live")
    BY <1>2 DEF Sched!SwitchedToLive
  <2>2. mode_switch_time' = mode_switch_time /\ paper_since' = paper_since BY <1>2, <2>1
  <2> QED BY <1>1, <2>1, <2>2 DEF SinceSwitch
<1>3. CASE ~ready /\ mode = "Live"
  <2>1. mode' = "Paper" /\ mode_switch_time' = sched_now BY <1>3 DEF Sched!Reverted
  <2>2. paper_since' = sched_now BY <1>3, <2>1
  <2> QED BY <1>1, <2>1, <2>2 DEF SinceSwitch
<1>4. CASE ~ready /\ mode # "Live"
  <2>1. mode' = mode /\ mode_switch_time' = mode_switch_time /\ paper_since' = paper_since
    BY <1>4
  <2> QED BY <1>1, <2>1 DEF SinceSwitch
<1> QED BY <1>2, <1>3, <1>4

LEMMA SchedNextKeepsIInv ==
    ASSUME Sched!SchedulerAssumption, SchedIInv,
           [Sched!Next]_Sched!schedVars PROVE SchedIInv'
<1> USE DEF Sched!SchedulerAssumption, SchedIInv, Sched!TypeOK, SinceSwitch
<1>1. CASE Sched!Tick BY <1>1 DEF Sched!Tick
<1>2. ASSUME NEW ready \in BOOLEAN, Sched!ProcessResult(ready) PROVE SchedIInv'
  BY <1>2, ResultKeepsIInv
<1>3. CASE Sched!RecordLoss BY <1>3 DEF Sched!RecordLoss
<1>4. CASE Sched!RecordWin BY <1>4 DEF Sched!RecordWin
<1>5. CASE UNCHANGED Sched!schedVars BY <1>5 DEF Sched!schedVars
<1> QED BY <1>1, <1>2, <1>3, <1>4, <1>5 DEF Sched!Next

-----------------------------------------------------------------------------

(* The times, the mode and the row of losses keep their types              *)
(* (backtest_scheduler.rs, every operation).                               *)
THEOREM SchedulerTypeCorrect == Sched!Spec => []Sched!TypeOK
<1> USE SchedAssumed
<1>1. Sched!Init => SchedIInv BY SchedInitIInv
<1>2. SchedIInv /\ [Sched!Next]_Sched!schedVars => SchedIInv' BY SchedNextKeepsIInv
<1>3. SchedIInv => Sched!TypeOK BY DEF SchedIInv
<1> QED BY <1>1, <1>2, <1>3, PTL DEF Sched!Spec

(* process_result switches to live trading only after a full paper time    *)
(* that began when the strategy was last sent back, however often it has   *)
(* been switched before.                                                   *)
THEOREM PaperComesFirst == Sched!Spec => PaperFirst
<1> USE SchedAssumed
<1>1. Sched!Init => SchedIInv BY SchedInitIInv
<1>2. SchedIInv /\ [Sched!Next]_Sched!schedVars => SchedIInv' BY SchedNextKeepsIInv
<1>3. ASSUME SchedIInv, [Sched!Next]_Sched!schedVars, mode # "Live", mode' = "Live"
      PROVE  sched_now - paper_since > paper_duration
  <2>1. PICK ready \in BOOLEAN : Sched!ProcessResult(ready)
    BY <1>3 DEF Sched!Next, Sched!schedVars, Sched!Tick, Sched!RecordLoss, Sched!RecordWin
  <2>2. ready BY <1>3, <2>1 DEF Sched!ProcessResult, Sched!Reverted
  <2>3. mode = "Paper" /\ sched_now - mode_switch_time > paper_duration
    BY <1>3, <2>1, <2>2 DEF Sched!ProcessResult, Sched!SwitchedToLive
  <2> QED BY <1>3, <2>3 DEF SchedIInv, SinceSwitch
<1>4. SchedIInv /\ [Sched!Next]_Sched!schedVars
        => [mode # "Live" /\ mode' = "Live" => sched_now - paper_since > paper_duration]_Sched!schedVars
  BY <1>3
<1> QED BY <1>1, <1>2, <1>4, PTL DEF PaperFirst, Sched!Spec, Sched!PaperFirst

-----------------------------------------------------------------------------
(***************************************************************************)
(* The strategies exchanged at run time, for any versions, strategies and  *)
(* limits.  Every call that ends an update books it once (Counted), and    *)
(* the history holds no more releases than it may (Kept).                  *)
(***************************************************************************)

Counted ==
    /\ updates \in [total : Nat, successful : Nat, failed : Nat, rollbacks : Nat]
    /\ cancelled \in Nat
    /\ reload_state \in {"Idle", "Preparing", "Ready", "Transitioning"}
    /\ updates.total = updates.successful + updates.failed + cancelled
                       + (IF reload_state = "Idle" THEN 0 ELSE 1)

Kept ==
    /\ history \in Seq(Versions) /\ Len(history) <= max_history
    /\ current_version \in Versions \cup {"none"}

ReloadHeld == Reload!Loaded \subseteq reload_Strategies

LEMMA InitHolds == ASSUME Reload!Init PROVE Counted /\ Kept /\ ReloadHeld
BY ReloadAssumed
  DEF Reload!Init, Counted, Kept, ReloadHeld, Reload!Loaded, Reload!ReloadAssumption

LEMMA NextCounts == ASSUME Counted, [Reload!Next]_Reload!reloadVars PROVE Counted'
<1> USE DEF Counted, Reload!updateVars
<1>1. CASE Reload!StartUpdate BY <1>1 DEF Reload!StartUpdate
<1>2. CASE Reload!TestVersion BY <1>2 DEF Reload!TestVersion
<1>3. CASE Reload!ExecuteSwitch BY <1>3 DEF Reload!ExecuteSwitch
<1>4. CASE Reload!MarkCompleted BY <1>4 DEF Reload!MarkCompleted
<1>5. CASE Reload!RollbackUpdate
  <2> DEFINE failed == [updates EXCEPT !.failed = updates.failed + 1]
  <2>1. /\ failed \in [total : Nat, successful : Nat, failed : Nat, rollbacks : Nat]
        /\ failed.total = updates.total /\ failed.successful = updates.successful
        /\ failed.failed = updates.failed + 1 /\ failed.rollbacks = updates.rollbacks
    OBVIOUS
  <2>2. updates' = [failed EXCEPT !.rollbacks = updates.rollbacks + 1]
    BY <1>5, Zenon DEF Reload!RollbackUpdate
  <2> HIDE DEF failed
  <2>3. /\ updates'.total = updates.total /\ updates'.successful = updates.successful
        /\ updates'.failed = updates.failed + 1
        /\ updates' \in [total : Nat, successful : Nat, failed : Nat, rollbacks : Nat]
    BY <2>1, <2>2
  <2>4. reload_state # "Idle" /\ reload_state' = "Idle" /\ cancelled' = cancelled
    BY <1>5 DEF Reload!RollbackUpdate
  <2> QED BY <2>3, <2>4
<1>6. CASE Reload!CancelUpdate BY <1>6 DEF Reload!CancelUpdate
<1>7. CASE UNCHANGED Reload!updateVars BY <1>7
<1>8. ASSUME NEW v \in Versions,
             Reload!ReleaseVersion(v) \/ Reload!RollbackVersion(v) PROVE UNCHANGED Reload!updateVars
  BY <1>8 DEF Reload!ReleaseVersion, Reload!RollbackVersion
<1>9. ASSUME NEW s \in reload_Strategies,
             \/ Reload!LoadStrategy(s) \/ Reload!Unload(s)
             \/ \E count \in {0, 1} : Reload!UpdatePositions(s, count)
      PROVE  UNCHANGED Reload!updateVars
  BY <1>9 DEF Reload!LoadStrategy, Reload!Unload, Reload!UpdatePositions
<1>10. CASE Reload!Clear BY <1>10, <1>7 DEF Reload!Clear
<1>11. CASE UNCHANGED Reload!reloadVars BY <1>11, <1>7 DEF Reload!reloadVars
<1> QED BY <1>1, <1>2, <1>3, <1>4, <1>5, <1>6, <1>7, <1>8, <1>9, <1>10, <1>11
          DEF Reload!Next

(* What a release leaves of the history, and what going back to a version   *)
(* does: it moves one entry to the front.                                   *)
LEMMA ReleaseKeeps ==
    ASSUME Kept, NEW v \in Versions, Reload!ReleaseVersion(v)
    PROVE  Kept'
<1> DEFINE longer == <<v>> \o history
<1>1. max_history \in Nat BY ReloadAssumed DEF Reload!ReloadAssumption
<1>2. longer \in Seq(Versions) BY DEF Kept
<1>3. CASE Len(longer) > max_history
  <2>1. history' = SubSeq(longer, 1, max_history) BY <1>3 DEF Reload!ReleaseVersion
  <2>2. SubSeq(longer, 1, max_history) \in Seq(Versions) BY <1>1, <1>2, <1>3
  <2>3. Len(SubSeq(longer, 1, max_history)) = max_history BY <1>1, <1>2, <1>3
  <2> QED BY <1>1, <2>1, <2>2, <2>3 DEF Kept, Reload!ReleaseVersion
<1>4. CASE ~(Len(longer) > max_history)
  <2>1. history' = longer BY <1>4 DEF Reload!ReleaseVersion
  <2>2. Len(longer) \in Nat BY <1>2
  <2> QED BY <1>1, <1>2, <1>4, <2>1, <2>2 DEF Kept, Reload!ReleaseVersion
<1> QED BY <1>3, <1>4

LEMMA RollbackKeeps ==
    ASSUME Kept, NEW v \in Versions, Reload!RollbackVersion(v)
    PROVE  Kept'
<1>1. PICK i \in DOMAIN history :
        history' = <<v>> \o SubSeq(history, 1, i - 1) \o SubSeq(history, i + 1, Len(history))
  BY DEF Reload!RollbackVersion
<1> DEFINE front == SubSeq(history, 1, i - 1)
           rest == SubSeq(history, i + 1, Len(history))
<1>2. history \in Seq(Versions) /\ i \in 1 .. Len(history) /\ Len(history) \in Nat BY DEF Kept
<1>3. front \in Seq(Versions) /\ Len(front) = i - 1 BY <1>2
<1>4. rest \in Seq(Versions) /\ Len(rest) = Len(history) - i BY <1>2
<1> HIDE DEF front, rest
<1>5. history' = <<v>> \o front \o rest BY <1>1 DEF front, rest
<1>6. history' \in Seq(Versions) /\ Len(history') = Len(history) BY <1>2, <1>3, <1>4, <1>5
<1> QED BY <1>6 DEF Kept, Reload!RollbackVersion

LEMMA NextKeeps == ASSUME Kept, [Reload!Next]_Reload!reloadVars PROVE Kept'
<1>1. ASSUME NEW v \in Versions,
             Reload!ReleaseVersion(v) \/ Reload!RollbackVersion(v) PROVE Kept'
  BY <1>1, ReleaseKeeps, RollbackKeeps
<1>2. CASE UNCHANGED Reload!versionVars BY <1>2 DEF Reload!versionVars, Kept
<1>3. CASE Reload!StartUpdate \/ Reload!TestVersion \/ Reload!ExecuteSwitch \/ Reload!MarkCompleted \/ Reload!RollbackUpdate
           \/ Reload!CancelUpdate
  BY <1>2, <1>3
    DEF Reload!StartUpdate, Reload!TestVersion, Reload!ExecuteSwitch,
        Reload!MarkCompleted, Reload!RollbackUpdate,
                    Reload!CancelUpdate
<1>4. ASSUME NEW s \in reload_Strategies,
             \/ Reload!LoadStrategy(s) \/ Reload!Unload(s)
             \/ \E count \in {0, 1} : Reload!UpdatePositions(s, count)
      PROVE  UNCHANGED Reload!versionVars
  BY <1>4 DEF Reload!LoadStrategy, Reload!Unload, Reload!UpdatePositions
<1>5. CASE Reload!Clear BY <1>2, <1>5 DEF Reload!Clear
<1>6. CASE UNCHANGED Reload!reloadVars BY <1>2, <1>6 DEF Reload!reloadVars
<1> QED BY <1>1, <1>2, <1>3, <1>4, <1>5, <1>6 DEF Reload!Next

LEMMA NextHolds == ASSUME ReloadHeld, [Reload!Next]_Reload!reloadVars PROVE ReloadHeld'
<1> USE DEF ReloadHeld, Reload!Loaded
<1>1. CASE UNCHANGED Reload!loaderVars BY <1>1 DEF Reload!loaderVars
<1>2. CASE Reload!StartUpdate \/ Reload!TestVersion \/ Reload!ExecuteSwitch \/ Reload!MarkCompleted \/ Reload!RollbackUpdate
           \/ Reload!CancelUpdate
  BY <1>1, <1>2
    DEF Reload!StartUpdate, Reload!TestVersion, Reload!ExecuteSwitch,
        Reload!MarkCompleted, Reload!RollbackUpdate,
                    Reload!CancelUpdate
<1>3. ASSUME NEW v \in Versions,
             Reload!ReleaseVersion(v) \/ Reload!RollbackVersion(v) PROVE UNCHANGED Reload!loaderVars
  BY <1>3 DEF Reload!ReleaseVersion, Reload!RollbackVersion
<1>4. ASSUME NEW s \in reload_Strategies,
             Reload!LoadStrategy(s) \/ Reload!Unload(s) PROVE ReloadHeld'
  BY <1>4 DEF Reload!LoadStrategy, Reload!Unload
<1>5. ASSUME NEW s \in reload_Strategies, NEW count \in {0, 1}, Reload!UpdatePositions(s,
             count) PROVE ReloadHeld'
  BY <1>5 DEF Reload!UpdatePositions
<1>6. CASE Reload!Clear BY <1>6 DEF Reload!Clear
<1>7. CASE UNCHANGED Reload!reloadVars BY <1>1, <1>7 DEF Reload!reloadVars
<1> QED BY <1>1, <1>2, <1>3, <1>4, <1>5, <1>6, <1>7 DEF Reload!Next

(* Every update that was started is booked once, as completed, rolled back  *)
(* or cancelled, or is the one under way; and only known versions and       *)
(* strategies are held.                                                     *)
THEOREM ReloadTypeCorrect == Reload!Spec => []Reload!TypeOK
<1>1. Counted /\ Kept /\ ReloadHeld => Reload!TypeOK
  BY DEF Counted, Kept, ReloadHeld, Reload!TypeOK
<1> QED BY <1>1, InitHolds, NextCounts, NextKeeps, NextHolds, PTL DEF Reload!Spec

(* The history of releases never grows past its limit, by a release or by   *)
(* going back to an earlier version.                                        *)
THEOREM HistoryIsBounded == Reload!Spec => [](Len(history) <= max_history)
<1>1. Kept => Len(history) <= max_history BY DEF Kept
<1> QED BY <1>1, InitHolds, NextKeeps, PTL DEF Reload!Spec

-----------------------------------------------------------------------------
(***************************************************************************)
(* The circuit breaker closes on tests of this recovery.  What makes the   *)
(* step's claim true is kept by every other step: an open circuit has      *)
(* accepted nothing yet, and a half-open one counts exactly the successes  *)
(* it accepted since.                                                      *)
(***************************************************************************)

TestsCounted ==
    /\ breaker_state = "Open" => streak = 0
    /\ breaker_state = "HalfOpen" => half_open_success_count = streak

BreakerIInv == Breaker!TypeOK /\ TestsCounted

LEMMA BreakerInitIInv == ASSUME Breaker!BreakerAssumption, Breaker!Init PROVE BreakerIInv
<1>1. 0 \in 0 .. MaxRequests /\ 0 \in 0 .. 0 BY DEF Breaker!BreakerAssumption
<1>2. total_requests \in 0 .. MaxRequests /\ failed_requests \in 0 .. total_requests
  BY <1>1 DEF Breaker!Init
<1> QED BY <1>2 DEF Breaker!Init, BreakerIInv, Breaker!TypeOK, TestsCounted

LEMMA JudgedCounts ==
    ASSUME Breaker!BreakerAssumption, Breaker!TypeOK, NEW failure \in {0, 1},
           Breaker!Counted(failure)
    PROVE  total_requests' \in 0 .. MaxRequests /\ failed_requests' \in 0 .. total_requests'
BY DEF Breaker!BreakerAssumption, Breaker!TypeOK, Breaker!Counted

LEMMA BreakerNextKeepsIInv ==
    ASSUME Breaker!BreakerAssumption, BreakerIInv, [Breaker!Next]_Breaker!breakerVars
    PROVE  BreakerIInv'
<1> USE DEF BreakerIInv, Breaker!TypeOK, TestsCounted
<1>1. CASE Breaker!SuccessClosed \/ Breaker!FailureClosed
  <2>1. total_requests' \in 0 .. MaxRequests /\ failed_requests' \in 0 .. total_requests'
    BY <1>1, JudgedCounts DEF Breaker!SuccessClosed, Breaker!FailureClosed
  <2>2. /\ breaker_state' \in {"Closed", "Open"} /\ expired' \in BOOLEAN /\ streak' = 0
        /\ half_open_success_count' = half_open_success_count
    BY <1>1 DEF Breaker!SuccessClosed, Breaker!FailureClosed, Breaker!Judge
  <2> QED BY <2>1, <2>2
<1>2. CASE Breaker!SuccessOpen \/ Breaker!FailureOpen
  <2>1. total_requests' \in 0 .. MaxRequests /\ failed_requests' \in 0 .. total_requests'
    BY <1>2, JudgedCounts DEF Breaker!SuccessOpen, Breaker!FailureOpen
  <2> QED BY <1>2, <2>1 DEF Breaker!SuccessOpen, Breaker!FailureOpen
<1>3. CASE Breaker!SuccessHalfOpen
  <2>1. total_requests' \in 0 .. MaxRequests /\ failed_requests' \in 0 .. total_requests'
    BY <1>3, JudgedCounts DEF Breaker!SuccessHalfOpen, Breaker!BreakerAssumption
  <2> QED BY <1>3, <2>1 DEF Breaker!SuccessHalfOpen
<1>4. CASE Breaker!FailureHalfOpen
  <2>1. total_requests' \in 0 .. MaxRequests /\ failed_requests' \in 0 .. total_requests'
    BY <1>4, JudgedCounts DEF Breaker!FailureHalfOpen
  <2> QED BY <1>4, <2>1 DEF Breaker!FailureHalfOpen
<1>5. CASE Breaker!Reset
  <2>1. 0 \in 0 .. MaxRequests BY DEF Breaker!BreakerAssumption
  <2>2. total_requests' = 0 /\ failed_requests' = 0 /\ 0 \in 0 .. 0
    BY <1>5 DEF Breaker!Reset
  <2>3. total_requests' \in 0 .. MaxRequests /\ failed_requests' \in 0 .. total_requests'
    BY <2>1, <2>2
  <2> QED BY <1>5, <2>3 DEF Breaker!Reset
<1>6. CASE Breaker!Expire BY <1>6 DEF Breaker!Expire
<1>7. CASE UNCHANGED Breaker!breakerVars BY <1>7 DEF Breaker!breakerVars
<1> QED BY <1>1, <1>2, <1>3, <1>4, <1>5, <1>6, <1>7 DEF Breaker!Next

(* However the outcomes are reported, the counters stay in their ranges.    *)
THEOREM BreakerTypeCorrect == Breaker!Spec => []Breaker!TypeOK
<1> USE BreakerAssumed
<1>1. Breaker!Init => BreakerIInv BY BreakerInitIInv
<1>2. BreakerIInv /\ [Breaker!Next]_Breaker!breakerVars => BreakerIInv'
  BY BreakerNextKeepsIInv
<1>3. BreakerIInv => Breaker!TypeOK BY DEF BreakerIInv
<1> QED BY <1>1, <1>2, <1>3, PTL DEF Breaker!Spec

(* record_success closes a circuit that opened only after as many tests in *)
(* a row as are asked for; the other way to close it is the reset.         *)
THEOREM ClosedWhenTested == Breaker!Spec => ClosesOnlyTested
<1> USE BreakerAssumed
<1>1. Breaker!Init => BreakerIInv BY BreakerInitIInv
<1>2. BreakerIInv /\ [Breaker!Next]_Breaker!breakerVars => BreakerIInv'
  BY BreakerNextKeepsIInv
<1>3. ASSUME BreakerIInv, [Breaker!Next]_Breaker!breakerVars, breaker_state # "Closed",
             breaker_state' = "Closed"
      PROVE  streak' >= success_count_to_close \/ streak' = 0
  <2>1. CASE Breaker!SuccessHalfOpen
    <3>1. streak' = half_open_success_count'
      BY <1>3, <2>1 DEF Breaker!SuccessHalfOpen, BreakerIInv, TestsCounted
    <3>2. half_open_success_count' >= success_count_to_close
      BY <1>3, <2>1 DEF Breaker!SuccessHalfOpen
    <3> QED BY <3>1, <3>2
  <2>2. CASE Breaker!Reset BY <2>2 DEF Breaker!Reset
  <2>3. CASE Breaker!SuccessClosed \/ Breaker!FailureClosed
    BY <1>3, <2>3 DEF Breaker!SuccessClosed, Breaker!FailureClosed
  <2>4. CASE Breaker!SuccessOpen \/ Breaker!FailureOpen \/ Breaker!FailureHalfOpen \/ Breaker!Expire \/ UNCHANGED Breaker!breakerVars
    BY <1>3, <2>4
      DEF Breaker!SuccessOpen, Breaker!FailureOpen, Breaker!FailureHalfOpen,
          Breaker!Expire, Breaker!breakerVars
  <2> QED BY <1>3, <2>1, <2>2, <2>3, <2>4 DEF Breaker!Next
<1>4. BreakerIInv /\ [Breaker!Next]_Breaker!breakerVars =>
        [(breaker_state # "Closed" /\ breaker_state' = "Closed") =>
           streak' >= success_count_to_close \/ streak' = 0]_Breaker!breakerVars
  BY <1>3
<1> QED BY <1>1, <1>2, <1>4, PTL
          DEF ClosesOnlyTested, Breaker!Spec, Breaker!ClosesOnlyTested

-----------------------------------------------------------------------------
(***************************************************************************)
(* An executor is given up for its own failures.  The count the manager    *)
(* decides on is the executor's failures in a row, whichever executor is   *)
(* the current one (CountIsOwn): a switch begins both again.               *)
(***************************************************************************)

CountIsOwn == failures = failure_count

HealthIInv == Health!TypeOK /\ CountIsOwn

LEMMA HealthInitIInv == ASSUME Health!FailoverAssumption, Health!Init PROVE HealthIInv
BY DEF Health!FailoverAssumption, Health!Init, HealthIInv, Health!TypeOK, CountIsOwn

LEMMA CheckKeepsTypes ==
    ASSUME Health!FailoverAssumption, Health!TypeOK, NEW report \in Health!Reports,
           Health!CheckHealthy(report) \/ Health!CheckDegraded(report) \/ Health!CheckCritical(report)
    PROVE  /\ current_state' \in {"Healthy", "Degraded", "Critical", "Shutdown"}
           /\ consecutive_healthy_checks' \in Nat /\ consecutive_critical_checks' \in Nat
<1> USE DEF Health!TypeOK
<1>1. CASE Health!CheckHealthy(report)
  BY <1>1 DEF Health!CheckHealthy, Health!UpTo, Health!FailoverAssumption
<1>2. CASE Health!CheckDegraded(report) BY <1>2 DEF Health!CheckDegraded
<1>3. CASE Health!CheckCritical(report) BY <1>3 DEF Health!CheckCritical
<1> QED BY <1>1, <1>2, <1>3

LEMMA HealthNextKeepsIInv ==
    ASSUME Health!FailoverAssumption, HealthIInv,
             [Health!Next]_<<Health!failoverVars, Health!healthVars>>
    PROVE HealthIInv'
<1> USE DEF HealthIInv, Health!TypeOK, CountIsOwn, Health!failoverVars, Health!healthVars
<1>1. CASE Health!RecordFailure /\ UNCHANGED Health!healthVars
  BY <1>1 DEF Health!RecordFailure, Health!UpTo, Health!FailoverAssumption
<1>2. CASE Health!RecordSuccess /\ UNCHANGED Health!healthVars
  BY <1>2 DEF Health!RecordSuccess, Health!FailoverAssumption
<1>3. CASE Health!ResetFailover /\ UNCHANGED Health!healthVars
  BY <1>3 DEF Health!ResetFailover, Health!FailoverAssumption
<1>4. CASE Health!CheckHealth /\ UNCHANGED Health!failoverVars
  BY <1>4, CheckKeepsTypes DEF Health!CheckHealth
<1>5. CASE Health!ResetHealth /\ UNCHANGED Health!failoverVars
  BY <1>5 DEF Health!ResetHealth
<1>6. CASE UNCHANGED <<Health!failoverVars, Health!healthVars>> BY <1>6
<1> QED BY <1>1, <1>2, <1>3, <1>4, <1>5, <1>6 DEF Health!Next

(* record_failure gives an executor up, by the switch to the fallback or by *)
(* declaring the failover failed, only at the limit of its own failures.    *)
THEOREM FailoverIsEarned == Health!Spec => GivenUpForItsOwn
<1> USE HealthAssumed
<1>1. Health!Init => HealthIInv BY HealthInitIInv
<1>2. HealthIInv /\ [Health!Next]_<<Health!failoverVars, Health!healthVars>> => HealthIInv'
  BY HealthNextKeepsIInv
<1>3. ASSUME HealthIInv, [Health!Next]_<<Health!failoverVars, Health!healthVars>>,
             failover' # failover, failover' # "Primary"
      PROVE  failures + 1 >= max_consecutive_failures
  <2>1. Health!RecordFailure
    BY <1>3
      DEF Health!Next, Health!RecordSuccess, Health!ResetFailover, Health!failoverVars,
          Health!healthVars
  <2>2. Health!UpTo(failure_count + 1, max_consecutive_failures) = max_consecutive_failures
    BY <1>3, <2>1 DEF Health!RecordFailure
  <2> QED BY <1>3, <2>2
            DEF Health!UpTo, HealthIInv, Health!TypeOK, CountIsOwn,
                Health!FailoverAssumption
<1>4. HealthIInv /\ [Health!Next]_<<Health!failoverVars, Health!healthVars>> =>
        [(failover' # failover /\ failover' # "Primary") =>
           failures + 1 >= max_consecutive_failures]_failover
  BY <1>3
<1> QED BY <1>1, <1>2, <1>4, PTL
          DEF GivenUpForItsOwn, Health!Spec, Health!GivenUpForItsOwn

(* Types: the failures counted never pass the limit of the one in use.      *)
THEOREM HealthTypeCorrect == Health!Spec => []Health!TypeOK
<1> USE HealthAssumed
<1>1. Health!Init => HealthIInv BY HealthInitIInv
<1>2. HealthIInv /\ [Health!Next]_<<Health!failoverVars, Health!healthVars>> => HealthIInv'
  BY HealthNextKeepsIInv
<1>3. HealthIInv => Health!TypeOK BY DEF HealthIInv
<1> QED BY <1>1, <1>2, <1>3, PTL DEF Health!Spec

-----------------------------------------------------------------------------
(***************************************************************************)
(* The bridge to MetaTrader, for any number of callers, requests and       *)
(* connections.  One caller has the connection at a time (Alone).  What is *)
(* under way on the connection belongs to the request that waits for its   *)
(* answer, and a connection that was not accepted or is free carries       *)
(* nothing (Clean, OneAtATime): a request that fails leaves the            *)
(* connection, so no later one finds its answer.  And the advisor has      *)
(* carried out, and will carry out, what was written in the order it was   *)
(* written (Ordered), as it reads one connection at a time, a later one    *)
(* after an earlier one.                                                   *)
(***************************************************************************)

Piece == [id : Mt5!Ids, end : BOOLEAN]
Request == [at : {"idle", "lock", "accept", "write", "read"}, id : 0 .. Requests]
Holding == {"accept", "write", "read"}

\* What the advisor has read or may still read, up to its end.
Pending == IF sock = 0 THEN <<>> ELSE buf \o wire[sock]

Mt5Types ==
    /\ request \in [Callers -> Request]
    /\ asked \in 0 .. Requests /\ linked \in 0 .. Links
    /\ conn \in 0 .. linked /\ sock \in 0 .. linked
    /\ backlog \in Seq(1 .. linked) /\ dropped \subseteq 1 .. linked
    /\ closed = (1 .. linked) \ {sock}
    /\ wire \in [1 .. Links -> Seq(Piece)] /\ replies \in [1 .. Links -> Seq(Mt5!Ids)]
    /\ buf \in Seq(Piece) /\ (sock = 0 => buf = <<>>)
    /\ written \in Seq(Mt5!Ids) /\ executed \in Seq(Mt5!Ids)
    /\ answer \in [Mt5!Ids -> Mt5!Ids \cup {0, Mt5!Failed}]

\* Requests have names of their own; those not sent yet have never been written.
Named ==
    /\ \A c \in Callers : request[c].at # "idle" => request[c].id \in 1 .. asked
    /\ \A c, d \in Callers :
         (c # d /\ request[c].at # "idle" /\ request[d].at # "idle") =>
             request[c].id # request[d].id
    /\ \A i \in DOMAIN written : written[i] \in 1 .. asked
    /\ \A c \in Callers : request[c].at \in {"lock", "accept", "write"} =>
         \A i \in DOMAIN written : written[i] # request[c].id

\* The mutex, and what its holder has found.
Alone ==
    /\ \A c, d \in Callers : (request[c].at \in Holding /\ request[d].at \in Holding) => c = d
    /\ \A c \in Callers : /\ request[c].at = "accept" => conn = 0
                          /\ request[c].at \in {"write", "read"} => conn # 0

\* Connections that wait are new, and one that was dropped stays dropped.
Waiting ==
    /\ conn \notin dropped
    /\ \A i \in DOMAIN backlog : backlog[i] # conn /\ backlog[i] \notin dropped
    /\ \A i, j \in DOMAIN backlog : i # j => backlog[i] # backlog[j]

Empty(l) == wire[l] = <<>> /\ replies[l] = <<>> /\ (l = sock => buf = <<>>)

\* Only the connection in use, or a dropped one, carries anything.
Clean ==
    \A l \in 1 .. Links :
      l \notin dropped /\ (l = conn => \A c \in Callers : request[c].at # "read") => Empty(l)

\* What is under way on the connection in use is the one request.
OneAtATime ==
    \A c \in Callers : request[c].at = "read" =>
      /\ replies[conn] \in {<<>>, <<request[c].id>>}
      /\ replies[conn] # <<>> => wire[conn] = <<>>
      /\ sock = conn => /\ Pending \in {<<>>, Mt5!Line(request[c].id)}
                        /\ replies[conn] # <<>> => Pending = <<>>

\* p is the lines of the requests of q, one after the other.
Lined(p, q) ==
    /\ Len(p) = 2 * Len(q)
    /\ \A i \in 1 .. Len(q) : /\ p[2 * i - 1] = [id |-> q[i], end |-> FALSE]
                              /\ p[2 * i] = [id |-> q[i], end |-> TRUE]

\* s names requests of w, in the order of w, each at most once.
InOrder(s, w) ==
    /\ \A i \in DOMAIN s : \E m \in DOMAIN w : w[m] = s[i]
    /\ \A i, j \in DOMAIN s : i < j =>
         s[i] # s[j] /\ \E m, n \in DOMAIN w : m < n /\ w[m] = s[i] /\ w[n] = s[j]

Ordered == \E q \in Seq(Mt5!Ids) : Lined(Pending, q) /\ InOrder(executed \o q, written)

Mt5IInv == Mt5Types /\ Named /\ Alone /\ Waiting /\ Clean /\ OneAtATime /\ Ordered /\ Mt5!AnswerIsOwn

-----------------------------------------------------------------------------
(* Sequences.                                                              *)

LEMMA BridgeNumbers == Requests \in Nat /\ Links \in Nat
BY Mt5Assumed DEF Mt5!BridgeAssumption

LEMMA Mt5AppendLast ==
    ASSUME NEW s \in Seq(Mt5!Ids), NEW q \in Seq(Mt5!Ids), NEW id \in Mt5!Ids
    PROVE  Append(s \o q, id) = s \o Append(q, id)
<1>1. <<id>> \in Seq(Mt5!Ids) /\ s \o q \in Seq(Mt5!Ids) OBVIOUS
<1>2. Append(s \o q, id) = (s \o q) \o <<id>> BY <1>1, AppendIsConcat
<1>3. Append(q, id) = q \o <<id>> BY <1>1, AppendIsConcat
<1>4. (s \o q) \o <<id>> = s \o (q \o <<id>>) BY <1>1, ConcatAssociative
<1> QED BY <1>2, <1>3, <1>4

LEMMA Mt5PiecesAssociate ==
    ASSUME NEW s \in Seq(Piece), NEW t \in Seq(Piece), NEW u \in Seq(Piece)
    PROVE  (s \o t) \o u = s \o (t \o u)
BY ConcatAssociative

LEMMA OrderKept ==
    ASSUME NEW s \in Seq(Mt5!Ids), NEW w \in Seq(Mt5!Ids), NEW id \in Mt5!Ids, InOrder(s,
           w)
    PROVE  InOrder(s, Append(w, id))
<1>1. \A m \in DOMAIN w : m \in DOMAIN Append(w, id) /\ Append(w, id)[m] = w[m] OBVIOUS
<1> QED BY SMTT(20), <1>1 DEF InOrder

LEMMA OrderGrows ==
    ASSUME NEW s \in Seq(Mt5!Ids), NEW w \in Seq(Mt5!Ids), NEW id \in Mt5!Ids, InOrder(s,
           w),
           \A m \in DOMAIN w : w[m] # id
    PROVE  InOrder(Append(s, id), Append(w, id))
<1> DEFINE t == Append(s, id)
           v == Append(w, id)
<1>1. /\ \A m \in DOMAIN w : m \in DOMAIN v /\ v[m] = w[m] /\ m < Len(w) + 1
      /\ Len(w) + 1 \in DOMAIN v /\ v[Len(w) + 1] = id
  OBVIOUS
<1>2. /\ \A i \in DOMAIN t : i \in DOMAIN s \/ i = Len(s) + 1
      /\ \A i \in DOMAIN s : t[i] = s[i]
      /\ t[Len(s) + 1] = id /\ \A i \in DOMAIN s : i \in Nat /\ i < Len(s) + 1
  OBVIOUS
<1> HIDE DEF t, v
<1>3. \A i \in DOMAIN t : \E m \in DOMAIN v : v[m] = t[i]
  BY <1>1, <1>2 DEF InOrder
<1>4. ASSUME NEW i \in DOMAIN t, NEW j \in DOMAIN t, i < j
      PROVE  t[i] # t[j] /\ \E m, n \in DOMAIN v : m < n /\ v[m] = t[i] /\ v[n] = t[j]
  <2>1. i \in DOMAIN s BY <1>2, <1>4
  <2>2. CASE j \in DOMAIN s BY <1>1, <1>2, <1>4, <2>1, <2>2 DEF InOrder
  <2>3. CASE j = Len(s) + 1
    <3>1. PICK m \in DOMAIN w : w[m] = s[i] BY <2>1 DEF InOrder
    <3> QED BY <1>1, <1>2, <2>1, <2>3, <3>1
  <2> QED BY <1>2, <2>2, <2>3
<1> QED BY <1>3, <1>4 DEF InOrder, t, v

LEMMA OrderOfPart ==
    ASSUME NEW s \in Seq(Mt5!Ids), NEW q \in Seq(Mt5!Ids), NEW w \in Seq(Mt5!Ids),
           InOrder(s \o q, w)
    PROVE  InOrder(s, w)
<1>1. \A i \in DOMAIN s : i \in DOMAIN (s \o q) /\ (s \o q)[i] = s[i] OBVIOUS
<1> QED BY SMTT(20), <1>1 DEF InOrder

LEMMA LinedGrows ==
    ASSUME NEW p \in Seq(Piece), NEW q \in Seq(Mt5!Ids), NEW id \in Mt5!Ids, Lined(p, q)
    PROVE  Lined(p \o Mt5!Line(id), Append(q, id))
<1> DEFINE r == p \o Mt5!Line(id)
           u == Append(q, id)
<1>1. /\ Len(Mt5!Line(id)) = 2 /\ Mt5!Line(id)[1] = [id |-> id, end |-> FALSE]
      /\ Mt5!Line(id)[2] = [id |-> id, end |-> TRUE] /\ Mt5!Line(id) \in Seq(Piece)
  BY DEF Mt5!Line, Piece
<1>2. Len(p) \in Nat /\ Len(q) \in Nat /\ Len(p) = 2 * Len(q) BY DEF Lined
<1>3. /\ Len(r) = Len(p) + 2 /\ Len(u) = Len(q) + 1
      /\ \A i \in 1 .. Len(p) : r[i] = p[i]
      /\ r[Len(p) + 1] = Mt5!Line(id)[1] /\ r[Len(p) + 2] = Mt5!Line(id)[2]
      /\ \A i \in 1 .. Len(q) : u[i] = q[i]
      /\ u[Len(q) + 1] = id
  <2> DEFINE l == Mt5!Line(id)
  <2>1. Len(l) = 2 /\ l \in Seq(Piece) BY <1>1
  <2> HIDE DEF l
  <2>2. /\ Len(p \o l) = Len(p) + Len(l)
        /\ \A i \in 1 .. Len(p) + Len(l) :
             (p \o l)[i] = IF i <= Len(p) THEN p[i] ELSE l[i - Len(p)]
    BY <2>1, ConcatProperties
  <2>3. /\ Len(p \o l) = Len(p) + 2 /\ \A i \in 1 .. Len(p) : (p \o l)[i] = p[i]
        /\ (p \o l)[Len(p) + 1] = l[1] /\ (p \o l)[Len(p) + 2] = l[2]
    BY <1>2, <2>1, <2>2
  <2>4. Len(u) = Len(q) + 1 /\ (\A i \in 1 .. Len(q) : u[i] = q[i]) /\ u[Len(q) + 1] = id
    OBVIOUS
  <2> QED BY <2>3, <2>4 DEF l
<1> HIDE DEF r, u
<1>4. ASSUME NEW i \in 1 .. Len(u)
      PROVE  r[2 * i - 1] = [id |-> u[i], end |-> FALSE] /\ r[2 * i] = [id |-> u[i], end |-> TRUE]
  <2>1. CASE i \in 1 .. Len(q)
    <3>1. 2 * i - 1 \in 1 .. Len(p) /\ 2 * i \in 1 .. Len(p) BY <1>2, <2>1
    <3> QED BY <1>3, <2>1, <3>1 DEF Lined
  <2>2. CASE i = Len(q) + 1
    <3>1. 2 * i - 1 = Len(p) + 1 /\ 2 * i = Len(p) + 2 BY <1>2, <2>2
    <3> QED BY <1>1, <1>3, <2>2, <3>1
  <2> QED BY <1>2, <1>3, <2>1, <2>2
<1> QED BY SMTT(20), <1>2, <1>3, <1>4 DEF Lined, r, u

\* Where a line has its end, the first one is at 2.
LEMMA FirstLine ==
    ASSUME NEW p \in Seq(Piece), NEW q \in Seq(Mt5!Ids), Lined(p, q), NEW i \in DOMAIN p,
           p[i].end
    PROVE  /\ q # <<>> /\ i >= 2
           /\ p[1] = [id |-> q[1], end |-> FALSE] /\ p[2] = [id |-> q[1], end |-> TRUE]
           /\ Lined(SubSeq(p, 3, Len(p)), Tail(q))
<1>1. Len(p) \in Nat /\ Len(q) \in Nat /\ Len(p) = 2 * Len(q) /\ i \in 1 .. Len(p) BY DEF Lined
<1>2. Len(q) >= 1 /\ q # <<>> BY <1>1
<1>3. p[2 * 1 - 1] = [id |-> q[1], end |-> FALSE] /\ p[2 * 1] = [id |-> q[1], end |-> TRUE]
  BY <1>1, <1>2 DEF Lined
<1>4. i # 1 BY <1>3
<1> DEFINE r == SubSeq(p, 3, Len(p))
           u == Tail(q)
<1>5. /\ Len(r) = Len(p) - 2 /\ Len(u) = Len(q) - 1
      /\ \A k \in 1 .. Len(p) - 2 : r[k] = p[k + 2]
      /\ \A k \in 1 .. Len(q) - 1 : u[k] = q[k + 1]
  BY <1>1, <1>2
<1> HIDE DEF r, u
<1>6. ASSUME NEW k \in 1 .. Len(u)
      PROVE  r[2 * k - 1] = [id |-> u[k], end |-> FALSE] /\ r[2 * k] = [id |-> u[k], end |-> TRUE]
  <2>1. k \in Nat \ {0} /\ k <= Len(q) - 1 /\ Len(p) = 2 * Len(q) BY <1>1, <1>5
  <2>2. 2 * k - 1 >= 1 /\ 2 * k <= Len(p) - 2 /\ k + 1 <= Len(q) BY <1>1, <2>1
  <2>3. 2 * k - 1 \in 1 .. Len(p) - 2 /\ 2 * k \in 1 .. Len(p) - 2 BY <1>1, <2>1, <2>2
  <2>4. k + 1 \in 1 .. Len(q) /\ k \in 1 .. Len(q) - 1 BY <1>1, <2>1, <2>2
  <2>5. r[2 * k - 1] = p[2 * (k + 1) - 1] /\ r[2 * k] = p[2 * (k + 1)]
    <3>1. (2 * k - 1) + 2 = 2 * (k + 1) - 1 /\ 2 * k + 2 = 2 * (k + 1) BY <2>1
    <3> QED BY <1>5, <2>3, <3>1
  <2> QED BY <1>5, <2>4, <2>5 DEF Lined
<1>7. Lined(r, u) BY <1>1, <1>5, <1>6 DEF Lined
<1> QED BY <1>1, <1>2, <1>3, <1>4, <1>7 DEF r, u

-----------------------------------------------------------------------------

LEMMA PendingType == ASSUME Mt5Types PROVE Pending \in Seq(Piece)
BY BridgeNumbers DEF Mt5Types, Pending

LEMMA Mt5InitIInv == ASSUME Mt5!Init PROVE Mt5IInv
<1>1. \A c \in Callers : request[c] = Mt5!Idle BY DEF Mt5!Init
<1>2. Mt5Types
  <2>1. request \in [Callers -> Request] BY BridgeNumbers DEF Mt5!Init, Request, Mt5!Idle
  <2>2. wire \in [1 .. Links -> Seq(Piece)] /\ replies \in [1 .. Links -> Seq(Mt5!Ids)] BY DEF Mt5!Init
  <2>3. answer \in [Mt5!Ids -> Mt5!Ids \cup {0, Mt5!Failed}] BY DEF Mt5!Init
  <2> QED BY <2>1, <2>2, <2>3, BridgeNumbers DEF Mt5!Init, Mt5Types
<1>3. Named BY <1>1 DEF Named, Mt5!Init, Mt5!Idle
<1>4. Alone /\ Waiting BY <1>1 DEF Alone, Waiting, Mt5!Init, Mt5!Idle, Holding
<1>5. Clean /\ OneAtATime BY <1>1 DEF Clean, Empty, OneAtATime, Mt5!Init, Mt5!Idle
<1>6. Ordered
  <2>1. Pending = <<>> /\ executed = <<>> /\ written = <<>> BY DEF Mt5!Init, Pending
  <2>2. <<>> \in Seq(Mt5!Ids) /\ Lined(<<>>, <<>>) /\ InOrder(<<>> \o <<>>, <<>>)
    BY DEF Lined, InOrder
  <2> QED BY <2>1, <2>2 DEF Ordered
<1> QED BY <1>2, <1>3, <1>4, <1>5, <1>6 DEF Mt5IInv, Mt5!AnswerIsOwn, Mt5!Init

-----------------------------------------------------------------------------

(* A step that leaves both ends of the connections alone.                  *)
LEMMA OrderedKept ==
    ASSUME Ordered, UNCHANGED <<wire, buf, sock, executed, written>>
    PROVE  Ordered'
BY DEF Ordered, Pending

LEMMA CallStep ==
    ASSUME Mt5IInv, NEW c \in Callers, Mt5!Call(c)
    PROVE  Mt5IInv'
<1>1. /\ Mt5Types /\ Named /\ request[c] = Mt5!Idle /\ asked < Requests /\ asked' = asked + 1
      /\ request' = [request EXCEPT ![c] = [at |-> "lock", id |-> asked + 1]]
      /\ UNCHANGED <<conn, backlog, wire, replies, dropped, written, answer, closed, sock, buf,
                     executed, linked>>
  BY DEF Mt5IInv, Mt5!Call, Mt5!eaVars
<1>2. /\ request'[c].at = "lock" /\ request'[c].id = asked + 1 /\ request[c].at = "idle"
      /\ \A d \in Callers : d # c => request'[d] = request[d]
      /\ asked \in Nat /\ asked + 1 \in 0 .. Requests
  BY <1>1, BridgeNumbers DEF Mt5Types, Mt5!Idle
<1>3. Mt5Types'
  <2>1. request' \in [Callers -> Request] BY <1>1, <1>2 DEF Mt5Types, Request
  <2> QED BY <1>1, <1>2, <2>1 DEF Mt5Types
<1>4. Named'
  <2>1. /\ \A i \in 1 .. asked : i \in 1 .. asked' /\ i # asked + 1
        /\ asked + 1 \in 1 .. asked'
    BY <1>1, <1>2
  <2> QED BY <1>1, <1>2, <2>1 DEF Named
<1>5. Alone' BY <1>1, <1>2 DEF Mt5IInv, Alone, Holding
<1>6. Waiting' BY <1>1 DEF Mt5IInv, Waiting
<1>7. \A d \in Callers : request'[d].at = "read" => d # c /\ request[d] = request'[d] BY <1>2
<1>8. \A d \in Callers : request[d].at = "read" => request'[d].at = "read" BY <1>2
<1>9. Clean' BY <1>1, <1>7, <1>8 DEF Mt5IInv, Clean, Empty
<1>10. OneAtATime' BY <1>1, <1>7 DEF Mt5IInv, OneAtATime, Pending
<1>11. Ordered' BY <1>1, OrderedKept DEF Mt5IInv
<1> QED BY <1>1, <1>3, <1>4, <1>5, <1>6, <1>9, <1>10, <1>11 DEF Mt5IInv, Mt5!AnswerIsOwn

(* The mutex is free: its new holder finds a connection, or waits for one. *)
LEMMA LockStep ==
    ASSUME Mt5IInv, NEW c \in Callers, Mt5!Lock(c)
    PROVE  Mt5IInv'
<1>1. /\ Mt5Types /\ Named /\ request[c].at = "lock" /\ ~Mt5!Locked
      /\ request' = [request EXCEPT ![c].at = IF conn = 0 THEN "accept" ELSE "write"]
      /\ UNCHANGED <<conn, backlog, wire, replies, dropped, written, answer, asked, closed, sock,
                     buf, executed, linked>>
  BY DEF Mt5IInv, Mt5!Lock, Mt5!eaVars
<1>2. /\ request'[c].at = IF conn = 0 THEN "accept" ELSE "write"
      /\ request'[c].id = request[c].id /\ request'[c] \in Request
      /\ \A d \in Callers : d # c => request'[d] = request[d]
  BY <1>1 DEF Mt5Types, Request
<1>3. Mt5Types'
  <2>1. request' \in [Callers -> Request] BY <1>1, <1>2 DEF Mt5Types
  <2> QED BY <1>1, <2>1 DEF Mt5Types
<1>4. Named' BY <1>1, <1>2 DEF Named
<1>5. Alone'
  <2>1. \A d \in Callers : request[d].at \notin Holding BY <1>1 DEF Mt5!Locked, Holding
  <2> QED BY <1>1, <1>2, <2>1 DEF Mt5IInv, Alone, Holding
<1>6. Waiting' BY <1>1 DEF Mt5IInv, Waiting
<1>7. \A d \in Callers : request'[d].at = "read" => d # c /\ request[d] = request'[d] BY <1>2
<1>8. \A d \in Callers : request[d].at = "read" => request'[d].at = "read" BY <1>1, <1>2
<1>9. Clean' BY <1>1, <1>7, <1>8 DEF Mt5IInv, Clean, Empty
<1>10. OneAtATime' BY <1>1, <1>7 DEF Mt5IInv, OneAtATime, Pending
<1>11. Ordered' BY <1>1, OrderedKept DEF Mt5IInv
<1> QED BY <1>1, <1>3, <1>4, <1>5, <1>6, <1>9, <1>10, <1>11 DEF Mt5IInv, Mt5!AnswerIsOwn

(* An accepted connection has carried nothing yet.                         *)
LEMMA AcceptStep ==
    ASSUME Mt5IInv, NEW c \in Callers, Mt5!Accept(c)
    PROVE  Mt5IInv'
<1>1. /\ Mt5Types /\ Named /\ Alone /\ Waiting /\ Clean
      /\ request[c].at = "accept" /\ backlog # <<>>
      /\ conn' = Head(backlog) /\ backlog' = Tail(backlog)
      /\ request' = [request EXCEPT ![c].at = "write"]
      /\ UNCHANGED <<wire, replies, dropped, written, answer, asked, closed, sock, buf, executed,
                     linked>>
  BY DEF Mt5IInv, Mt5!Accept, Mt5!eaVars
<1>2. /\ request'[c].at = "write" /\ request'[c].id = request[c].id /\ request'[c] \in Request
      /\ \A d \in Callers : d # c => request'[d] = request[d]
  BY <1>1 DEF Mt5Types, Request
<1>3. /\ Len(backlog) \in Nat /\ Len(backlog) >= 1 /\ conn' = backlog[1] /\ conn' \in 1 .. linked
      /\ backlog' \in Seq(1 .. linked)
      /\ Len(backlog') = Len(backlog) - 1
      /\ \A i \in 1 .. Len(backlog) - 1 : backlog'[i] = backlog[i + 1]
  BY <1>1 DEF Mt5Types
<1>4. Mt5Types'
  <2>1. request' \in [Callers -> Request] BY <1>1, <1>2 DEF Mt5Types
  <2>2. conn' \in 0 .. linked' BY <1>1, <1>3 DEF Mt5Types
  <2> QED BY <1>1, <1>3, <2>1, <2>2 DEF Mt5Types
<1>5. Named' BY <1>1, <1>2 DEF Named
<1>6. Alone' BY <1>1, <1>2, <1>3 DEF Alone, Holding
<1>7. Waiting'
  <2>1. DOMAIN backlog' = 1 .. Len(backlog) - 1 BY <1>3
  <2>2. \A i \in 1 .. Len(backlog) - 1 :
          i + 1 \in DOMAIN backlog /\ 1 \in DOMAIN backlog /\ i + 1 # 1
    BY <1>1, <1>3 DEF Mt5Types
  <2>3. 1 \in DOMAIN backlog BY <1>1, <1>3 DEF Mt5Types
  <2>4. conn' \notin dropped' BY <1>1, <1>3, <2>3 DEF Waiting
  <2>5. \A i \in DOMAIN backlog' : backlog'[i] # conn' /\ backlog'[i] \notin dropped'
    BY <1>1, <1>3, <2>1, <2>2 DEF Waiting
  <2>6. \A i, j \in DOMAIN backlog' : i # j => backlog'[i] # backlog'[j]
    <3> SUFFICES ASSUME NEW i \in DOMAIN backlog', NEW j \in DOMAIN backlog', i # j
                 PROVE  backlog'[i] # backlog'[j]
      OBVIOUS
    <3>1. i + 1 # j + 1 BY <2>1
    <3> QED BY <1>1, <1>3, <2>1, <2>2, <3>1 DEF Waiting
  <2> QED BY <2>4, <2>5, <2>6 DEF Waiting
<1>8. \A d \in Callers : request[d].at # "read" /\ request'[d].at # "read"
  <2>1. request[c].at \in Holding BY <1>1 DEF Holding
  <2>2. \A d \in Callers : d # c => request[d].at # "read"
    BY <1>1, <2>1 DEF Alone, Holding
  <2> QED BY <1>1, <1>2, <2>2
<1>9. Clean' BY <1>1, <1>8 DEF Clean, Empty
<1>10. OneAtATime' BY <1>8 DEF OneAtATime
<1>11. Ordered' BY <1>1, OrderedKept DEF Mt5IInv
<1> QED BY <1>1, <1>4, <1>5, <1>6, <1>7, <1>9, <1>10, <1>11 DEF Mt5IInv, Mt5!AnswerIsOwn

\* What the end of a request shares, however it ends.
LEMMA FinishFacts ==
    ASSUME Mt5IInv, NEW c \in Callers, request[c].at # "idle",
           NEW result \in {Mt5!Failed, request[c].id},
           Mt5!Finish(c, result), asked' = asked, written' = written
    PROVE  /\ request' \in [Callers -> Request]
           /\ answer' \in [Mt5!Ids -> Mt5!Ids \cup {0, Mt5!Failed}]
           /\ request'[c].at = "idle"
           /\ \A d \in Callers : d # c => request'[d] = request[d]
           /\ Mt5!AnswerIsOwn' /\ Named'
<1>1. Mt5Types /\ Named /\ request[c].id \in Mt5!Ids
  <2>1. request[c].id \in 1 .. asked /\ asked \in 0 .. Requests
    BY DEF Mt5IInv, Mt5Types, Named
  <2> QED BY <2>1, BridgeNumbers DEF Mt5IInv, Mt5!Ids
<1>2. /\ answer' = [answer EXCEPT ![request[c].id] = result]
      /\ request' = [request EXCEPT ![c] = Mt5!Idle]
  BY DEF Mt5!Finish
<1>3. Mt5!Idle \in Request BY BridgeNumbers DEF Mt5!Idle, Request
<1>4. /\ request' \in [Callers -> Request] /\ request'[c].at = "idle"
      /\ \A d \in Callers : d # c => request'[d] = request[d]
  BY <1>1, <1>2, <1>3 DEF Mt5Types, Mt5!Idle
<1>5. answer' \in [Mt5!Ids -> Mt5!Ids \cup {0, Mt5!Failed}] BY <1>1, <1>2 DEF Mt5Types
<1>6. \A i \in Mt5!Ids : answer'[i] = IF i = request[c].id THEN result ELSE answer[i]
  BY <1>1, <1>2 DEF Mt5Types
<1>7. Mt5!AnswerIsOwn' BY <1>6 DEF Mt5IInv, Mt5!AnswerIsOwn
<1>8. Named' BY <1>1, <1>4 DEF Named
<1> QED BY <1>4, <1>5, <1>7, <1>8

LEMMA AcceptTimeoutStep ==
    ASSUME Mt5IInv, NEW c \in Callers, Mt5!AcceptTimeout(c)
    PROVE  Mt5IInv'
<1>1. /\ Mt5Types /\ request[c].at = "accept" /\ Mt5!Finish(c, Mt5!Failed)
      /\ UNCHANGED <<conn, backlog, wire, replies, dropped, written, asked, closed, sock, buf,
                     executed, linked>>
  BY DEF Mt5IInv, Mt5!AcceptTimeout, Mt5!eaVars
<1>2. /\ request' \in [Callers -> Request] /\ answer' \in [Mt5!Ids -> Mt5!Ids \cup {0, Mt5!Failed}]
      /\ request'[c].at = "idle" /\ Mt5!AnswerIsOwn' /\ Named'
      /\ \A d \in Callers : d # c => request'[d] = request[d]
  BY <1>1, FinishFacts
<1>3. Mt5Types' BY <1>1, <1>2 DEF Mt5Types
<1>4. Alone' BY <1>1, <1>2 DEF Mt5IInv, Alone, Holding
<1>5. Waiting' BY <1>1 DEF Mt5IInv, Waiting
<1>6. \A d \in Callers : request'[d].at = "read" => d # c /\ request[d] = request'[d] BY <1>2
<1>7. \A d \in Callers : request[d].at = "read" => request'[d].at = "read" BY <1>1, <1>2
<1>8. Clean' BY <1>1, <1>6, <1>7 DEF Mt5IInv, Clean, Empty
<1>9. OneAtATime' BY <1>1, <1>6 DEF Mt5IInv, OneAtATime, Pending
<1>10. Ordered' BY <1>1, OrderedKept DEF Mt5IInv
<1> QED BY <1>2, <1>3, <1>4, <1>5, <1>8, <1>9, <1>10 DEF Mt5IInv

(* Its line is the first on the connection, or is not sent at all, and     *)
(* comes after all the lines that were written before.                     *)
LEMMA Mt5WriteStep ==
    ASSUME Mt5IInv, NEW c \in Callers, Mt5!Write(c)
    PROVE  Mt5IInv'
<1> DEFINE id == request[c].id
<1>1. /\ Mt5Types /\ Named /\ Alone /\ Waiting /\ Clean /\ request[c].at = "write"
      /\ wire' = IF conn \in closed THEN wire ELSE [wire EXCEPT ![conn] = @ \o Mt5!Line(id)]
      /\ written' = Append(written, id)
      /\ request' = [request EXCEPT ![c].at = "read"]
      /\ UNCHANGED <<conn, backlog, replies, dropped, answer, asked, closed, sock, buf, executed,
                     linked>>
  BY DEF Mt5IInv, Mt5!Write, Mt5!eaVars
<1>2. /\ request'[c].at = "read" /\ request'[c].id = id /\ request'[c] \in Request
      /\ \A d \in Callers : d # c => request'[d] = request[d]
  BY <1>1 DEF Mt5Types, Request
<1>3. id \in 1 .. asked /\ id \in Mt5!Ids /\ \A i \in DOMAIN written : written[i] # id
  BY <1>1, BridgeNumbers DEF Named, Mt5Types, Mt5!Ids
<1>4. conn \in 1 .. linked /\ conn \in 1 .. Links /\ (conn \notin closed <=> conn = sock)
  BY <1>1, BridgeNumbers DEF Mt5Types, Alone
<1>5. \A d \in Callers : request[d].at # "read" /\ (request'[d].at = "read" => d = c)
  <2>1. request[c].at \in Holding BY <1>1 DEF Holding
  <2>2. \A d \in Callers : d # c => request[d].at # "read"
    BY <1>1, <2>1 DEF Alone, Holding
  <2> QED BY <1>1, <1>2, <2>2
<1>6. Empty(conn) BY <1>1, <1>4, <1>5 DEF Clean, Waiting
<1>7. Mt5!Line(id) \in Seq(Piece) BY <1>3 DEF Mt5!Line, Piece
<1>8. \/ conn # sock /\ wire' = wire /\ Pending' = Pending
      \/ /\ conn = sock /\ Pending = <<>> /\ Pending' = Mt5!Line(id)
         /\ wire' = [wire EXCEPT ![conn] = Mt5!Line(id)]
  <2>1. CASE conn \in closed BY <1>1, <1>4, <2>1 DEF Pending
  <2>2. CASE conn \notin closed
    <3>1. wire[conn] = <<>> /\ buf = <<>> /\ conn = sock BY <1>4, <1>6, <2>2 DEF Empty
    <3>2. <<>> \o Mt5!Line(id) = Mt5!Line(id) BY <1>7
    <3>3. wire' = [wire EXCEPT ![conn] = Mt5!Line(id)] BY <1>1, <2>2, <3>1, <3>2
    <3>4. wire'[conn] = Mt5!Line(id) BY <1>1, <1>4, <3>3 DEF Mt5Types
    <3>5. Pending = <<>> BY <3>1 DEF Pending
    <3>6. Pending' = Mt5!Line(id) BY <1>1, <1>4, <3>1, <3>2, <3>4 DEF Pending
    <3> QED BY <3>1, <3>3, <3>5, <3>6
  <2> QED BY <2>1, <2>2
<1> HIDE DEF id
<1>9. Mt5Types'
  <2>1. request' \in [Callers -> Request] BY <1>1, <1>2 DEF Mt5Types
  <2>2. wire' \in [1 .. Links -> Seq(Piece)] BY <1>1, <1>7, <1>8 DEF Mt5Types
  <2>3. written' \in Seq(Mt5!Ids) BY <1>1, <1>3 DEF Mt5Types
  <2> QED BY <1>1, <2>1, <2>2, <2>3 DEF Mt5Types
<1>10. Named'
  <2>1. \A i \in DOMAIN written' :
      (i \in DOMAIN written /\ written'[i] = written[i]) \/ written'[i] = id
    BY <1>1, <1>3 DEF Mt5Types
  <2>2. \A d \in Callers : request[d].at # "idle" /\ d # c => request[d].id # id
    BY <1>1 DEF Named, id
  <2>3. request[c].at # "idle" BY <1>1
  <2> QED BY <1>1, <1>2, <1>3, <2>1, <2>2, <2>3 DEF Named, id
<1>11. Alone' BY <1>1, <1>2 DEF Alone, Holding
<1>12. Waiting' BY <1>1 DEF Waiting
<1>13. Clean'
  <2>1. request'[c].at = "read" BY <1>2
  <2>2. \A l \in 1 .. Links : l # conn => (Empty(l)' <=> Empty(l))
    BY <1>1, <1>8 DEF Mt5Types, Empty
  <2> QED BY <1>1, <2>1, <2>2 DEF Clean
<1>14. OneAtATime'
  <2>1. replies[conn] = <<>> BY <1>6 DEF Empty
  <2>2. conn = sock => Pending' = Mt5!Line(id) BY <1>8
  <2> QED BY <1>1, <1>2, <1>5, <2>1, <2>2 DEF OneAtATime
<1>15. Ordered'
  <2>1. PICK q \in Seq(Mt5!Ids) : Lined(Pending, q) /\ InOrder(executed \o q, written)
    BY DEF Mt5IInv, Ordered
  <2>2. executed \in Seq(Mt5!Ids) /\ written \in Seq(Mt5!Ids) /\ executed \o q \in Seq(Mt5!Ids)
    BY <1>1, <2>1 DEF Mt5Types
  <2>3. CASE Pending' = Pending
    <3>1. InOrder(executed \o q, Append(written, id)) BY <1>3, <2>1, <2>2, OrderKept
    <3> QED BY <1>1, <2>1, <2>3, <3>1 DEF Ordered
  <2>4. CASE Pending = <<>> /\ Pending' = Mt5!Line(id)
    <3>1. Lined(<<>> \o Mt5!Line(id), Append(q, id))
      <4>1. <<>> \in Seq(Piece) OBVIOUS
      <4> QED BY <1>3, <2>1, <2>4, <4>1, LinedGrows
    <3>2. <<>> \o Mt5!Line(id) = Mt5!Line(id) BY <1>7
    <3>3. InOrder(Append(executed \o q, id), Append(written, id))
      BY <1>3, <2>1, <2>2, OrderGrows
    <3>4. Append(executed \o q, id) = executed \o Append(q, id)
      BY <1>3, <2>1, <2>2, Mt5AppendLast
    <3>5. Append(q, id) \in Seq(Mt5!Ids) BY <1>3, <2>1
    <3> QED BY <1>1, <2>4, <3>1, <3>2, <3>3, <3>4, <3>5 DEF Ordered
  <2> QED BY <1>8, <2>3, <2>4
<1> QED BY <1>1, <1>9, <1>10, <1>11, <1>12, <1>13, <1>14, <1>15
          DEF Mt5IInv, Mt5!AnswerIsOwn

(* The answer taken off the connection was the only thing on it.           *)
LEMMA ReadStep ==
    ASSUME Mt5IInv, NEW c \in Callers, Mt5!Read(c)
    PROVE  Mt5IInv'
<1>1. /\ Mt5Types /\ Alone /\ Waiting /\ Clean /\ request[c].at = "read" /\ replies[conn] # <<>>
      /\ replies' = [replies EXCEPT ![conn] = Tail(@)]
      /\ Mt5!Finish(c, Head(replies[conn]))
      /\ UNCHANGED <<conn, backlog, wire, dropped, written, asked, closed, sock, buf, executed,
                     linked>>
  BY DEF Mt5IInv, Mt5!Read, Mt5!eaVars
<1>2. /\ replies[conn] = <<request[c].id>> /\ wire[conn] = <<>>
      /\ sock = conn => Pending = <<>>
  BY <1>1 DEF Mt5IInv, OneAtATime
<1>3. conn \in 1 .. Links /\ conn # 0 BY <1>1, BridgeNumbers DEF Mt5Types, Alone
<1>4. Head(replies[conn]) = request[c].id /\ Tail(replies[conn]) = <<>> BY <1>2
<1>5. replies' = [replies EXCEPT ![conn] = <<>>] BY <1>1, <1>4
<1>6. /\ request' \in [Callers -> Request] /\ answer' \in [Mt5!Ids -> Mt5!Ids \cup {0, Mt5!Failed}]
      /\ request'[c].at = "idle" /\ Mt5!AnswerIsOwn' /\ Named'
      /\ \A d \in Callers : d # c => request'[d] = request[d]
  BY <1>1, <1>4, FinishFacts
<1>7. Mt5Types'
  <2>1. <<>> \in Seq(Mt5!Ids) OBVIOUS
  <2>2. replies' \in [1 .. Links -> Seq(Mt5!Ids)] BY <1>1, <1>5, <2>1 DEF Mt5Types
  <2> QED BY <1>1, <1>6, <2>2 DEF Mt5Types
<1>8. Alone' BY <1>1, <1>6 DEF Alone, Holding
<1>9. Waiting' BY <1>1 DEF Waiting
<1>10. \A d \in Callers : request'[d].at # "read"
  <2>1. request[c].at \in Holding BY <1>1 DEF Holding
  <2>2. \A d \in Callers : d # c => request[d].at # "read"
    BY <1>1, <2>1 DEF Alone, Holding
  <2> QED BY <1>6, <2>2
<1>11. Clean'
  <2>1. replies'[conn] = <<>> /\ \A l \in 1 .. Links : l # conn => replies'[l] = replies[l]
    BY <1>1, <1>3, <1>5 DEF Mt5Types
  <2>2. \A l \in 1 .. Links : l # conn => (Empty(l)' <=> Empty(l)) BY <1>1, <2>1 DEF Empty
  <2>3. conn = sock => buf = <<>>
    <3> SUFFICES ASSUME conn = sock PROVE buf = <<>>
      OBVIOUS
    <3>1. buf \o wire[conn] = <<>> BY <1>2, <1>3 DEF Pending
    <3>2. buf \in Seq(Piece) /\ wire[conn] \in Seq(Piece) BY <1>1, <1>3 DEF Mt5Types
    <3> QED BY <3>1, <3>2
  <2>4. Empty(conn)' BY <1>1, <1>2, <2>1, <2>3 DEF Empty
  <2> QED BY <1>1, <2>2, <2>4 DEF Clean
<1>12. OneAtATime' BY <1>10 DEF OneAtATime
<1>13. Ordered' BY <1>1, OrderedKept DEF Mt5IInv
<1> QED BY <1>6, <1>7, <1>8, <1>9, <1>11, <1>12, <1>13 DEF Mt5IInv

(* A request that fails takes the connection with it.                      *)
LEMMA Mt5FailStep ==
    ASSUME Mt5IInv, NEW c \in Callers, Mt5!Fail(c)
    PROVE  Mt5IInv'
<1>1. /\ Mt5Types /\ Alone /\ Waiting /\ Clean /\ request[c].at \in {"write", "read"}
      /\ Mt5!Finish(c, Mt5!Failed) /\ conn' = 0 /\ dropped' = dropped \cup {conn}
      /\ UNCHANGED <<backlog, wire, replies, written, asked, closed, sock, buf, executed, linked>>
  BY DEF Mt5IInv, Mt5!Fail, Mt5!eaVars
<1>2. conn \in 1 .. linked BY <1>1, BridgeNumbers DEF Mt5Types, Alone
<1>3. /\ request' \in [Callers -> Request] /\ answer' \in [Mt5!Ids -> Mt5!Ids \cup {0, Mt5!Failed}]
      /\ request'[c].at = "idle" /\ Mt5!AnswerIsOwn' /\ Named'
      /\ \A d \in Callers : d # c => request'[d] = request[d]
  BY <1>1, FinishFacts
<1>4. Mt5Types'
  <2>1. conn' \in 0 .. linked' BY <1>1, BridgeNumbers DEF Mt5Types
  <2> QED BY <1>1, <1>2, <1>3, <2>1 DEF Mt5Types
<1>5. \A d \in Callers : request'[d].at \notin Holding
  <2>1. request[c].at \in Holding BY <1>1 DEF Holding
  <2>2. \A d \in Callers : d # c => request[d].at \notin Holding BY <1>1, <2>1 DEF Alone
  <2> QED BY <1>3, <2>2 DEF Holding
<1>6. Alone' BY <1>5 DEF Alone, Holding
<1>7. Waiting'
  <2>1. \A i \in DOMAIN backlog : backlog[i] \in 1 .. linked BY <1>1 DEF Mt5Types
  <2>2. \A l \in 1 .. linked : l # 0 BY <1>1, BridgeNumbers DEF Mt5Types
  <2>3. 0 \notin dropped' BY <1>1, <1>2, <2>2 DEF Mt5Types
  <2> QED BY <1>1, <2>1, <2>2, <2>3 DEF Waiting
<1>8. Clean' BY <1>1 DEF Clean, Empty
<1>9. OneAtATime' BY <1>5 DEF OneAtATime, Holding
<1>10. Ordered' BY <1>1, OrderedKept DEF Mt5IInv
<1> QED BY <1>3, <1>4, <1>6, <1>7, <1>8, <1>9, <1>10 DEF Mt5IInv

-----------------------------------------------------------------------------

(* The advisor turns to a connection that carries nothing yet, and leaves  *)
(* what it had not carried out.                                            *)
LEMMA EnsureConnectedStep ==
    ASSUME Mt5IInv, Mt5!EnsureConnected
    PROVE  Mt5IInv'
<1> DEFINE n == linked + 1
<1>1. /\ Mt5Types /\ Named /\ Alone /\ Waiting /\ Clean /\ OneAtATime /\ linked < Links
      /\ linked' = n /\ sock' = n /\ buf' = <<>> /\ backlog' = Append(backlog, n)
      /\ closed' = IF sock = 0 THEN closed ELSE closed \cup {sock}
      /\ UNCHANGED <<request, conn, wire, replies, dropped, written, executed, answer, asked>>
  BY DEF Mt5IInv, Mt5!EnsureConnected
<1>2. /\ n \in 1 .. Links /\ n # 0 /\ n \notin 1 .. linked /\ 1 .. linked \subseteq 1 .. n
      /\ 1 .. n = (1 .. linked) \cup {n}
  <2>1. linked \in Nat /\ linked < Links /\ n = linked + 1
    BY <1>1, BridgeNumbers DEF Mt5Types
  <2> HIDE DEF n
  <2>2. n \in 1 .. Links /\ n # 0 /\ n \notin 1 .. linked BY <2>1, BridgeNumbers
  <2>3. \A k \in Int : k \in 1 .. n <=> k \in 1 .. linked \/ k = n BY <2>1
  <2>4. 1 .. linked \subseteq Int /\ 1 .. n \subseteq Int /\ n \in Int BY <2>1
  <2>5. 1 .. n = (1 .. linked) \cup {n} BY <2>3, <2>4
  <2> QED BY <2>2, <2>5
<1>3. n # conn /\ n \notin dropped
  <2>1. \A l \in 0 .. linked : l # n BY <1>1, <1>2, BridgeNumbers DEF Mt5Types
  <2> QED BY <1>1, <1>2, <2>1 DEF Mt5Types
<1>4. wire[n] = <<>> /\ replies[n] = <<>> BY <1>1, <1>2, <1>3 DEF Clean, Empty
<1> HIDE DEF n
<1>5. backlog \in Seq(1 .. n)
  <2>1. backlog \in Seq(1 .. linked) BY <1>1 DEF Mt5Types
  <2> QED BY <1>2, <2>1, SeqMonotonic
<1>6. n \in 1 .. n BY <1>2
<1>7. /\ backlog' \in Seq(1 .. n) /\ Len(backlog') = Len(backlog) + 1
      /\ \A i \in DOMAIN backlog : backlog'[i] = backlog[i]
      /\ backlog'[Len(backlog) + 1] = n
      /\ \A i \in DOMAIN backlog' : i \in DOMAIN backlog \/ i = Len(backlog) + 1
  BY <1>1, <1>5, <1>6
<1>8. Mt5Types'
  <2>1. conn' \in 0 .. linked' /\ linked' \in 0 .. Links /\ sock' \in 0 .. linked'
    BY <1>1, <1>2, BridgeNumbers DEF Mt5Types, n
  <2>2. dropped' \subseteq 1 .. linked' BY <1>1, <1>2 DEF Mt5Types
  <2>3. closed' = (1 .. linked') \ {sock'}
    <3>1. closed = (1 .. linked) \ {sock} /\ sock \in 0 .. linked BY <1>1 DEF Mt5Types
    <3>2. sock # 0 => sock \in 1 .. linked BY <1>1, <3>1, BridgeNumbers DEF Mt5Types
    <3>3. 0 \notin 1 .. linked OBVIOUS
    <3>4. closed' = 1 .. linked BY <1>1, <3>1, <3>2, <3>3
    <3> QED BY <1>1, <1>2, <3>4
  <2>4. buf' \in Seq(Piece) /\ (sock' = 0 => buf' = <<>>) BY <1>1
  <2>5. backlog' \in Seq(1 .. linked') BY <1>1, <1>7
  <2> QED BY <1>1, <2>1, <2>2, <2>3, <2>4, <2>5 DEF Mt5Types
<1>9. Named' BY <1>1 DEF Named
<1>10. Alone' BY <1>1 DEF Alone
<1>11. Waiting'
  <2>1. \A i \in DOMAIN backlog : backlog[i] # n
    <3>1. \A i \in DOMAIN backlog : backlog[i] \in 1 .. linked BY <1>1 DEF Mt5Types
    <3> QED BY SMTT(30), <1>2, <3>1
  <2>2. \A i \in DOMAIN backlog' : backlog'[i] # conn' /\ backlog'[i] \notin dropped'
    BY <1>1, <1>3, <1>7 DEF Waiting
  <2>3. \A i, j \in DOMAIN backlog' : i # j => backlog'[i] # backlog'[j]
    BY <1>1, <1>7, <2>1 DEF Waiting
  <2> QED BY <1>1, <2>2, <2>3 DEF Waiting
<1>12. Clean' BY <1>1 DEF Clean, Empty
<1>13. OneAtATime' BY <1>1, <1>3 DEF OneAtATime
<1>14. Ordered'
  <2>1. PICK q \in Seq(Mt5!Ids) : Lined(Pending, q) /\ InOrder(executed \o q, written)
    BY DEF Mt5IInv, Ordered
  <2>2. InOrder(executed, written) BY <1>1, <2>1, OrderOfPart DEF Mt5Types
  <2>3. executed \o <<>> = executed BY <1>1 DEF Mt5Types
  <2>4. Pending' = <<>>
    <3>1. <<>> \o <<>> = <<>> OBVIOUS
    <3> QED BY <1>1, <1>2, <1>4, <3>1 DEF Pending
  <2>5. Lined(<<>>, <<>>) /\ <<>> \in Seq(Mt5!Ids) BY DEF Lined
  <2> QED BY <1>1, <2>2, <2>3, <2>4, <2>5 DEF Ordered
<1> QED BY <1>1, <1>8, <1>9, <1>10, <1>11, <1>12, <1>13, <1>14
          DEF Mt5IInv, Mt5!AnswerIsOwn

(* The order of the pieces is the same, wherever they are.                 *)
LEMMA DrainSocketStep ==
    ASSUME Mt5IInv, Mt5!DrainSocket
    PROVE  Mt5IInv'
<1> DEFINE w == wire[sock]
<1>1. PICK n \in 1 .. Len(w) :
        /\ buf' = buf \o SubSeq(w, 1, n)
        /\ wire' = [wire EXCEPT ![sock] = SubSeq(w, n + 1, Len(w))]
  BY DEF Mt5!DrainSocket
<1>2. /\ Mt5Types /\ Named /\ Alone /\ Waiting /\ Clean /\ OneAtATime /\ sock # 0
      /\ UNCHANGED <<request, conn, backlog, replies, dropped, closed, sock, written, executed,
                     answer, asked, linked>>
  BY DEF Mt5IInv, Mt5!DrainSocket
<1>3. sock \in 1 .. Links BY <1>2, BridgeNumbers DEF Mt5Types
<1>4. w \in Seq(Piece) /\ buf \in Seq(Piece) BY <1>2, <1>3 DEF Mt5Types
<1>5. /\ SubSeq(w, 1, n) \in Seq(Piece) /\ SubSeq(w, n + 1, Len(w)) \in Seq(Piece)
      /\ SubSeq(w, 1, n) \o SubSeq(w, n + 1, Len(w)) = w
  <2> HIDE DEF w
  <2>1. Len(w) \in Nat BY <1>4
  <2>2. /\ 1 \in 1 .. Len(w) + 1 /\ n \in 1 - 1 .. Len(w) /\ Len(w) \in n .. Len(w)
        /\ 1 \in 1 .. Len(w)
    BY <1>1, <2>1
  <2>3. SubSeq(w, 1, n) \o SubSeq(w, n + 1, Len(w)) = SubSeq(w, 1, Len(w))
    BY <1>4, <2>2, ConcatAdjacentSubSeq
  <2>4. SubSeq(w, 1, Len(w)) = w BY <1>4
  <2>5. SubSeq(w, 1, n) \in Seq(Piece) BY <1>1, <1>4, <2>1
  <2>6. SubSeq(w, n + 1, Len(w)) \in Seq(Piece) BY <1>1, <1>4, <2>1
  <2> QED BY <2>3, <2>4, <2>5, <2>6
<1>6. w # <<>> BY <1>1, <1>4
<1>7. /\ wire'[sock] = SubSeq(w, n + 1, Len(w))
      /\ \A l \in 1 .. Links : l # sock => wire'[l] = wire[l]
  BY <1>1, <1>2, <1>3 DEF Mt5Types
<1>8. Pending' = Pending
  <2>1. Pending' = (buf \o SubSeq(w, 1, n)) \o SubSeq(w, n + 1, Len(w))
    BY <1>1, <1>2, <1>7 DEF Pending
  <2>2. Pending = buf \o w BY <1>2 DEF Pending
  <2> HIDE DEF w
  <2> DEFINE y == SubSeq(w, 1, n)
             z == SubSeq(w, n + 1, Len(w))
  <2>3. y \in Seq(Piece) /\ z \in Seq(Piece) /\ y \o z = w BY <1>5
  <2>4. Pending' = (buf \o y) \o z BY <2>1
  <2> HIDE DEF y, z
  <2>5. (buf \o y) \o z = buf \o (y \o z) BY <1>4, <2>3, Mt5PiecesAssociate
  <2> QED BY <2>2, <2>3, <2>4, <2>5
<1>9. Mt5Types'
  <2>1. buf' \in Seq(Piece) BY <1>1, <1>4, <1>5
  <2>2. wire' \in [1 .. Links -> Seq(Piece)] BY <1>1, <1>2, <1>5 DEF Mt5Types
  <2> QED BY <1>2, <2>1, <2>2 DEF Mt5Types
<1>10. Named' BY <1>2 DEF Named
<1>11. Alone' BY <1>2 DEF Alone
<1>12. Waiting' BY <1>2 DEF Waiting
<1>13. ~Empty(sock) BY <1>6 DEF Empty
<1>14. Clean'
  <2>1. \A l \in 1 .. Links : l # sock => (Empty(l)' <=> Empty(l)) BY <1>2, <1>7 DEF Empty
  <2> QED BY <1>2, <1>3, <1>13, <2>1 DEF Clean
<1>15. OneAtATime'
  <2>1. \A c \in Callers : request[c].at = "read" => conn \in 1 .. Links
    BY <1>2, BridgeNumbers DEF Mt5Types, Alone
  <2>2. \A c \in Callers : request[c].at = "read" /\ replies[conn] # <<>> => conn # sock
    BY <1>2, <1>6 DEF OneAtATime
  <2>3. \A c \in Callers : request[c].at = "read" /\ replies[conn] # <<>> => wire'[conn] = <<>>
    BY <1>2, <1>7, <2>1, <2>2 DEF OneAtATime
  <2> QED BY <1>2, <1>8, <2>3 DEF OneAtATime
<1>16. Ordered' BY <1>2, <1>8 DEF Mt5IInv, Ordered
<1> QED BY <1>2, <1>9, <1>10, <1>11, <1>12, <1>14, <1>15, <1>16
          DEF Mt5IInv, Mt5!AnswerIsOwn

(* The line carried out is the first of those under way; a request that    *)
(* still waits finds its own answer.                                       *)
LEMMA HandleRequestStep ==
    ASSUME Mt5IInv, Mt5!HandleRequest
    PROVE  Mt5IInv'
<1> DEFINE w == wire[sock]
           id == buf[1].id
           end == CHOOSE i \in Mt5!Lines : \A j \in Mt5!Lines : i <= j
<1>1. /\ Mt5Types /\ Named /\ Alone /\ Waiting /\ Clean /\ OneAtATime /\ Mt5!Lines # {}
      /\ executed' = Append(executed, id)
      /\ buf' = SubSeq(buf, end + 1, Len(buf))
      /\ replies' = IF sock \in dropped THEN replies ELSE [replies EXCEPT ![sock] = Append(@, id)]
      /\ UNCHANGED <<request, conn, backlog, wire, dropped, closed, sock, written, answer, asked,
                     linked>>
  BY DEF Mt5IInv, Mt5!HandleRequest
<1>2. PICK i \in DOMAIN buf : buf[i].end BY <1>1 DEF Mt5!Lines
<1>3. buf \in Seq(Piece) /\ buf # <<>> /\ sock # 0 BY <1>1, <1>2 DEF Mt5Types
<1>4. sock \in 1 .. Links BY <1>1, <1>3, BridgeNumbers DEF Mt5Types
<1>5. w \in Seq(Piece) /\ Pending = buf \o w BY <1>1, <1>3, <1>4 DEF Mt5Types, Pending
<1> HIDE DEF w
<1>6. /\ Pending \in Seq(Piece) /\ Len(Pending) = Len(buf) + Len(w)
      /\ \A k \in 1 .. Len(buf) + Len(w) :
           Pending[k] = IF k <= Len(buf) THEN buf[k] ELSE w[k - Len(buf)]
  BY <1>3, <1>5, ConcatProperties
<1>7. Len(buf) \in Nat /\ Len(w) \in Nat /\ i \in 1 .. Len(buf) BY <1>3, <1>5
<1>8. i \in DOMAIN Pending /\ Pending[i].end
  <2>1. i \in 1 .. Len(buf) + Len(w) /\ i <= Len(buf) BY <1>7
  <2> QED BY <1>2, <1>6, <2>1
<1>9. PICK q \in Seq(Mt5!Ids) : Lined(Pending, q) /\ InOrder(executed \o q, written)
  BY DEF Mt5IInv, Ordered
<1>10. /\ q # <<>> /\ i >= 2
       /\ Pending[1] = [id |-> q[1], end |-> FALSE] /\ Pending[2] = [id |-> q[1], end |-> TRUE]
       /\ Lined(SubSeq(Pending, 3, Len(Pending)), Tail(q))
  BY <1>6, <1>8, <1>9, FirstLine
<1>11. /\ Len(buf) >= 2 /\ buf[1] = [id |-> q[1], end |-> FALSE]
       /\ buf[2] = [id |-> q[1], end |-> TRUE]
  <2>1. /\ Len(buf) >= 2 /\ 1 \in 1 .. Len(buf) + Len(w) /\ 2 \in 1 .. Len(buf) + Len(w)
        /\ 1 <= Len(buf) /\ 2 <= Len(buf)
    BY <1>7, <1>10
  <2> QED BY <1>6, <1>10, <2>1
<1>12. end = 2
  <2>1. 2 \in Mt5!Lines /\ 1 \notin Mt5!Lines /\ \A k \in Mt5!Lines : k \in Nat /\ k >= 1
    BY <1>3, <1>11 DEF Mt5!Lines
  <2>2. \A k \in Mt5!Lines : 2 <= k BY <2>1
  <2>3. \A k \in Mt5!Lines : (\A j \in Mt5!Lines : k <= j) => k = 2 BY <2>1, <2>2
  <2> QED BY <2>1, <2>2, <2>3
<1>13. buf' = SubSeq(buf, 3, Len(buf)) /\ id = q[1]
  <2>1. id = q[1] BY <1>11
  <2> HIDE DEF id, end
  <2>2. buf' = SubSeq(buf, end + 1, Len(buf)) /\ end + 1 = 3 BY <1>1, <1>12
  <2> QED BY <2>1, <2>2
<1> HIDE DEF id, end
<1>14. /\ buf' \in Seq(Piece) /\ Len(buf') = Len(buf) - 2
       /\ \A k \in 1 .. Len(buf) - 2 : buf'[k] = buf[k + 2]
  <2> DEFINE m == Len(buf)
  <2>1. m \in Nat /\ m >= 2 BY <1>7, <1>11
  <2>2. \A k \in 3 .. m : buf[k] \in Piece BY <1>3
  <2>3. 3 \in Int /\ m \in Int BY <2>1
  <2>4. /\ SubSeq(buf, 3, m) \in Seq(Piece)
        /\ Len(SubSeq(buf, 3, m)) = IF 3 <= m THEN m - 3 + 1 ELSE 0
        /\ \A k \in 1 .. m - 3 + 1 : SubSeq(buf, 3, m)[k] = buf[3 + k - 1]
    <3> HIDE DEF m
    <3> QED BY <2>2, <2>3, SubSeqProperties
  <2>5. buf' = SubSeq(buf, 3, m) BY <1>13
  <2> HIDE DEF m
  <2>6. Len(buf') = m - 2 BY <2>1, <2>4, <2>5
  <2>7. ASSUME NEW k \in 1 .. m - 2 PROVE buf'[k] = buf[k + 2]
    <3>1. k \in 1 .. m - 3 + 1 /\ 3 + k - 1 = k + 2 BY <2>1
    <3> QED BY <2>4, <2>5, <3>1
  <2> QED BY <2>4, <2>5, <2>6, <2>7 DEF m
<1>15. Pending' = SubSeq(Pending, 3, Len(Pending))
  <2> DEFINE rest == SubSeq(Pending, 3, Len(Pending))
             p == Pending'
  <2>1. /\ rest \in Seq(Piece) /\ Len(rest) = Len(buf) + Len(w) - 2
        /\ \A k \in 1 .. Len(buf) + Len(w) - 2 : rest[k] = Pending[k + 2]
    <3> DEFINE m == Len(Pending)
    <3>1. m \in Nat /\ m >= 2 /\ m = Len(buf) + Len(w) BY <1>6, <1>7, <1>11
    <3> QED BY <1>6, <3>1
  <2>2. p = buf' \o w BY <1>1, <1>3 DEF Pending, w
  <2>3. /\ p \in Seq(Piece) /\ Len(p) = Len(buf') + Len(w)
        /\ \A k \in 1 .. Len(buf') + Len(w) :
             p[k] = IF k <= Len(buf') THEN buf'[k] ELSE w[k - Len(buf')]
    BY <1>5, <1>14, <2>2, ConcatProperties
  <2> HIDE DEF rest, p
  <2>4. Len(buf') + Len(w) = Len(buf) + Len(w) - 2 BY <1>7, <1>11, <1>14
  <2>5. ASSUME NEW k \in 1 .. Len(buf) + Len(w) - 2 PROVE p[k] = rest[k]
    <3>1. k + 2 \in 1 .. Len(buf) + Len(w) /\ k \in 1 .. Len(buf') + Len(w)
      BY <1>7, <1>11, <2>4
    <3>2. CASE k <= Len(buf) - 2
      <4>1. /\ k <= Len(buf') /\ k + 2 <= Len(buf) /\ k \in 1 .. Len(buf) - 2
        BY <1>7, <1>14, <3>2
      <4> QED BY <1>6, <1>14, <2>1, <2>3, <3>1, <4>1
    <3>3. CASE k > Len(buf) - 2
      <4>1. ~(k <= Len(buf')) /\ ~(k + 2 <= Len(buf)) /\ k - Len(buf') = (k + 2) - Len(buf)
        BY <1>7, <1>14, <3>3
      <4> QED BY <1>6, <2>1, <2>3, <3>1, <4>1
    <3> QED BY <1>7, <3>2, <3>3
  <2>6. p = rest BY <2>1, <2>3, <2>4, <2>5, SeqEqual
  <2> QED BY <2>6 DEF p, rest
<1>16. id \in Mt5!Ids BY <1>9, <1>10, <1>13
<1>17. Ordered'
  <2>1. /\ Tail(q) \in Seq(Mt5!Ids) /\ q = <<q[1]>> \o Tail(q) /\ q[1] \in Mt5!Ids
    BY <1>9, <1>10
  <2>2. executed \in Seq(Mt5!Ids) BY <1>1 DEF Mt5Types
  <2>3. <<q[1]>> \in Seq(Mt5!Ids) BY <2>1
  <2>4. Append(executed, q[1]) = executed \o <<q[1]>> BY <2>1, <2>2
  <2>5. (executed \o <<q[1]>>) \o Tail(q) = executed \o (<<q[1]>> \o Tail(q))
    BY <2>1, <2>2, <2>3, ConcatAssociative
  <2>6. executed' \o Tail(q) = executed \o q BY <1>1, <1>13, <2>1, <2>4, <2>5
  <2>7. InOrder(executed' \o Tail(q), written') BY <1>1, <1>9, <2>6
  <2>8. Lined(Pending', Tail(q)) BY <1>10, <1>15
  <2> QED BY <2>1, <2>7, <2>8 DEF Ordered
<1>18. ~Empty(sock) BY <1>3 DEF Empty
<1>19. ASSUME sock \notin dropped
       PROVE  /\ sock = conn /\ Pending' = <<>> /\ wire[conn] = <<>>
              /\ \E c \in Callers : request[c].at = "read"
              /\ \A c \in Callers : request[c].at = "read" => replies'[conn] = <<request[c].id>>
  <2>1. PICK c \in Callers : sock = conn /\ request[c].at = "read"
    BY <1>1, <1>4, <1>18, <1>19 DEF Clean
  <2>2. Pending # <<>> BY <1>6, <1>8
  <2>3. Pending = Mt5!Line(request[c].id) /\ replies[conn] = <<>>
    BY <1>1, <2>1, <2>2 DEF OneAtATime
  <2>4. Len(Pending) = 2 /\ Pending[1].id = request[c].id BY <2>3 DEF Mt5!Line
  <2>5. Len(w) = 0 /\ w = <<>> BY <1>5, <1>6, <1>7, <1>11, <2>4
  <2>6. Pending' = <<>>
    <3>1. SubSeq(Pending, 3, 2) = <<>> BY <1>6
    <3> QED BY <1>15, <2>4, <3>1
  <2>7. request[c].id = id BY <1>10, <1>13, <2>4
  <2>8. replies' = [replies EXCEPT ![sock] = Append(@, id)] BY <1>1, <1>19
  <2>9. replies'[conn] = Append(replies[conn], id) BY <1>1, <1>4, <2>1, <2>8 DEF Mt5Types
  <2>10. replies'[conn] = <<request[c].id>> BY <2>3, <2>7, <2>9
  <2>11. \A d \in Callers : request[d].at = "read" => d = c
    BY <1>1, <2>1 DEF Alone, Holding
  <2> QED BY <2>1, <2>5, <2>6, <2>10, <2>11 DEF w
<1>20. \A l \in 1 .. Links : l # sock => replies'[l] = replies[l] BY <1>1 DEF Mt5Types
<1>21. Mt5Types'
  <2>1. executed' \in Seq(Mt5!Ids) BY <1>1, <1>16 DEF Mt5Types
  <2>2. replies' \in [1 .. Links -> Seq(Mt5!Ids)]
    <3>1. replies[sock] \in Seq(Mt5!Ids) BY <1>1, <1>4 DEF Mt5Types
    <3>2. Append(replies[sock], id) \in Seq(Mt5!Ids) BY <1>16, <3>1
    <3> QED BY <1>1, <3>2 DEF Mt5Types
  <2> QED BY <1>1, <1>3, <1>14, <2>1, <2>2 DEF Mt5Types
<1>22. Named' BY <1>1 DEF Named
<1>23. Alone' BY <1>1 DEF Alone
<1>24. Waiting' BY <1>1 DEF Waiting
<1>25. Clean'
  <2>1. \A l \in 1 .. Links : l # sock => (Empty(l)' <=> Empty(l))
    BY <1>1, <1>20 DEF Empty
  <2> QED BY <1>1, <1>4, <1>18, <2>1 DEF Clean
<1>26. OneAtATime'
  <2>1. CASE sock \notin dropped BY <1>1, <1>19, <2>1 DEF OneAtATime
  <2>2. CASE sock \in dropped
    <3>1. sock # conn /\ replies' = replies BY <1>1, <2>2 DEF Waiting
    <3> QED BY <1>1, <3>1 DEF OneAtATime
  <2> QED BY <2>1, <2>2
<1> QED BY <1>1, <1>17, <1>21, <1>22, <1>23, <1>24, <1>25, <1>26
          DEF Mt5IInv, Mt5!AnswerIsOwn

LEMMA DeinitStep ==
    ASSUME Mt5IInv, Mt5!Deinit
    PROVE  Mt5IInv'
<1>1. /\ Mt5Types /\ sock # 0 /\ closed' = closed \cup {sock} /\ sock' = 0 /\ buf' = <<>>
      /\ UNCHANGED <<request, conn, backlog, wire, replies, dropped, written, executed, answer,
                     asked, linked>>
  BY DEF Mt5IInv, Mt5!Deinit
<1>2. Mt5Types'
  <2>1. sock \in 1 .. linked BY <1>1, BridgeNumbers DEF Mt5Types
  <2>2. closed' = (1 .. linked) \ {0} BY <1>1, <2>1 DEF Mt5Types
  <2>3. sock' \in 0 .. linked' /\ buf' \in Seq(Piece) BY <1>1, BridgeNumbers DEF Mt5Types
  <2> QED BY <1>1, <2>2, <2>3 DEF Mt5Types
<1>3. \A c \in Callers : request[c].at = "read" => conn # 0 BY DEF Mt5IInv, Alone
<1>4. Clean' BY <1>1 DEF Mt5IInv, Clean, Empty
<1>5. OneAtATime' BY <1>1, <1>3 DEF Mt5IInv, OneAtATime
<1>6. Ordered'
  <2>1. PICK q \in Seq(Mt5!Ids) : Lined(Pending, q) /\ InOrder(executed \o q, written)
    BY DEF Mt5IInv, Ordered
  <2>2. InOrder(executed, written) BY <1>1, <2>1, OrderOfPart DEF Mt5Types
  <2>3. executed \o <<>> = executed BY <1>1 DEF Mt5Types
  <2>4. Pending' = <<>> BY <1>1 DEF Pending
  <2>5. Lined(<<>>, <<>>) /\ <<>> \in Seq(Mt5!Ids) BY DEF Lined
  <2> QED BY <1>1, <2>2, <2>3, <2>4, <2>5 DEF Ordered
<1> QED BY <1>1, <1>2, <1>4, <1>5, <1>6
          DEF Mt5IInv, Named, Alone, Waiting, Mt5!AnswerIsOwn

LEMMA Mt5NextKeepsIInv == ASSUME Mt5IInv, [Mt5!Next]_Mt5!bridgeVars PROVE Mt5IInv'
<1>1. CASE \E c \in Callers : Mt5!Call(c) \/ Mt5!Lock(c) \/ Mt5!Accept(c) \/ Mt5!AcceptTimeout(c)
  BY <1>1, CallStep, LockStep, AcceptStep, AcceptTimeoutStep
<1>2. CASE \E c \in Callers : Mt5!Write(c) \/ Mt5!Read(c) \/ Mt5!Fail(c)
  BY <1>2, Mt5WriteStep, ReadStep, Mt5FailStep
<1>3. CASE Mt5!EnsureConnected BY <1>3, EnsureConnectedStep
<1>4. CASE Mt5!DrainSocket BY <1>4, DrainSocketStep
<1>5. CASE Mt5!HandleRequest BY <1>5, HandleRequestStep
<1>6. CASE Mt5!Deinit BY <1>6, DeinitStep
<1>7. CASE UNCHANGED Mt5!bridgeVars
  <2>1. UNCHANGED <<request, conn, backlog, wire, replies, dropped, closed, sock, buf, written,
                    executed, answer, asked, linked>>
    BY <1>7 DEF Mt5!bridgeVars
  <2> QED BY <2>1
            DEF Mt5IInv, Mt5Types, Named, Alone, Waiting, Clean, Empty, OneAtATime,
                Ordered,
                      Pending, Mt5!AnswerIsOwn
<1> QED BY <1>1, <1>2, <1>3, <1>4, <1>5, <1>6, <1>7 DEF Mt5!Next

(* A request is never handed the answer of another one, whatever timed     *)
(* out, was cut off or restarted before it (AnswerIsOwn, Mt5Bridge).       *)
THEOREM OwnAnswers == Mt5!Spec => []Mt5!AnswerIsOwn
<1>1. Mt5IInv => Mt5!AnswerIsOwn BY DEF Mt5IInv
<1> QED BY <1>1, Mt5InitIInv, Mt5NextKeepsIInv, PTL DEF Mt5!Spec

(* The advisor carries out requests in the order they were sent and each   *)
(* at most once, over any number of connections and restarts               *)
(* (ExecutedInOrder, Mt5Bridge).                                           *)
THEOREM OrdersInOrder == Mt5!Spec => []ExecutedInOrder
<1>1. ASSUME Mt5IInv PROVE Mt5!ExecutedInOrder
  <2>1. PICK q \in Seq(Mt5!Ids) : InOrder(executed \o q, written)
    BY <1>1 DEF Mt5IInv, Ordered
  <2>2. InOrder(executed, written) BY <1>1, <2>1, OrderOfPart DEF Mt5IInv, Mt5Types
  <2> QED BY <2>2 DEF InOrder, Mt5!ExecutedInOrder
<1> QED BY <1>1, Mt5InitIInv, Mt5NextKeepsIInv, PTL DEF ExecutedInOrder, Mt5!Spec

(* Types: both ends hold connections that were opened.                      *)
THEOREM BridgeTypeCorrect == Mt5!Spec => []Mt5!TypeOK
<1>1. ASSUME Mt5IInv PROVE Mt5!TypeOK
  <2>1. Mt5Types BY <1>1 DEF Mt5IInv
  <2>2. Requests \in Nat /\ Links \in Nat BY BridgeNumbers
  <2>3. \A c \in Callers : request[c].at \in {"idle", "lock", "accept", "write", "read"}
    BY <2>1 DEF Mt5Types, Request
  <2>4. {conn, sock} \subseteq 0 .. Links BY <2>1, <2>2 DEF Mt5Types
  <2>5. dropped \cup closed \subseteq 1 .. Links BY <2>1, <2>2 DEF Mt5Types
  <2> QED BY <2>1, <2>3, <2>4, <2>5 DEF Mt5Types, Mt5!TypeOK
<1> QED BY <1>1, Mt5InitIInv, Mt5NextKeepsIInv, PTL DEF Mt5!Spec

-----------------------------------------------------------------------------
(* Mt5Bridge implements RequestService: the connections, the pieces of      *)
(* lines and the advisor's restarts do not show in what callers are told.   *)

\* Names are not used twice.
Distinct == \A i, j \in DOMAIN written : i # j => written[i] # written[j]

\* A request under way, or not made yet, has not been answered.
Unanswered ==
    /\ \A c \in Callers : request[c].at # "idle" => answer[request[c].id] = 0
    /\ \A i \in Mt5!Ids : i > asked => answer[i] = 0

\* What was sent is answered or waited for.
AwaitedOrTold ==
    \A n \in DOMAIN written :
      answer[written[n]] # 0 \/ \E c \in Callers :
          request[c].at = "read" /\ request[c].id = written[n]

\* A reply is sent after what it replies to has been carried out.
RepliesAfter ==
    \A l \in 1 .. Links : \A k \in DOMAIN replies[l] :
      \E m \in DOMAIN executed : executed[m] = replies[l][k]

SInv == Distinct /\ Unanswered /\ AwaitedOrTold /\ RepliesAfter

LEMMA InitSInv == ASSUME Mt5!Init PROVE SInv
<1>1. /\ \A c \in Callers : request[c].at = "idle"
      /\ written = <<>> /\ \A i \in Mt5!Ids : answer[i] = 0
      /\ \A l \in 1 .. Links : replies[l] = <<>>
  BY DEF Mt5!Init, Mt5!Idle
<1> QED BY <1>1 DEF SInv, Distinct, Unanswered, AwaitedOrTold, RepliesAfter

(* The names of those under way are names of requests.                      *)
LEMMA UnderWay ==
    ASSUME Mt5IInv, NEW c \in Callers, request[c].at # "idle"
    PROVE  request[c].id \in Mt5!Ids /\ request[c].id \in 1 .. asked /\ request[c].id # 0 /\ asked \in Nat
<1>1. request[c].id \in 1 .. asked /\ asked \in 0 .. Requests
  BY DEF Mt5IInv, Mt5Types, Named
<1> QED BY <1>1, BridgeNumbers DEF Mt5!Ids

(* Whoever comes into the lock's next stage keeps its name, and nobody is   *)
(* told anything.                                                           *)
LEMMA StageKeeps ==
    ASSUME Mt5IInv, SInv, NEW c \in Callers, request[c].at \in {"lock", "accept"},
           NEW at \in {"accept", "write"}, request' = [request EXCEPT ![c].at = at],
           UNCHANGED <<written, answer, asked, replies, executed>>
    PROVE  SInv'
<1>1. /\ request'[c].at = at /\ request'[c].id = request[c].id
      /\ \A d \in Callers : d # c => request'[d] = request[d]
  BY DEF Mt5IInv, Mt5Types, Request
<1>2. Unanswered' BY <1>1 DEF SInv, Unanswered
<1>3. AwaitedOrTold' BY <1>1 DEF SInv, AwaitedOrTold
<1> QED BY <1>2, <1>3 DEF SInv, Distinct, RepliesAfter

(* A request that ends has been told something, and only it.                *)
LEMMA FinishTells ==
    ASSUME Mt5IInv, SInv, NEW c \in Callers, request[c].at # "idle",
           NEW result \in {Mt5!Failed, request[c].id}, Mt5!Finish(c, result),
           UNCHANGED <<written, asked>>
    PROVE  Distinct' /\ Unanswered' /\ AwaitedOrTold'
<1>1. /\ request[c].id \in Mt5!Ids /\ request[c].id \in 1 .. asked /\ request[c].id # 0
      /\ asked \in Nat
      /\ Mt5Types /\ Named
  BY UnderWay DEF Mt5IInv
<1>2. result # 0 BY <1>1 DEF Mt5!Failed
<1>3. /\ answer' = [answer EXCEPT ![request[c].id] = result]
      /\ request' = [request EXCEPT ![c] = Mt5!Idle]
  BY DEF Mt5!Finish
<1>4. \A i \in Mt5!Ids : answer'[i] = IF i = request[c].id THEN result ELSE answer[i]
  BY <1>1, <1>3 DEF Mt5Types
<1>5. request'[c].at = "idle" /\ \A d \in Callers : d # c => request'[d] = request[d]
  BY <1>1, <1>3 DEF Mt5Types, Mt5!Idle
<1>6. Distinct' BY DEF SInv, Distinct
<1>7. Unanswered'
  <2>1. ASSUME NEW d \in Callers,
               request'[d].at # "idle" PROVE answer'[request'[d].id] = 0
    <3>1. d # c /\ request'[d] = request[d] BY <1>5, <2>1
    <3>2. request[d].id # request[c].id BY <1>1, <2>1, <3>1 DEF Named
    <3>3. request[d].id \in Mt5!Ids /\ answer[request[d].id] = 0
      BY <2>1, <3>1, UnderWay DEF SInv, Unanswered
    <3> QED BY <1>4, <3>1, <3>2, <3>3
  <2>2. ASSUME NEW i \in Mt5!Ids, i > asked' PROVE answer'[i] = 0
    <3>1. i > asked /\ i # request[c].id BY <1>1, <2>2, BridgeNumbers DEF Mt5!Ids
    <3> QED BY <1>4, <3>1 DEF SInv, Unanswered
  <2> QED BY <2>1, <2>2 DEF Unanswered
<1>8. AwaitedOrTold'
  <2> SUFFICES ASSUME NEW n \in DOMAIN written
               PROVE  answer'[written[n]] # 0 \/
                        \E d \in Callers : request'[d].at = "read" /\ request'[d].id = written[n]
    BY DEF AwaitedOrTold
  <2>1. written[n] \in Mt5!Ids BY <1>1 DEF Mt5Types
  <2>2. CASE written[n] = request[c].id BY <1>2, <1>4, <2>1, <2>2
  <2>3. CASE written[n] # request[c].id
    <3>1. answer[written[n]] # 0 \/
            \E d \in Callers : request[d].at = "read" /\ request[d].id = written[n]
      BY DEF SInv, AwaitedOrTold
    <3>2. CASE answer[written[n]] # 0 BY <1>4, <2>1, <2>3, <3>2
    <3>3. ASSUME NEW d \in Callers, request[d].at = "read", request[d].id = written[n]
          PROVE  request'[d].at = "read" /\ request'[d].id = written[n]
      <4>1. d # c BY <2>3, <3>3
      <4> QED BY <1>5, <3>3, <4>1
    <3> QED BY <3>1, <3>2, <3>3
  <2> QED BY <2>2, <2>3
<1> QED BY <1>6, <1>7, <1>8

(* A new request has a name that was never used.                            *)
LEMMA CallServes == ASSUME Mt5IInv, SInv, NEW c \in Callers, Mt5!Call(c) PROVE SInv'
<1>1. /\ Mt5Types /\ request[c] = Mt5!Idle /\ asked < Requests /\ asked' = asked + 1
      /\ request' = [request EXCEPT ![c] = [at |-> "lock", id |-> asked + 1]]
      /\ UNCHANGED <<written, answer, replies, executed>>
  BY DEF Mt5IInv, Mt5!Call, Mt5!eaVars
<1>2. asked \in Nat /\ asked + 1 \in Mt5!Ids /\ asked + 1 > asked /\ \A i \in Mt5!Ids :
    i > asked + 1 => i > asked
  BY <1>1, BridgeNumbers DEF Mt5Types, Mt5!Ids
<1>3. /\ request'[c] = [at |-> "lock", id |-> asked + 1]
      /\ \A d \in Callers : d # c => request'[d] = request[d]
  BY <1>1 DEF Mt5Types
<1>4. Unanswered' BY <1>1, <1>2, <1>3 DEF SInv, Unanswered
<1>5. request[c].at # "read" BY <1>1 DEF Mt5!Idle
<1>6. \A d \in Callers : request[d].at = "read" => request'[d] = request[d] BY <1>3, <1>5
<1>7. AwaitedOrTold' BY <1>1, <1>6 DEF SInv, AwaitedOrTold
<1> QED BY <1>1, <1>4, <1>7 DEF SInv, Distinct, RepliesAfter

(* The holder of the connection sends when all before it have been told.    *)
LEMMA WriteSends ==
    ASSUME Mt5IInv, SInv, NEW c \in Callers, Mt5!Write(c)
    PROVE  SInv' /\ request[c].id \in Mt5!Ids /\ Mt5!Service!Send(request[c].id)
<1>1. /\ Mt5Types /\ Named /\ Alone /\ request[c].at = "write"
      /\ written' = Append(written, request[c].id)
      /\ request' = [request EXCEPT ![c].at = "read"]
      /\ UNCHANGED <<replies, answer, asked, executed>>
  BY DEF Mt5IInv, Mt5!Write, Mt5!eaVars
<1>2. PICK id \in Mt5!Ids : id = request[c].id BY <1>1, UnderWay
<1>3. \A n \in DOMAIN written : written[n] # id BY <1>1, <1>2 DEF Named
<1>4. \A d \in Callers : request[d].at # "read"
  <2>1. request[c].at \in Holding BY <1>1 DEF Holding
  <2> QED BY <1>1, <2>1 DEF Alone, Holding
<1>5. \A n \in DOMAIN written : answer[written[n]] # 0 BY <1>4 DEF SInv, AwaitedOrTold
<1>6. answer[id] = 0 BY <1>1, <1>2 DEF SInv, Unanswered
<1>7. \A n \in DOMAIN written' : \/ n \in DOMAIN written /\ written'[n] = written[n]
                                 \/ n = Len(written) + 1 /\ n \notin DOMAIN written /\ written'[n] = id
  BY <1>1, <1>2 DEF Mt5Types
<1>8. /\ request'[c].at = "read" /\ request'[c].id = id
      /\ \A d \in Callers : d # c => request'[d] = request[d]
  BY <1>1, <1>2 DEF Mt5Types, Request
<1>9. Distinct' BY <1>3, <1>7 DEF SInv, Distinct
<1>10. Unanswered' BY <1>1, <1>2, <1>6, <1>8 DEF SInv, Unanswered
<1>11. AwaitedOrTold' BY <1>1, <1>5, <1>7, <1>8 DEF AwaitedOrTold
<1>12. RepliesAfter' BY <1>1 DEF SInv, RepliesAfter
<1>13. Mt5!Service!Send(id) BY <1>1, <1>2, <1>5, <1>6 DEF Mt5!Service!Send
<1> QED BY <1>2, <1>9, <1>10, <1>11, <1>12, <1>13 DEF SInv

(* A request that is given up fails, sent or not.                           *)
LEMMA GivenUpFails ==
    ASSUME Mt5IInv, SInv, NEW c \in Callers, Mt5!AcceptTimeout(c) \/ Mt5!Fail(c)
    PROVE  SInv' /\ request[c].id \in Mt5!Ids /\ Mt5!Service!Fail(request[c].id)
<1>1. /\ request[c].at # "idle" /\ Mt5!Finish(c, Mt5!Failed)
      /\ UNCHANGED <<written, asked, replies, executed>>
  BY DEF Mt5!AcceptTimeout, Mt5!Fail, Mt5!eaVars
<1>2. Distinct' /\ Unanswered' /\ AwaitedOrTold' BY <1>1, FinishTells
<1>3. RepliesAfter' BY <1>1 DEF SInv, RepliesAfter
<1>4. request[c].id \in Mt5!Ids /\ answer[request[c].id] = 0
  BY <1>1, UnderWay DEF SInv, Unanswered
<1> QED BY <1>1, <1>2, <1>3, <1>4 DEF SInv, Mt5!Finish, Mt5!Service!Fail

(* The answer read is that of the request, which has been carried out.      *)
LEMMA ReadAnswers ==
    ASSUME Mt5IInv, SInv, NEW c \in Callers, Mt5!Read(c)
    PROVE  SInv' /\ request[c].id \in Mt5!Ids /\ Mt5!Service!Answer(request[c].id)
<1>1. /\ request[c].at = "read" /\ replies[conn] # <<>>
      /\ replies' = [replies EXCEPT ![conn] = Tail(@)]
      /\ Mt5!Finish(c, Head(replies[conn])) /\ UNCHANGED <<written, asked, executed>>
  BY DEF Mt5!Read, Mt5!eaVars
<1>2. replies[conn] = <<request[c].id>> BY <1>1 DEF Mt5IInv, OneAtATime
<1>3. Mt5!Finish(c, request[c].id) BY <1>1, <1>2
<1>4. Distinct' /\ Unanswered' /\ AwaitedOrTold' BY <1>1, <1>3, FinishTells
<1>5. conn \in 1 .. Links BY <1>1, BridgeNumbers DEF Mt5IInv, Mt5Types, Alone
<1>6. replies'[conn] = <<>> /\ \A l \in 1 .. Links : l # conn => replies'[l] = replies[l]
  BY <1>1, <1>2, <1>5 DEF Mt5IInv, Mt5Types
<1>7. RepliesAfter' BY <1>1, <1>6 DEF SInv, RepliesAfter
<1>8. \E m \in DOMAIN executed : executed[m] = request[c].id
  <2>1. 1 \in DOMAIN replies[conn] /\ replies[conn][1] = request[c].id BY <1>2
  <2> QED BY <1>5, <2>1 DEF SInv, RepliesAfter
<1>9. request[c].id \in Mt5!Ids /\ answer[request[c].id] = 0
  BY <1>1, UnderWay DEF SInv, Unanswered
<1> QED BY <1>1, <1>3, <1>4, <1>7, <1>8, <1>9 DEF SInv, Mt5!Finish, Mt5!Service!Answer

(* What the advisor carries out comes, in the order of sending, after all   *)
(* it has carried out so far.                                               *)
LEMMA HandlingExecutes ==
    ASSUME Mt5IInv, SInv, Mt5!HandleRequest
    PROVE  SInv' /\ \E i \in Mt5!Ids : Mt5!Service!Execute(i)
<1>1. /\ Mt5Types /\ Mt5Types' /\ Ordered' /\ written \in Seq(Mt5!Ids) /\ executed \in Seq(Mt5!Ids)
      /\ UNCHANGED <<request, written, answer, asked>>
  BY HandleRequestStep DEF Mt5IInv, Mt5!HandleRequest, Mt5Types
<1>2. PICK id : /\ executed' = Append(executed, id)
                /\ replies' = IF sock \in dropped THEN replies
                              ELSE [replies EXCEPT ![sock] = Append(@, id)]
  BY DEF Mt5!HandleRequest
<1> DEFINE n == Len(executed) + 1
<1>3. /\ n \in DOMAIN executed' /\ executed'[n] = id /\ id \in Mt5!Ids
      /\ \A k \in DOMAIN executed : k \in DOMAIN executed' /\ k < n /\ executed'[k] = executed[k]
  <2>1. executed' \in Seq(Mt5!Ids) BY <1>1 DEF Mt5Types
  <2> QED BY <1>1, <1>2, <2>1
<1> HIDE DEF n
<1>4. InOrder(executed', written)
  <2>1. PICK q \in Seq(Mt5!Ids) : InOrder(executed' \o q, written') BY <1>1 DEF Ordered
  <2>2. executed' \in Seq(Mt5!Ids) /\ written' \in Seq(Mt5!Ids) BY <1>1 DEF Mt5Types
  <2>3. PICK e \in Seq(Mt5!Ids) : e = executed' BY <2>2
  <2>4. InOrder(e \o q, written) BY <1>1, <2>1, <2>3
  <2> QED BY <1>1, <2>3, <2>4, OrderOfPart
<1>5. PICK m \in DOMAIN written : written[m] = id BY <1>3, <1>4 DEF InOrder
<1>6. ASSUME NEW k \in DOMAIN executed
      PROVE  \E p \in 1 .. m - 1 : p \in DOMAIN written /\ written[p] = executed[k]
  <2>1. PICK p \in DOMAIN written, r \in DOMAIN written :
          p < r /\ written[p] = executed[k] /\ written[r] = id
    BY <1>3, <1>4 DEF InOrder
  <2>2. r = m BY <1>5, <2>1 DEF SInv, Distinct
  <2>3. p \in 1 .. m - 1 BY <1>1, <2>1, <2>2
  <2> QED BY <2>1, <2>3
<1>7. Mt5!Service!Execute(id)
  BY <1>1, <1>2, <1>5, <1>6 DEF Mt5!Service!Execute, Mt5!Service!Sent
<1>8. RepliesAfter'
  <2>1. \A x : (\E k \in DOMAIN executed : executed[k] = x) =>
      \E k \in DOMAIN executed' : executed'[k] = x
    BY <1>3
  <2>2. CASE replies' = replies BY <2>1, <2>2 DEF SInv, RepliesAfter
  <2>3. CASE sock \notin dropped
    <3>1. sock \in 1 .. Links
      <4>1. Mt5!Lines # {} BY DEF Mt5!HandleRequest
      <4>2. buf # <<>> BY <1>1, <4>1 DEF Mt5!Lines, Mt5Types
      <4> QED BY <1>1, <4>2, BridgeNumbers DEF Mt5Types
    <3>2. replies[sock] \in Seq(Mt5!Ids) BY <1>1, <3>1 DEF Mt5Types
    <3>3. replies'[sock] = Append(replies[sock], id) /\ \A l \in 1 .. Links : l # sock =>
        replies'[l] = replies[l]
      BY <1>1, <1>2, <2>3, <3>1 DEF Mt5Types
    <3>4. \A k \in DOMAIN replies'[sock] : \/ replies'[sock][k] = id
                                           \/ k \in DOMAIN replies[sock] /\ replies'[sock][k] = replies[sock][k]
      BY <1>3, <3>2, <3>3
    <3> QED BY <1>3, <2>1, <3>1, <3>3, <3>4 DEF SInv, RepliesAfter
  <2> QED BY <1>2, <2>2, <2>3
<1>9. Distinct' /\ Unanswered' /\ AwaitedOrTold'
  BY <1>1 DEF SInv, Distinct, Unanswered, AwaitedOrTold
<1> QED BY <1>3, <1>7, <1>8, <1>9 DEF SInv

LEMMA ServiceNext ==
    ASSUME Mt5IInv, SInv, [Mt5!Next]_Mt5!bridgeVars
    PROVE  SInv' /\ [Mt5!Service!Next]_(Mt5!Service!serviceVars)
<1> DEFINE Goal == SInv' /\ (Mt5!Service!Step \/ UNCHANGED Mt5!Service!serviceVars)
<1> SUFFICES Goal BY DEF Mt5!Service!Next
<1>1. ASSUME UNCHANGED <<request, written, answer, asked, replies, executed>> PROVE Goal
  BY <1>1
    DEF SInv, Distinct, Unanswered, AwaitedOrTold, RepliesAfter, Mt5!Service!serviceVars
<1>2. ASSUME NEW c \in Callers, Mt5!Call(c) PROVE Goal
  BY <1>2, CallServes DEF Mt5!Call, Mt5!eaVars, Mt5!Service!serviceVars
<1>3. ASSUME NEW c \in Callers, Mt5!Lock(c) \/ Mt5!Accept(c) PROVE Goal
  <2>1. /\ request[c].at \in {"lock", "accept"}
        /\ \E at \in {"accept", "write"} : request' = [request EXCEPT ![c].at = at]
        /\ UNCHANGED <<written, answer, asked, replies, executed>>
    BY <1>3 DEF Mt5!Lock, Mt5!Accept, Mt5!eaVars
  <2> QED BY <2>1, StageKeeps DEF Mt5!Service!serviceVars
<1>4. ASSUME NEW c \in Callers, Mt5!Write(c) PROVE Goal
  BY <1>4, WriteSends DEF Mt5!Service!Step
<1>5. ASSUME NEW c \in Callers, Mt5!AcceptTimeout(c) \/ Mt5!Fail(c) PROVE Goal
  BY <1>5, GivenUpFails DEF Mt5!Service!Step
<1>6. ASSUME NEW c \in Callers, Mt5!Read(c) PROVE Goal
  BY <1>6, ReadAnswers DEF Mt5!Service!Step
<1>7. CASE Mt5!HandleRequest BY <1>7, HandlingExecutes DEF Mt5!Service!Step
<1>8. CASE Mt5!EnsureConnected \/ Mt5!DrainSocket \/ Mt5!Deinit \/ UNCHANGED Mt5!bridgeVars
  BY <1>1, <1>8 DEF Mt5!EnsureConnected, Mt5!DrainSocket, Mt5!Deinit, Mt5!bridgeVars
<1> HIDE DEF Goal
<1> QED BY <1>2, <1>3, <1>4, <1>5, <1>6, <1>7, <1>8 DEF Mt5!Next

(* For any number of callers, requests and connections the bridge is the    *)
(* service of RequestService: a request is sent once and after those before *)
(* it are settled, the advisor carries out what was sent in that order, and *)
(* a caller that is answered has had its own request carried out            *)
(* (ServesRequests, Mt5Bridge).                                             *)
THEOREM BridgeIsService == Mt5!Spec => ServesRequests
<1>1. Mt5!Init => Mt5IInv /\ SInv BY Mt5InitIInv, InitSInv
<1>2. Mt5IInv /\ SInv /\ [Mt5!Next]_Mt5!bridgeVars =>
        Mt5IInv' /\ SInv' /\ [Mt5!Service!Next]_(Mt5!Service!serviceVars)
  BY Mt5NextKeepsIInv, ServiceNext
<1>3. Mt5!Init => Mt5!Service!Init BY DEF Mt5!Init, Mt5!Service!Init
<1> QED BY <1>1, <1>2, <1>3, PTL
          DEF ServesRequests, Mt5!Spec, Mt5!ServesRequests, Mt5!Service!Spec

=============================================================================
