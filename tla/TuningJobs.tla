----------------------------- MODULE TuningJobs -----------------------------
(***************************************************************************)
(* The two jobs that tune the engine while it trades: the ML retrain       *)
(* (engines/master/jobs.rs) and the walk-forward backtest                  *)
(* (jobs_backtest.rs).  Each request starts a job of its own, so any two   *)
(* may run side by side.  They take the state lock stretch by stretch, and *)
(* write their results through a temporary file whose name is fixed for    *)
(* each kind (persistence/writer.rs).  The engine may stop at any time.    *)
(***************************************************************************)
EXTENDS Integers, FiniteSets

CONSTANTS Strategies,
          Fallback,                     \* what a retrain searches for while none is chosen
          Slots, Rounds                 \* Rounds bounds the jobs begun

TuningAssumption == Fallback \in Strategies /\ "AUTO" \notin Strategies /\ Rounds \in Nat

Kinds == {"ml", "backtest"}

VARIABLES
    live_strategy,    \* "AUTO": every cycle picks one by its regime
    params,           \* best_params: the strategy they were searched for
    job,              \* slot -> the job that runs there
    temp,             \* kind -> what the temporary file holds
    disk,             \* kind -> what the sealed file holds
    crossed,          \* the job that tuned last ran beside another one (history)
    raced,            \* kinds of which two jobs have been sealing at once (history)
    rounds

tuningVars == <<live_strategy, params, job, temp, disk, crossed, raced, rounds>>

Idle == [at |-> "idle"]
None == [state |-> "none"]
Running == {s \in Slots : job[s] # Idle}
\* Slots of a kind that are between the two file operations of a seal.
Sealing(kind) == {s \in Running : job[s].kind = kind /\ job[s].at \in {"writing", "written"}}

Init ==
    /\ live_strategy = "AUTO" /\ params = "none"
    /\ job = [s \in Slots |-> Idle]
    /\ temp = [k \in Kinds |-> None] /\ disk = [k \in Kinds |-> None]
    /\ crossed = FALSE /\ raced = {} /\ rounds = 0

SearchedFor == IF live_strategy = "AUTO" THEN Fallback ELSE live_strategy

-----------------------------------------------------------------------------

\* The trigger handler starts a job for each flag it finds, whatever still runs.
Begin(s, kind) ==
    /\ job[s] = Idle /\ rounds < Rounds
    /\ rounds' = rounds + 1
    /\ job' = [t \in Slots |->
         IF t = s THEN [at |-> "begun", kind |-> kind, of |-> "none", shared |-> Running # {}]
         ELSE IF job[t] = Idle THEN Idle ELSE [job[t] EXCEPT !.shared = TRUE]]
    /\ UNCHANGED <<live_strategy, params, temp, disk, crossed, raced>>

\* The retrain searches for the strategy it finds active, the backtest for the best.
Search(s) ==
    /\ job[s].at = "begun"
    /\ \E of \in Strategies :
         /\ job[s].kind = "ml" => of = SearchedFor
         /\ job' = [job EXCEPT ![s].at = "searched", ![s].of = of]
    /\ UNCHANGED <<live_strategy, params, temp, disk, crossed, raced, rounds>>

\* Mutant: the strategy is not switched together with its parameters.
ApplyParamsOnly(s) ==
    /\ job[s].at = "searched"
    /\ params' = job[s].of
    /\ crossed' = job[s].shared
    /\ job' = [job EXCEPT ![s].at = "applied"]
    /\ UNCHANGED <<live_strategy, temp, disk, raced, rounds>>

\* In one stretch under the lock; the retrain leaves the strategy alone.
Apply(s) ==
    /\ job[s].at = "searched"
    /\ params' = job[s].of
    /\ live_strategy' = IF job[s].kind = "backtest" THEN job[s].of ELSE live_strategy
    /\ crossed' = job[s].shared
    /\ job' = [job EXCEPT ![s].at = "applied"]
    /\ UNCHANGED <<temp, disk, raced, rounds>>

\* Mutant: the file itself is written, without the detour.
OpenTempInPlace(s) ==
    /\ job[s].at = "applied"
    /\ LET kind == job[s].kind
           data == [of |-> job[s].of, params |-> params]
       IN  /\ job' = [job EXCEPT ![s] = [at |-> "writing", kind |-> kind, of |-> job[s].of,
                                         shared |-> job[s].shared, data |-> data, on |-> "disk"]]
           /\ disk' = [disk EXCEPT ![kind] = [state |-> "torn"]]
           /\ raced' = IF Sealing(kind) = {} THEN raced ELSE raced \cup {kind}
    /\ UNCHANGED <<live_strategy, params, temp, crossed, rounds>>

\* The snapshot of a later stretch: the parameters in force by now, beside the
\* strategy this job chose; then the temporary file is created or emptied.
OpenTemp(s) ==
    /\ job[s].at = "applied"
    /\ LET kind == job[s].kind
           data == [of |-> job[s].of, params |-> params]
       IN  /\ job' = [job EXCEPT ![s] = [at |-> "writing", kind |-> kind, of |-> job[s].of,
                                         shared |-> job[s].shared, data |-> data, on |-> "temp"]]
           /\ temp' = [temp EXCEPT ![kind] = [state |-> "torn"]]
           /\ raced' = IF Sealing(kind) = {} THEN raced ELSE raced \cup {kind}
    /\ UNCHANGED <<live_strategy, params, disk, crossed, rounds>>

\* The last bytes are written: to the file this job opened, which another job may have
\* moved to its place or emptied meanwhile.
Write(s) ==
    /\ job[s].at = "writing"
    /\ LET kind == job[s].kind
           whole == [state |-> "whole", data |-> job[s].data]
           others == {t \in Sealing(kind) \ {s} : job[t].at = "writing" /\ job[t].on = job[s].on}
       IN  \E result \in IF others = {} THEN {whole} ELSE {whole, [state |-> "torn"]} :
             /\ temp' = IF job[s].on = "temp" THEN [temp EXCEPT ![kind] = result] ELSE temp
             /\ disk' = IF job[s].on = "disk" THEN [disk EXCEPT ![kind] = result] ELSE disk
    /\ job' = [job EXCEPT ![s].at = "written"]
    /\ UNCHANGED <<live_strategy, params, crossed, raced, rounds>>

\* rename: without a temporary file the job fails, though its parameters are in force.
Rename(s) ==
    /\ job[s].at = "written"
    /\ LET kind == job[s].kind
       IN  IF temp[kind] = None
           THEN /\ job' = [job EXCEPT ![s] = Idle] /\ UNCHANGED <<temp, disk>>
           ELSE /\ disk' = [disk EXCEPT ![kind] = temp[kind]]
                /\ temp' = [temp EXCEPT ![kind] = None]
                /\ job' = [t \in Slots |->
                     IF t = s THEN Idle
                     ELSE IF t \in Sealing(kind)
                     THEN [job[t] EXCEPT !.on = IF @ = "temp" THEN "disk" ELSE "unlinked"]
                     ELSE job[t]]
    /\ UNCHANGED <<live_strategy, params, crossed, raced, rounds>>

\* Too few candles, a failed search or a lock that cannot be taken.
Fail(s) ==
    /\ job[s].at \in {"begun", "applied"}
    /\ job' = [job EXCEPT ![s] = Idle]
    /\ UNCHANGED <<live_strategy, params, temp, disk, crossed, raced, rounds>>

\* The engine stops and is started again: a temporary file stays as it is.
Restart ==
    /\ job' = [s \in Slots |-> Idle]
    /\ live_strategy' = "AUTO" /\ params' = "none" /\ crossed' = FALSE
    /\ UNCHANGED <<temp, disk, raced, rounds>>

Next ==
    \/ \E s \in Slots :
         \/ \E kind \in Kinds : Begin(s, kind)
         \/ Search(s) \/ Apply(s) \/ OpenTemp(s) \/ Write(s) \/ Rename(s) \/ Fail(s)
    \/ Restart

Spec == Init /\ [][Next]_tuningVars

-----------------------------------------------------------------------------

TypeOK ==
    /\ live_strategy \in Strategies \cup {"AUTO"} /\ params \in Strategies \cup {"none"}
    /\ \A s \in Slots : job[s].at \in {"idle", "begun", "searched", "applied", "writing", "written"}
    /\ \A k \in Kinds : {temp[k].state, disk[k].state} \subseteq {"none", "torn", "whole"}
    /\ crossed \in BOOLEAN /\ raced \subseteq Kinds /\ rounds \in 0 .. Rounds

\* The stops and targets in force were searched for the strategy in force (the fallback
\* while none is chosen), unless the job that set them ran beside another one.
TunedForStrategy == ~crossed => params \in {"none", SearchedFor}

\* What is on disk can be read back after a stop at any moment: a torn file needs two
\* jobs of the same kind sealing at once through the one temporary name.
SealedIsWhole == \A k \in Kinds \ raced : disk[k].state # "torn"

=============================================================================
