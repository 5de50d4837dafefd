------------------------------ MODULE Screener ------------------------------
(***************************************************************************)
(* The pool of symbols the engine works on (state/symbol_orchestrator.rs)  *)
(* and the screener job that renews it (engines/master/jobs_screener.rs,   *)
(* screener/score.rs).  The job reads the pool, scores its candidates for  *)
(* a long time without any lock, and applies the difference.  Meanwhile a  *)
(* delisted symbol may be purged, and nothing keeps a second job away.     *)
(***************************************************************************)
EXTENDS Integers, Sequences, FiniteSets, Functions

CONSTANTS
    Candidates,       \* symbols with candles in the database
    Pinned,           \* config.pinned_symbols, in their order
    Boot,             \* the pool the boot leaves
    top_n,
    max_workers,
    Jobs,
    Rounds            \* bound on the jobs begun

ScreenerAssumption ==
    /\ Pinned \in Seq(Candidates) /\ IsInjective(Pinned)
    /\ IsFiniteSet(Candidates) /\ Boot \subseteq Candidates /\ Cardinality(Boot) <= max_workers
    /\ top_n \in Nat \ {0} /\ max_workers \in Nat \ {0} /\ Rounds \in Nat

VARIABLES
    workers,
    screener,         \* job -> idle, or scoring with the pool it has read
    rounds,
    selected,         \* selected by the difference applied last (history)
    refused,          \* of these, the ones the full pool did not take (history)
    gone,             \* purged since that job read the pool (history)
    overlap           \* that job ran beside another one (history)

screenerVars == <<workers, screener, rounds, selected, refused, gone, overlap>>

Idle == [at |-> "idle"]
PinnedSet == Range(Pinned)
Cap == IF top_n < max_workers THEN top_n ELSE max_workers

\* The boot registers the pinned symbols, then any others of the database, while there
\* is room.
Init ==
    /\ workers = Boot
    /\ screener = [j \in Jobs |-> Idle]
    /\ rounds = 0 /\ selected = workers /\ refused = {} /\ gone = {} /\ overlap = FALSE

-----------------------------------------------------------------------------

Running == {j \in Jobs : screener[j] # Idle}

\* purged and shared are history: what the job has not seen.
ReadPool(j) ==
    /\ screener[j] = Idle /\ rounds < Rounds
    /\ screener' = [k \in Jobs |->
         IF k = j
         THEN [at |-> "scoring", current |-> workers, purged |-> {}, shared |-> Running # {}]
         ELSE IF screener[k] = Idle THEN Idle ELSE [screener[k] EXCEPT !.shared = TRUE]]
    /\ rounds' = rounds + 1
    /\ UNCHANGED <<workers, selected, refused, gone, overlap>>

\* Pinned first, then as many candidates as there is room for in the order of their
\* scores; a candidate below the floor is passed over, so any set of them may come.
Selections ==
    LET first == {Pinned[i] : i \in {i \in DOMAIN Pinned : i <= Cap}}
    IN  {first \cup others :
           others \in {o \in SUBSET (Candidates \ first) : Cardinality(first \cup o) <= Cap}}

\* Mutant: with nothing to add there is nothing to do.
SelectTopNDiffOnlyAdds(current, chosen) ==
    [to_add |-> chosen \ current,
     to_remove |-> IF chosen \subseteq current THEN {} ELSE (current \ chosen) \ PinnedSet]

SelectTopNDiff(current, chosen) ==
    [to_add |-> chosen \ current, to_remove |-> (current \ chosen) \ PinnedSet]

\* register, one after the other: a symbol not in the pool needs a free place.
Registered(pool, to_add) ==
    {taken \in SUBSET to_add :
       LET after == pool \cup taken
       IN  /\ Cardinality(after) <= max_workers \/ taken \subseteq pool
           /\ (to_add \ taken) \cap pool = {}
           /\ Cardinality(after) < max_workers => taken = to_add}

\* Additions come before removals, on the pool as it is by now.
Apply(j) ==
    /\ screener[j] # Idle
    /\ \E chosen \in Selections :
         LET diff == SelectTopNDiff(screener[j].current, chosen)
         IN  \E taken \in Registered(workers, diff.to_add) :
               /\ workers' = (workers \cup taken) \ diff.to_remove
               /\ selected' = chosen
               /\ refused' = diff.to_add \ taken
    /\ screener' = [screener EXCEPT ![j] = Idle]
    /\ UNCHANGED rounds
    /\ gone' = screener[j].purged
    /\ overlap' = screener[j].shared

\* A job without candidates, or that cannot take a lock, changes nothing.
GiveUp(j) ==
    /\ screener[j] # Idle
    /\ screener' = [screener EXCEPT ![j] = Idle]
    /\ UNCHANGED <<workers, rounds, selected, refused, gone, overlap>>

\* purge_delisted_symbol: the symbol keeps its rows, so it stays a candidate.
Purge(s) ==
    /\ s \in workers
    /\ workers' = workers \ {s}
    /\ gone' = gone \cup {s}
    /\ screener' = [j \in Jobs |-> IF screener[j] = Idle THEN Idle
                                   ELSE [screener[j] EXCEPT !.purged = @ \cup {s}]]
    /\ UNCHANGED <<rounds, selected, refused, overlap>>

Next ==
    \/ \E j \in Jobs : ReadPool(j) \/ Apply(j) \/ GiveUp(j)
    \/ \E s \in Candidates : Purge(s)

Spec == Init /\ [][Next]_screenerVars

-----------------------------------------------------------------------------

TypeOK ==
    /\ workers \subseteq Candidates /\ Cardinality(workers) <= max_workers
    /\ \A j \in Jobs : screener[j].at \in {"idle", "scoring"}
    /\ rounds \in 0 .. Rounds
    /\ selected \cup refused \cup gone \subseteq Candidates /\ overlap \in BOOLEAN

\* The pool is what was selected last, besides pinned symbols, what was purged since
\* and what a full pool refused, unless two jobs overlapped: the long scoring between
\* the two looks at the pool costs nothing else.
SelectionInForce ==
    ~overlap =>
      /\ workers \subseteq selected \cup PinnedSet
      /\ selected \subseteq workers \cup gone \cup refused

=============================================================================
