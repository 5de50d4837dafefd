------------------------------ MODULE Recovery ------------------------------
(***************************************************************************)
(* What survives a restart of the engine: the open-positions snapshot and  *)
(* the account row in SQLite, the detached tasks that write them, and the  *)
(* boot that reads them back and, when trading live on futures, brings the *)
(* positions in line with the exchange (engines/master/persistence.rs).    *)
(*                                                                         *)
(* A position is its quantity, in units of one entry; a trade adds one to  *)
(* the account.  The handler of a symbol is a single actor here (who may   *)
(* close at the same time is LiveTrading's subject): what matters is where *)
(* a crash cuts it and in which order the writes it left behind are done.  *)
(***************************************************************************)
EXTENDS Integers, FiniteSets

CONSTANTS
    Symbols,
    Live,        \* executor present, not dry-run, futures: reconcile at boot
    CallErrors,  \* may the boot query or a close order fail ?
    DbErrors,    \* may a database call fail ? (the result of a write is ignored)
    FeedGaps,    \* may a recovered symbol lack candles or a live feed ?
    MaxEntries,  \* bound on all entries
    MaxCrashes   \* bound on crashes

ASSUME RecoveryAssumption ==
    /\ IsFiniteSet(Symbols)
    /\ Live \in BOOLEAN /\ CallErrors \in BOOLEAN
    /\ DbErrors \in BOOLEAN /\ FeedGaps \in BOOLEAN
    /\ MaxEntries \in Nat /\ MaxCrashes \in Nat

VARIABLES
    phase,               \* where the boot is, or "run"
    live_positions,      \* [Symbols -> recorded quantity, 0 = none]
    closed_trades_total,
    pc,                  \* [Symbols -> next stretch of the symbol's handler]
    answer,              \* positions the exchange reported to this boot
    unknown,             \* symbols whose position this boot reported as unknown
    position_writes,     \* snapshots handed to detached tasks, not written yet
    account_writes,      \* account rows likewise
    db_positions,        \* table open_positions_snapshot (one row)
    db_closed,           \* table account_state (one row)
    ex,                  \* [Symbols -> quantity on the exchange]
    entries,             \* positions ever entered (history)
    failed,              \* calls to the exchange that ever failed (history)
    crashes

volatile == <<live_positions, closed_trades_total, pc, unknown>>
pending  == <<position_writes, account_writes>>
database == <<db_positions, db_closed>>
history  == <<entries, failed, crashes>>
vars == <<phase, volatile, answer, pending, database, ex, history>>

NoPosition == [s \in Symbols |-> 0]
Recorded   == {s \in Symbols : live_positions[s] > 0}

Init ==
    /\ phase = "hydrate"
    /\ live_positions = NoPosition
    /\ closed_trades_total = 0
    /\ pc = [s \in Symbols |-> "idle"]
    /\ answer = NoPosition
    /\ unknown = {}
    /\ position_writes = {}
    /\ account_writes = {}
    /\ db_positions = NoPosition
    /\ db_closed = 0
    /\ ex = NoPosition
    /\ entries = 0
    /\ failed = {}
    /\ crashes = 0

-----------------------------------------------------------------------------
(* The boot, before any other task is spawned *)

(* hydrate_open_positions_from_db: what has candles and a feed comes back, *)
(* and nothing when the snapshot cannot be read.                           *)
Hydrate ==
    /\ phase = "hydrate"
    /\ \E skipped \in {{}} \cup (IF FeedGaps THEN SUBSET Symbols ELSE {})
                 \cup (IF DbErrors THEN {Symbols} ELSE {}) :
         live_positions' = [s \in Symbols |-> IF s \in skipped THEN 0 ELSE db_positions[s]]
    /\ phase' = IF Live THEN "query" ELSE "account"
    /\ UNCHANGED <<closed_trades_total, pc, unknown, answer, pending, database, ex,
                   history>>

(* get_all_positions *)
QueryAnswered ==
    /\ phase = "query"
    /\ answer' = ex
    /\ phase' = "reconcile"
    /\ UNCHANGED <<volatile, pending, database, ex, history>>

(* Mutant: a failed query is taken for an account without positions. *)
QueryFailsFlat ==
    /\ CallErrors
    /\ phase = "query"
    /\ answer' = NoPosition
    /\ phase' = "reconcile"
    /\ failed' = failed \cup {"query"}
    /\ UNCHANGED <<volatile, pending, database, ex, entries, crashes>>

(* When the query fails, the boot goes on with what it has. *)
QueryFails ==
    /\ CallErrors
    /\ phase = "query"
    /\ phase' = "account"
    /\ failed' = failed \cup {"query"}
    /\ UNCHANGED <<volatile, answer, pending, database, ex, entries, crashes>>

(* reconcile_diff *)
Stale      == {s \in Recorded : answer[s] = 0}
Mismatched == {s \in Recorded : answer[s] > 0 /\ answer[s] # live_positions[s]}
Unknown    == {s \in Symbols \ Recorded : answer[s] > 0}

(* Mutant: phantoms stay recorded. *)
ReconcileKeepsPhantoms ==
    /\ phase = "reconcile"
    /\ live_positions' = [s \in Symbols |-> IF s \in Mismatched THEN answer[s]
                                            ELSE live_positions[s]]
    /\ unknown' = Unknown
    /\ position_writes' = position_writes \cup {live_positions'}
    /\ phase' = "account"
    /\ UNCHANGED <<closed_trades_total, pc, answer, account_writes, database, ex, history>>

(* Mutant: an empty snapshot is a cold start with nothing to compare. *)
ReconcileIfRecorded ==
    /\ phase = "reconcile"
    /\ live_positions' = [s \in Symbols |-> IF s \in Stale \cup Mismatched THEN answer[s]
                                            ELSE live_positions[s]]
    /\ unknown' = IF Recorded = {} THEN {} ELSE Unknown
    /\ position_writes' = position_writes \cup {live_positions'}
    /\ phase' = "account"
    /\ UNCHANGED <<closed_trades_total, pc, answer, account_writes, database, ex, history>>

(* reconcile_live_positions_with_exchange applies the plan: phantoms go,   *)
(* quantities follow the exchange, unknown positions are reported and not  *)
(* adopted, and the corrected map is persisted.                            *)
Reconcile ==
    /\ phase = "reconcile"
    /\ live_positions' = [s \in Symbols |-> IF s \in Stale \cup Mismatched THEN answer[s]
                                            ELSE live_positions[s]]
    /\ unknown' = Unknown
    /\ position_writes' = IF Stale \cup Mismatched \cup Unknown = {} THEN position_writes
                          ELSE position_writes \cup {live_positions'}
    /\ phase' = "account"
    /\ UNCHANGED <<closed_trades_total, pc, answer, account_writes, database, ex, history>>

(* hydrate_account_state_from_db, from zero if the row cannot be read;     *)
(* then the fleet and the cycle start.                                     *)
HydrateAccount ==
    /\ phase = "account"
    /\ closed_trades_total' \in {db_closed} \cup (IF DbErrors THEN {0} ELSE {})
    /\ phase' = "run"
    /\ UNCHANGED <<live_positions, pc, unknown, answer, pending, database, ex, history>>

-----------------------------------------------------------------------------
(* The handlers, cut where a crash may fall *)

Goto(s, stage) == pc' = [pc EXCEPT ![s] = stage]

(* open_paper_position: the entry order fills ... *)
Enter(s) ==
    /\ phase = "run"
    /\ pc[s] = "idle"
    /\ live_positions[s] = 0
    /\ entries < MaxEntries
    /\ entries' = entries + 1
    /\ ex' = IF Live THEN [ex EXCEPT ![s] = @ + 1] ELSE ex
    /\ Goto(s, "insert")
    /\ UNCHANGED <<phase, live_positions, closed_trades_total, unknown, answer, pending,
                   database, failed, crashes>>

(* ... and the position is recorded. *)
Insert(s) ==
    /\ pc[s] = "insert"
    /\ live_positions' = [live_positions EXCEPT ![s] = 1]
    /\ Goto(s, "persist")
    /\ UNCHANGED <<phase, closed_trades_total, unknown, answer, pending, database, ex,
                   history>>

(* close_paper_position: the record goes first ... *)
Take(s) ==
    /\ phase = "run"
    /\ pc[s] = "idle"
    /\ live_positions[s] > 0
    /\ live_positions' = [live_positions EXCEPT ![s] = 0]
    /\ Goto(s, IF Live THEN "sell" ELSE "archive")
    /\ UNCHANGED <<phase, closed_trades_total, unknown, answer, pending, database, ex,
                   history>>

(* Mutant: the recorded quantity is sold, whatever the exchange holds. *)
SellBlind(s) ==
    /\ pc[s] = "sell"
    /\ \/ ex' = [ex EXCEPT ![s] = @ - 1] /\ UNCHANGED failed
       \/ CallErrors /\ failed' = failed \cup {"close"} /\ UNCHANGED ex
    /\ Goto(s, "archive")
    /\ UNCHANGED <<phase, live_positions, closed_trades_total, unknown, answer, pending,
                   database, entries, crashes>>

(* ... then close_position sells what the exchange holds, or fails ... *)
Sell(s) ==
    /\ pc[s] = "sell"
    /\ \/ ex' = [ex EXCEPT ![s] = 0] /\ UNCHANGED failed
       \/ CallErrors /\ failed' = failed \cup {"close"} /\ UNCHANGED ex
    /\ Goto(s, "archive")
    /\ UNCHANGED <<phase, live_positions, closed_trades_total, unknown, answer, pending,
                   database, entries, crashes>>

(* ... and the trade is counted all the same. *)
Archive(s) ==
    /\ pc[s] = "archive"
    /\ closed_trades_total' = closed_trades_total + 1
    /\ Goto(s, "persist")
    /\ UNCHANGED <<phase, live_positions, unknown, answer, pending, database, ex, history>>

(* persist_open_positions_snapshot: the map as it is now, to a new task. *)
PersistPositions(s) ==
    /\ pc[s] = "persist"
    /\ position_writes' = position_writes \cup {live_positions}
    /\ Goto(s, "account")
    /\ UNCHANGED <<phase, live_positions, closed_trades_total, unknown, answer,
                   account_writes, database, ex, history>>

(* persist_account_state *)
PersistAccount(s) ==
    /\ pc[s] = "account"
    /\ account_writes' = account_writes \cup {closed_trades_total}
    /\ Goto(s, "idle")
    /\ UNCHANGED <<phase, live_positions, closed_trades_total, unknown, answer,
                   position_writes, database, ex, history>>

-----------------------------------------------------------------------------
(* spawn_db_write: whichever task gets DB_PERSIST_LOCK next writes its row. *)
WritePositions ==
    \E map \in position_writes :
        /\ position_writes' = position_writes \ {map}
        /\ db_positions' \in {map} \cup (IF DbErrors THEN {db_positions} ELSE {})
        /\ UNCHANGED <<phase, volatile, answer, account_writes, db_closed, ex, history>>

WriteAccount ==
    \E total \in account_writes :
        /\ account_writes' = account_writes \ {total}
        /\ db_closed' \in {total} \cup (IF DbErrors THEN {db_closed} ELSE {})
        /\ UNCHANGED <<phase, volatile, answer, position_writes, db_positions, ex, history>>

(* A protection order triggers or the operator sells by hand. *)
ExchangeReduces(s) ==
    /\ ex[s] > 0
    /\ ex' = [ex EXCEPT ![s] = @ - 1]
    /\ UNCHANGED <<phase, volatile, answer, pending, database, history>>

(* The process ends between any two steps; detached tasks end with it. *)
Crash ==
    /\ crashes < MaxCrashes
    /\ crashes' = crashes + 1
    /\ phase' = "hydrate"
    /\ live_positions' = NoPosition
    /\ closed_trades_total' = 0
    /\ pc' = [s \in Symbols |-> "idle"]
    /\ answer' = NoPosition
    /\ unknown' = {}
    /\ position_writes' = {}
    /\ account_writes' = {}
    /\ UNCHANGED <<database, ex, entries, failed>>

Next ==
    \/ Hydrate \/ QueryAnswered \/ QueryFails \/ Reconcile \/ HydrateAccount
    \/ \E s \in Symbols :
         \/ Enter(s) \/ Insert(s) \/ Take(s) \/ Sell(s) \/ Archive(s)
         \/ PersistPositions(s) \/ PersistAccount(s) \/ ExchangeReduces(s)
    \/ WritePositions \/ WriteAccount \/ Crash

Spec == Init /\ [][Next]_vars

-----------------------------------------------------------------------------
Quantities == [Symbols -> Nat]
Phases == {"hydrate", "query", "reconcile", "account", "run"}

TypeOK ==
    /\ phase \in Phases
    /\ live_positions \in Quantities
    /\ closed_trades_total \in Nat
    /\ pc \in [Symbols -> {"idle", "insert", "sell", "archive", "persist", "account"}]
    /\ answer \in Quantities
    /\ unknown \subseteq Symbols
    /\ position_writes \subseteq Quantities
    /\ account_writes \subseteq Nat
    /\ db_positions \in Quantities
    /\ db_closed \in Nat
    /\ ex \in Quantities
    /\ entries \in Nat
    /\ failed \subseteq {"query", "close"}
    /\ crashes \in Nat

(* Wherever a crash cut an entry or a close, and whatever the snapshot it  *)
(* left, the engine that trades again has no position it neither records,  *)
(* nor is working on, nor has reported as unknown -- as long as the boot   *)
(* query and the close orders are answered (persistence.rs 247-256).       *)
NoSilentOrphan ==
    phase = "run" /\ failed = {} =>
        \A s \in Symbols : ex[s] > 0 => s \in Recorded \cup unknown \/ pc[s] # "idle"

(* A recorded position, or one in a closer's hands, stands for a trade yet *)
(* to be counted: a stale snapshot never makes the live account count the  *)
(* same position twice, because reconciliation drops the phantoms first.   *)
NeverOvercounted ==
    phase = "run" /\ failed = {} =>
        closed_trades_total + Cardinality(Recorded)
          + Cardinality({s \in Symbols : pc[s] \in {"sell", "archive"}}) <= entries

(* Reconciliation removes only what the exchange no longer holds; a failed *)
(* query removes nothing ("query hatasi # flat", persistence.rs 254-255).  *)
Booting == phase \in {"query", "reconcile", "account"} /\ phase' # "hydrate"

BootSparesHeld ==
    [][Booting => \A s \in Recorded : live_positions'[s] = 0 => ex[s] = 0]_vars

-----------------------------------------------------------------------------
(* positions_close.rs 538-539: the map is written after every close, the   *)
(* empty one included, so that a restart finds what is closed closed.      *)
(* Once the handlers are done and no write is pending, the snapshot then   *)
(* has no position the engine has closed.                                  *)
ClosedOnDisk ==
    phase = "run" /\ position_writes = {} /\ (\A s \in Symbols : pc[s] = "idle")
      => \A s \in Symbols : db_positions[s] > 0 => live_positions[s] > 0

=============================================================================
