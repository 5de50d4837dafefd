---------------------------- MODULE PositionSize ----------------------------
(***************************************************************************)
(* How the quantity of one generic symbol's position comes about           *)
(* (engines/master/graded_entry.rs, userdata.rs process_partial_fill).     *)
(* Four writers change live_positions[symbol]: the opener inserts it with  *)
(* its first tranche, the symbol's task adds the other tranches, the       *)
(* stream handler applies partial fills as they are reported, and closers  *)
(* take the record out.  graded_tranches[symbol] is a second map, cleared  *)
(* only when a close has come to its end.                                  *)
(*                                                                         *)
(* Quantities are counted in units: EntryQty for the opening, one for each *)
(* later tranche.  Left out: prices, regimes and thresholds (a decided     *)
(* tranche may be dropped), failing calls, protection orders that are      *)
(* refused (LiveTrading), and basket symbols, which the code turns away.   *)
(***************************************************************************)
EXTENDS Integers, Sequences, FiniteSets

CONSTANTS
    tranche_count,  \* number of weights in GradedEntryParams
    enabled,        \* GradedEntryParams.enabled
    EntryQty,       \* units an opening buys
    InParts,        \* does the exchange report fills in parts ?
    MaxOpenings     \* bound on the openings explored

\* What the values have to be (checked by the instances, assumed by the proofs).
SizeAssumption ==
    /\ tranche_count \in Nat /\ MaxOpenings \in Nat
    /\ EntryQty \in Nat \ {0}
    /\ enabled \in BOOLEAN /\ InParts \in BOOLEAN

Closers  == {"task", "ws", "psync"}
Openings == 1 .. MaxOpenings

NoPosition == [id |-> 0, qty |-> 0, tranches |-> <<>>]
NoState    == [target |-> 0, tranches_filled |-> 0]
NoEvent    == [kind |-> "none", id |-> 0, units |-> 0]

VARIABLES
    position,  \* live_positions[symbol]; a tranche is <<opening whose target sized it, index>>
    graded,    \* graded_tranches[symbol]
    stage,     \* the symbol's task: "idle", "buying", "bought", "decided" or "closing"
    read,      \* the graded state the task decided on
    partial,   \* the partial fill the stream handler has classified, and not yet applied
    closing,   \* [Closers -> "no", "taken" or "sold"]
    removed,   \* [Closers -> position taken out and not yet archived]
    archived,  \* positions of closed trades
    opened,    \* openings so far
    delisted,  \* has the symbol been purged ?
    exchange,  \* units the exchange holds
    stream     \* fills reported and not yet handled, in order

task   == <<stage, read>>
closes == <<closing, removed, archived, delisted>>
vars == <<position, graded, task, partial, closes, opened, exchange, stream>>

Init ==
    /\ position = NoPosition /\ graded = NoState
    /\ stage = "idle" /\ read = NoState
    /\ partial = NoEvent
    /\ closing = [c \in Closers |-> "no"]
    /\ removed = [c \in Closers |-> NoPosition]
    /\ archived = {} /\ delisted = FALSE
    /\ opened = 0 /\ exchange = 0
    /\ stream = <<>>

Graded == enabled /\ tranche_count >= 2

\* What the exchange reports of an order for n units: all at once, or one unit first.
Reports(part, full, id, n) ==
    {<<[kind |-> full, id |-> id, units |-> n]>>}
        \cup IF InParts /\ n > 1
             THEN {<<[kind |-> part, id |-> id, units |-> 1], [kind |-> full, id |-> id, units |-> n]>>}
             ELSE {}

-----------------------------------------------------------------------------
(* The symbol's task *)

\* No open position: the cycle goes on to open one and awaits the exchange.
BeginOpening ==
    /\ stage = "idle" /\ position = NoPosition
    /\ opened < MaxOpenings /\ ~delisted
    /\ stage' = "buying"
    /\ UNCHANGED <<position, graded, read, partial, closes, opened, exchange, stream>>

\* The entry fills; its reports are on their way before the task hears of it.
EntryFills ==
    /\ stage = "buying"
    /\ stage' = "bought"
    /\ opened' = opened + 1
    /\ exchange' = exchange + EntryQty
    /\ \E r \in Reports("entry_part", "plain_full", opened', EntryQty) : stream' = stream \o r
    /\ UNCHANGED <<position, graded, read, partial, closes>>

\* Mutant: an existing graded state is kept (or_insert in place of insert).
InsertKeepsState ==
    /\ stage = "bought"
    /\ position' = [id |-> opened, qty |-> EntryQty, tranches |-> << <<opened, 0>> >>]
    /\ graded' = IF Graded /\ graded = NoState
                 THEN [target |-> opened, tranches_filled |-> 1] ELSE graded
    /\ stage' = "idle"
    /\ UNCHANGED <<read, partial, closes, opened, exchange, stream>>

\* The opening is recorded; with graded entry on it is the first tranche.
Insert ==
    /\ stage = "bought"
    /\ position' = [id |-> opened, qty |-> EntryQty, tranches |-> << <<opened, 0>> >>]
    /\ graded' = IF Graded THEN [target |-> opened, tranches_filled |-> 1] ELSE graded
    /\ stage' = "idle"
    /\ UNCHANGED <<read, partial, closes, opened, exchange, stream>>

\* First lock: an open position with tranches left; the graded state is copied out.
Decide ==
    /\ stage = "idle" /\ Graded
    /\ position # NoPosition
    /\ graded # NoState /\ graded.tranches_filled < tranche_count
    /\ read' = graded
    /\ stage' = "decided"
    /\ UNCHANGED <<position, graded, partial, closes, opened, exchange, stream>>

\* Regime, higher time frame or price movement do not ask for the tranche.
Decline ==
    /\ stage = "decided"
    /\ stage' = "idle" /\ read' = NoState
    /\ UNCHANGED <<position, graded, partial, closes, opened, exchange, stream>>

\* Second lock: whatever position is there now grows by the tranche decided on.
\* No order is sent: the exchange's amount stays.
AddTranche ==
    /\ stage = "decided"
    /\ stage' = "idle" /\ read' = NoState
    /\ IF position = NoPosition
       THEN UNCHANGED <<position, graded>>
       ELSE /\ position' = [position EXCEPT
                   !.qty = @ + 1,
                   !.tranches = Append(@, <<read.target, read.tranches_filled>>)]
            /\ graded' = IF graded = NoState THEN graded
                         ELSE [graded EXCEPT !.tranches_filled = @ + 1]
    /\ UNCHANGED <<partial, closes, opened, exchange, stream>>

-----------------------------------------------------------------------------
(* The stream handler *)

\* process_partial_fill, first lock: the symbol has a position.  Its order is not looked at.
ReadPartial ==
    /\ partial = NoEvent /\ closing["ws"] = "no"
    /\ stream # <<>> /\ Head(stream).kind \in {"entry_part", "exit_part"}
    /\ partial' = IF position = NoPosition THEN NoEvent ELSE Head(stream)
    /\ stream' = Tail(stream)
    /\ UNCHANGED <<position, graded, task, closes, opened, exchange>>

\* Mutant: the record read before is put back if it has gone.
ApplyPartialPutsBack ==
    /\ partial # NoEvent
    /\ partial' = NoEvent
    /\ position' = [id |-> partial.id, qty |-> partial.units, tranches |-> position.tranches]
    /\ UNCHANGED <<graded, task, closes, opened, exchange, stream>>

\* Second lock: an entry sets the quantity to what has been filled so far, an exit
\* subtracts; nothing happens if the position has gone.
ApplyPartial ==
    /\ partial # NoEvent
    /\ partial' = NoEvent
    /\ position' =
         IF position = NoPosition THEN position
         ELSE [position EXCEPT !.qty =
                 IF partial.kind = "entry_part" THEN partial.units
                 ELSE IF @ > partial.units THEN @ - partial.units ELSE 0]
    /\ UNCHANGED <<graded, task, closes, opened, exchange, stream>>

\* process_user_fill_status: only the fill of one of its protection orders closes a
\* position; the fill of an entry is dropped.
FilledReport ==
    /\ partial = NoEvent /\ closing["ws"] = "no"
    /\ stream # <<>> /\ Head(stream).kind \in {"plain_full", "exit_full"}
    /\ stream' = Tail(stream)
    /\ IF Head(stream).kind = "exit_full" /\ position # NoPosition /\ position.id = Head(stream).id
       THEN /\ removed' = [removed EXCEPT !["ws"] = position]
            /\ closing' = [closing EXCEPT !["ws"] = "taken"]
            /\ position' = NoPosition
       ELSE UNCHANGED <<removed, closing, position>>
    /\ UNCHANGED <<graded, task, partial, archived, delisted, opened, exchange>>

-----------------------------------------------------------------------------
(* Closers *)

\* close_paper_position takes the record out; the task does so only between stretches.
Remove(c) ==
    /\ position # NoPosition /\ closing[c] = "no"
    /\ IF c = "task" THEN stage = "idle" /\ stage' = "closing" ELSE stage' = stage
    /\ removed' = [removed EXCEPT ![c] = position]
    /\ closing' = [closing EXCEPT ![c] = "taken"]
    /\ position' = NoPosition
    /\ UNCHANGED <<graded, read, partial, archived, delisted, opened, exchange, stream>>

\* The market order sells what the exchange holds of the symbol.
Sell(c) ==
    /\ closing[c] = "taken"
    /\ closing' = [closing EXCEPT ![c] = "sold"]
    /\ exchange' = 0
    /\ IF exchange = 0 THEN stream' = stream
       ELSE \E r \in Reports("exit_part", "plain_full", removed[c].id, exchange) : stream' = stream \o r
    /\ UNCHANGED <<position, graded, task, partial, removed, archived, delisted, opened>>

\* Mutant: the graded state is left to the next opening.
ArchiveKeepsState(c) ==
    /\ closing[c] = "sold"
    /\ archived' = archived \cup {removed[c]}
    /\ removed' = [removed EXCEPT ![c] = NoPosition]
    /\ closing' = [closing EXCEPT ![c] = "no"]
    /\ stage' = IF c = "task" THEN "idle" ELSE stage
    /\ UNCHANGED <<position, graded, read, partial, delisted, opened, exchange, stream>>

\* The trade is archived and the symbol's graded state dropped.
Archive(c) ==
    /\ closing[c] = "sold"
    /\ archived' = archived \cup {removed[c]}
    /\ graded' = NoState
    /\ removed' = [removed EXCEPT ![c] = NoPosition]
    /\ closing' = [closing EXCEPT ![c] = "no"]
    /\ stage' = IF c = "task" THEN "idle" ELSE stage
    /\ UNCHANGED <<position, read, partial, delisted, opened, exchange, stream>>

\* purge_delisted_symbol takes and archives at once; the graded state stays.
Delist ==
    /\ ~delisted /\ delisted' = TRUE
    /\ archived' = IF position = NoPosition THEN archived ELSE archived \cup {position}
    /\ position' = NoPosition
    /\ UNCHANGED <<graded, task, partial, closing, removed, opened, exchange, stream>>

-----------------------------------------------------------------------------
(* The exchange: a protection order of the newest entry triggers, in one or two parts. *)

Trigger ==
    /\ exchange > 0 /\ stage # "bought"
    /\ exchange' = 0
    /\ \E r \in Reports("exit_part", "exit_full", opened, exchange) : stream' = stream \o r
    /\ UNCHANGED <<position, graded, task, partial, closes, opened>>

Next ==
    \/ BeginOpening \/ EntryFills \/ Insert
    \/ Decide \/ Decline \/ AddTranche
    \/ ReadPartial \/ ApplyPartial \/ FilledReport
    \/ \E c \in Closers : Sell(c) \/ Archive(c)
    \/ \E c \in {"task", "psync"} : Remove(c)
    \/ Delist \/ Trigger

Spec == Init /\ [][Next]_vars

-----------------------------------------------------------------------------
(* Properties *)

Positions == {position} \cup {removed[c] : c \in Closers} \cup archived

TypeOK ==
    /\ stage \in {"idle", "buying", "bought", "decided", "closing"}
    /\ \A c \in Closers : closing[c] \in {"no", "taken", "sold"}
    /\ opened \in 0 .. MaxOpenings
    /\ exchange \in Nat /\ position.qty \in Nat
    /\ graded.tranches_filled \in 0 .. tranche_count
    /\ (closing["task"] # "no") <=> stage = "closing"

\* Whatever closers, purge and late fills do between the two locks of a tranche, a
\* position is made of the first tranches of its own target, each of them once.
OwnTranchesInOrder ==
    \A p \in Positions :
        /\ p.id > 0 => Len(p.tranches) <= IF Graded THEN tranche_count ELSE 1
        /\ \A i \in DOMAIN p.tranches : p.tranches[i] = <<p.id, i - 1>>

\* A position is recorded, in one closer's hands or archived, never two of these: no
\* writer that read it before a close puts it back.
RecordedOnce ==
    \A o \in Openings :
        (IF position.id = o THEN 1 ELSE 0)
            + Cardinality({c \in Closers : removed[c].id = o})
            + Cardinality({p \in archived : p.id = o}) <= 1

\* Where the position of opening o is: in the map, in a closer's hands, in the archive.
Where(o) ==
    {c \in Closers : removed[c].id = o}
        \cup (IF position.id = o THEN {"map"} ELSE {})
        \cup (IF \E p \in archived : p.id = o THEN {"archive"} ELSE {})

Life == INSTANCE PositionLife WITH places <- [o \in Openings |-> Where(o)]

\* What four writers, two looks of the stream handler and the purge do to the map is, for
\* each position, one life: recorded once, moved on from place to place and never back, so
\* that no late fill or tranche revives what a closer has taken.
PositionsMoveOn == Life!Spec

\* A graded state without a position belongs to a close still under way, which will
\* drop it: it never sizes the tranches of a later position (a delisted symbol, whose
\* state stays, is not opened again).
StateHasOwner ==
    graded # NoState =>
        position # NoPosition \/ delisted \/ \E c \in Closers : closing[c] # "no"

\* userdata.rs:119: an entry fill aligns the quantity with what the exchange has filled
\* ("gerçekte bu kadar tutuyoruz").  Once every report has been handled, and with
\* nobody opening or closing, the recorded quantity is the exchange's.
AlignedWithExchange ==
    (/\ position # NoPosition /\ stream = <<>> /\ partial = NoEvent
     /\ stage = "idle" /\ \A c \in Closers : closing[c] = "no")
        => position.qty = exchange

=============================================================================
