----------------------------- MODULE EquityBook -----------------------------
(***************************************************************************)
(* The engine's equity beside the exchange's wallet, through the life of   *)
(* one long position: what opening, partial fills, closing and purging     *)
(* book (engines/master/positions.rs, userdata.rs, positions_close.rs,     *)
(* persistence.rs), and the balance sync that sets one to the other        *)
(* (fleet_sync.rs spawn_balance_sync).                                     *)
(*                                                                         *)
(* Prices and the commission of a unit are whole units; one protection     *)
(* order stands for both.  Left out: tranches, which have no order on the  *)
(* exchange, failing calls and the sync of open orders (LiveTrading), the  *)
(* next position, which late fills of this one would be booked on, spot,   *)
(* maker rates, and the peak.                                              *)
(***************************************************************************)
EXTENDS Integers, Sequences

CONSTANTS
    capital,
    Prices,              \* of market orders
    Fills,               \* where a protection order may fill, from the entry
    trailing_stop,       \* where the record has its trailing stop, from the entry
    commission,          \* of one unit
    Qty,
    autofix_after_n,
    Misread              \* a balance may be answered that cannot be parsed

BookingAssumption ==
    /\ capital \in Nat \ {0} /\ Prices \subseteq Nat /\ Fills \subseteq Int /\ trailing_stop \in Int
    /\ commission \in Nat /\ Qty \in Nat \ {0} /\ autofix_after_n \in Nat
    /\ Misread \in BOOLEAN

VARIABLES
    equity,              \* st.finance.equity
    position,            \* live_positions[symbol]
    opening,             \* the opener between the fill of its entry and the insertion
    closing,             \* closer -> the record it has taken out, and how far it is
    read,                \* a partial fill between its two looks at the position
    sync,                \* the balance the sync has been told
    consecutive_mismatch,
    delisted,
    opened,
    wallet,              \* exchange: totalWalletBalance
    held,                \* exchange: the position
    order,               \* exchange: the protection order, working or not
    stream,              \* exchange: events not yet handled
    disturbed            \* history: something the books do not see has happened

engine == <<equity, position, opening, closing, read>>
exchange == <<wallet, held, order, stream>>
repair == <<sync, consecutive_mismatch>>
bookVars == <<engine, exchange, repair, delisted, opened, disturbed>>

Closers == {"task", "stream"}
None == [qty |-> 0, entry |-> 0]
NotClosing == [at |-> "no", pos |-> None, exit |-> 0]
NoEvent == [kind |-> "none"]
NoBalance == [at |-> "idle", balance |-> 0]

\* What n units bought at `entry` bring when sold at `price`.
Net(n, entry, price) == n * (price - entry) - n * commission
Closing == {c \in Closers : closing[c].at # "no"}
\* Reports of the protection order that are not yet handled.
Sale(event) == event.kind = "filled" \/ event.side = "close"
Unbooked ==
    \/ \E i \in DOMAIN stream : Sale(stream[i])
    \/ read # NoEvent /\ Sale(read.event)

Init ==
    /\ equity = capital /\ wallet = capital
    /\ position = None /\ opening = None /\ held = None /\ order = "none"
    /\ closing = [c \in Closers |-> NotClosing]
    /\ read = NoEvent /\ stream = <<>> /\ sync = NoBalance /\ consecutive_mismatch = 0
    /\ delisted = FALSE /\ opened = FALSE /\ disturbed = FALSE

-----------------------------------------------------------------------------
(* The exchange.                                                           *)

Sold(n, price) ==
    /\ wallet' = wallet + Net(n, held.entry, price)
    /\ held' = IF n = held.qty THEN None ELSE [held EXCEPT !.qty = @ - n]

Partial(side, n, price) ==
    [kind |-> "partial", side |-> side, last_qty |-> n, price |-> price]

\* The protection order fills in part; the event tells its price.
TriggerInPart ==
    /\ order = "working" /\ held.qty > 1
    /\ \E level \in Fills :
         /\ Sold(1, held.entry + level)
         /\ stream' = Append(stream, Partial("close", 1, held.entry + level))
    /\ disturbed' = (disturbed \/ Closing # {})
    /\ UNCHANGED <<engine, order, repair, delisted, opened>>

\* It fills: the handler will book what is left at the trailing stop, whichever of the
\* orders filled and wherever.
Trigger ==
    /\ order = "working" /\ held.qty > 0
    /\ order' = "none"
    /\ \E level \in Fills :
         /\ Sold(held.qty, held.entry + level)
         /\ disturbed' = (disturbed \/ level # trailing_stop \/ Closing # {})
    /\ stream' = Append(stream, [kind |-> "filled"])
    /\ UNCHANGED <<engine, repair, delisted, opened>>

-----------------------------------------------------------------------------
(* The symbol's task opens.                                                *)

EntryFills ==
    /\ ~opened /\ opened' = TRUE /\ ~delisted
    /\ \E price \in Prices, parts \in BOOLEAN :
         /\ opening' = [qty |-> Qty, entry |-> price]
         /\ held' = opening'
         /\ stream' = IF parts /\ Qty > 1
                      THEN Append(stream, Partial("entry", 1, price))
                      ELSE stream
    /\ wallet' = wallet - Qty * commission
    /\ order' = "working"
    /\ UNCHANGED <<equity, position, closing, read, repair, delisted, disturbed>>

Insert ==
    /\ opening # None
    /\ position' = opening /\ opening' = None
    /\ equity' = equity - opening.qty * commission
    /\ UNCHANGED <<closing, read, exchange, repair, delisted, opened, disturbed>>

-----------------------------------------------------------------------------
(* The stream handler.                                                     *)

\* First look: side and entry price are read; an event without a position is dropped.
ReadPartial ==
    /\ read = NoEvent /\ stream # <<>> /\ Head(stream).kind = "partial"
    /\ stream' = Tail(stream)
    /\ read' = IF position = None THEN NoEvent
               ELSE [kind |-> "partial", event |-> Head(stream), entry |-> position.entry]
    /\ disturbed' = (disturbed \/ (Head(stream).side = "close" /\ opening # None))
    /\ UNCHANGED <<equity, position, opening, closing, wallet, held, order, repair, delisted,
                   opened>>

\* Mutant: the units sold stay in the record.
ApplyPartialKeepsQty ==
    /\ read # NoEvent /\ read' = NoEvent
    /\ LET ev == read.event
       IN  IF position = None
           THEN UNCHANGED <<equity, position, disturbed>>
           ELSE /\ position' = [position EXCEPT !.qty = IF ev.side = "close" THEN @ ELSE ev.last_qty]
                /\ equity' = equity + (IF ev.side = "close"
                                       THEN Net(ev.last_qty, read.entry, ev.price)
                                       ELSE -(ev.last_qty * commission))
                /\ disturbed' = (disturbed \/ ev.side = "entry")
    /\ UNCHANGED <<opening, closing, exchange, repair, delisted, opened>>

\* Second look: a sale is booked if the position is still there.  An entry's commission
\* is taken again, and the quantity set back.
ApplyPartial ==
    /\ read # NoEvent /\ read' = NoEvent
    /\ LET ev == read.event
           rest == IF position.qty > ev.last_qty THEN position.qty - ev.last_qty ELSE 0
       IN  IF position = None
           THEN UNCHANGED <<equity, position, disturbed>>
           ELSE /\ position' = [position EXCEPT
                                  !.qty = IF ev.side = "close" THEN rest ELSE ev.last_qty]
                /\ equity' = equity + (IF ev.side = "close"
                                       THEN Net(ev.last_qty, read.entry, ev.price)
                                       ELSE -(ev.last_qty * commission))
                /\ disturbed' = (disturbed \/ ev.side = "entry")
    /\ UNCHANGED <<opening, closing, exchange, repair, delisted, opened>>

\* The position leaves the map for a closer.
Taken(c) ==
    /\ closing[c].at = "no" /\ position # None
    /\ closing' = [closing EXCEPT ![c] = [NotClosing EXCEPT !.at = "taken", !.pos = position]]
    /\ position' = None

\* A filled protection order closes the position, if the handler finds it; if not, the
\* event is dropped for good.
FilledReport ==
    /\ read = NoEvent /\ closing["stream"].at = "no"
    /\ stream # <<>> /\ Head(stream).kind = "filled"
    /\ stream' = Tail(stream)
    /\ IF position = None THEN UNCHANGED <<position, closing>> ELSE Taken("stream")
    /\ disturbed' = (disturbed \/ opening # None)
    /\ UNCHANGED <<equity, opening, read, wallet, held, order, repair, delisted, opened>>

-----------------------------------------------------------------------------
(* Closing: cancel, sell what the exchange holds, book what was taken out. *)

TaskCloses ==
    /\ Taken("task")
    /\ disturbed' = (disturbed \/ Unbooked)
    /\ UNCHANGED <<equity, opening, read, exchange, repair, delisted, opened>>

Cancel(c) ==
    /\ closing[c].at = "taken"
    /\ closing' = [closing EXCEPT ![c].at = "cancelled"]
    /\ order' = "none"
    /\ UNCHANGED <<equity, position, opening, read, wallet, held, stream, repair, delisted,
                   opened, disturbed>>

\* Nothing held is an error that is only logged: the exit stays the trailing stop for the
\* handler, the last price for the task.
MarketClose(c) ==
    /\ closing[c].at = "cancelled"
    /\ \E price \in Prices, parts \in BOOLEAN :
         /\ closing' = [closing EXCEPT
                          ![c].at = "sold",
                          ![c].exit = IF held.qty > 0 \/ c = "task" THEN price
                                      ELSE closing[c].pos.entry + trailing_stop]
         /\ IF held.qty > 0 THEN Sold(held.qty, price) ELSE UNCHANGED <<wallet, held>>
         /\ stream' = IF parts /\ held.qty > 1
                      THEN Append(stream, Partial("close", 1, price))
                      ELSE stream
    /\ UNCHANGED <<equity, position, opening, read, order, repair, delisted, opened, disturbed>>

\* The whole record is booked at one price: fills the exchange made and the handler had
\* not yet applied are lost in it.
Archive(c) ==
    /\ closing[c].at = "sold"
    /\ equity' = equity + Net(closing[c].pos.qty, closing[c].pos.entry, closing[c].exit)
    /\ closing' = [closing EXCEPT ![c] = NotClosing]
    /\ UNCHANGED <<position, opening, read, exchange, repair, delisted, opened, disturbed>>

\* purge_delisted_symbol books a profit of zero and no exit.
Delist ==
    /\ ~delisted /\ delisted' = TRUE
    /\ position' = None
    /\ disturbed' = (disturbed \/ position # None)
    /\ UNCHANGED <<equity, opening, closing, read, exchange, repair, opened>>

-----------------------------------------------------------------------------
(* The balance sync.                                                       *)

Settled == opening = None /\ Closing = {} /\ read = NoEvent /\ stream = <<>>

BalanceAnswered ==
    /\ sync.at = "idle"
    /\ \E balance \in {wallet} \cup (IF Misread THEN {0} ELSE {}) :
         sync' = [at |-> "answered", balance |-> balance]
    /\ UNCHANGED <<engine, exchange, consecutive_mismatch, delisted, opened, disturbed>>

\* The difference is taken relative to the equity: at zero, or below, it is none.
Mismatch == equity > 0 /\ sync.balance # equity

Compare ==
    /\ sync.at = "answered"
    /\ IF Mismatch
       THEN LET count == consecutive_mismatch + 1
            IN  IF autofix_after_n > 0 /\ count >= autofix_after_n
                THEN sync' = [sync EXCEPT !.at = "fix"] /\ UNCHANGED consecutive_mismatch
                ELSE /\ sync' = NoBalance
                     /\ consecutive_mismatch' = IF autofix_after_n = 0 THEN 0 ELSE count
       ELSE sync' = NoBalance /\ consecutive_mismatch' = 0
    /\ UNCHANGED <<engine, exchange, delisted, opened, disturbed>>

\* The balance is as old as its answer: a fill it has seen may be booked later, and one
\* booked meanwhile is undone.
Autofix ==
    /\ sync.at = "fix"
    /\ equity' = sync.balance /\ sync' = NoBalance /\ consecutive_mismatch' = 0
    /\ disturbed' = ~(Settled /\ sync.balance = wallet /\ position = held)
    /\ UNCHANGED <<position, opening, closing, read, exchange, delisted, opened>>

Next ==
    \/ TriggerInPart \/ Trigger
    \/ EntryFills \/ Insert
    \/ ReadPartial \/ ApplyPartial \/ FilledReport
    \/ TaskCloses \/ \E c \in Closers : Cancel(c) \/ MarketClose(c) \/ Archive(c)
    \/ Delist
    \/ BalanceAnswered \/ Compare \/ Autofix

Spec == Init /\ [][Next]_bookVars

-----------------------------------------------------------------------------

TypeOK ==
    /\ equity \in Int /\ wallet \in Int
    /\ {position.qty, held.qty, opening.qty} \subseteq 0 .. Qty
    /\ consecutive_mismatch \in 0 .. autofix_after_n

\* Once nothing is in flight the equity is what the exchange's wallet holds, partial
\* fills, closers racing for one record and repairs included, unless something happened
\* that the books cannot see: a protection order beside the trailing stop, an entry reported in
\* parts, a close overtaken by a fill, a fill or a purge without a record, or a repair
\* in the middle of it; and a repair at rest makes them equal again.
EquityIsWallet == Settled /\ ~disturbed => equity = wallet

=============================================================================
