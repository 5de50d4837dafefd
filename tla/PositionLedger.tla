--------------------------- MODULE PositionLedger ---------------------------
(***************************************************************************)
(* What the engine promises about its books, without tasks, locks or an    *)
(* exchange: a symbol holds at most one position; a position that leaves   *)
(* the map is settled exactly once; and positions of generic symbols are   *)
(* recorded only below the concurrency cap of their direction.             *)
(***************************************************************************)
EXTENDS Integers, FiniteSets

CONSTANTS Generic, Book, CapLong, CapShort

VARIABLES
    held,      \* [Symbols -> direction of the open position, or "none"]
    unsettled, \* [Symbols -> positions taken out of the map, not archived]
    archived   \* [Symbols -> archived trades]

vars == <<held, unsettled, archived>>

Symbols == Generic \cup Book
Dirs    == {"long", "short"}
Cap(d)  == IF d = "long" THEN CapLong ELSE CapShort

Init ==
    /\ held = [s \in Symbols |-> "none"]
    /\ unsettled = [s \in Symbols |-> 0]
    /\ archived = [s \in Symbols |-> 0]

Record(s, d) ==
    /\ held[s] = "none"
    /\ s \in Generic /\ Cap(d) > 0 => Cardinality({t \in Generic : held[t] = d}) < Cap(d)
    /\ held' = [held EXCEPT ![s] = d]
    /\ UNCHANGED <<unsettled, archived>>

Take(s) ==
    /\ held[s] # "none"
    /\ held' = [held EXCEPT ![s] = "none"]
    /\ unsettled' = [unsettled EXCEPT ![s] = @ + 1]
    /\ UNCHANGED archived

Settle(s) ==
    /\ unsettled[s] > 0
    /\ unsettled' = [unsettled EXCEPT ![s] = @ - 1]
    /\ archived' = [archived EXCEPT ![s] = @ + 1]
    /\ UNCHANGED held

(* A delisted symbol's position is taken and settled in one step. *)
WriteOff(s) ==
    /\ held[s] # "none"
    /\ held' = [held EXCEPT ![s] = "none"]
    /\ archived' = [archived EXCEPT ![s] = @ + 1]
    /\ UNCHANGED unsettled

Next == \E s \in Symbols :
    (\E d \in Dirs : Record(s, d)) \/ Take(s) \/ Settle(s) \/ WriteOff(s)

Spec == Init /\ [][Next]_vars

=============================================================================
