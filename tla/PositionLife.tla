---------------------------- MODULE PositionLife -----------------------------
(***************************************************************************)
(* What becomes of one symbol's positions, without locks, orders or fills: *)
(* a position is recorded once, when no other is in the map, and is in one *)
(* place ever after.  It moves on only: to the closer that takes it and    *)
(* from there to the archive, or straight to the archive when the symbol   *)
(* is purged.  A closer has one position at a time.                        *)
(***************************************************************************)
EXTENDS Integers

CONSTANTS Openings, Closers     \* Openings are numbered in the order they are recorded

VARIABLE places                 \* opening -> the places its position is in

lifeVars == <<places>>

Vacant(place) == \A o \in Openings : place \notin places[o]
Moves(o, from, to) == places[o] = {from} /\ places' = [places EXCEPT ![o] = {to}]

Init == places = [o \in Openings |-> {}]

Record(o) ==
    /\ Vacant("map")
    /\ \A n \in Openings : n >= o => places[n] = {}
    /\ places' = [places EXCEPT ![o] = {"map"}]

Take(o, c) == Vacant(c) /\ Moves(o, "map", c)
Settle(o, c) == Moves(o, c, "archive")
WriteOff(o) == Moves(o, "map", "archive")

Step ==
    \E o \in Openings :
        Record(o) \/ WriteOff(o) \/ \E c \in Closers : Take(o, c) \/ Settle(o, c)

\* Every step moves a position; asked first, it spares the search for one that did not.
Next == (\E o \in Openings : places'[o] # places[o]) /\ Step

Spec == Init /\ [][Next]_lifeVars

=============================================================================
