------------------------- MODULE PositionParts_proofs -------------------------
(***************************************************************************)
(* What is proved of the components that look at one symbol, for every     *)
(* value of their parameters: first PositionSize, then EquityBook.         *)
(***************************************************************************)
EXTENDS PositionParts, FiniteSetTheorems, SequenceTheorems, TLAPS

-----------------------------------------------------------------------------
(***************************************************************************)
(* The quantity of a position, for any number of tranches and openings.    *)
(* The inductive invariant adds to the properties what the task may rely   *)
(* on between its two locks (Decided: the record it finds, if any, is the  *)
(* one it decided on, because only the task itself opens), and that every  *)
(* opening has an id no record has had before (Fresh).                     *)
(***************************************************************************)

Tranche == Size!Openings \X Nat
SizeHeld  == [id : Size!Openings, qty : Nat, tranches : Seq(Tranche)]
State == [target : Size!Openings, tranches_filled : 1 .. tranche_count]
SizeEvent == [kind : {"entry_part", "exit_part", "plain_full", "exit_full"}, id : Nat, units : Nat]

SizeTypes ==
    /\ size_stage \in {"idle", "buying", "bought", "decided", "closing"}
    /\ size_position \in SizeHeld \cup {Size!NoPosition}
    /\ graded \in State \cup {Size!NoState} /\ size_read \in State \cup {Size!NoState}
    /\ partial \in SizeEvent \cup {Size!NoEvent}
    /\ size_closing \in [Size!Closers -> {"no", "taken", "sold"}]
    /\ removed \in [Size!Closers -> SizeHeld \cup {Size!NoPosition}]
    /\ \A c \in Size!Closers : size_closing[c] # "no" => removed[c] \in SizeHeld
    /\ archived \subseteq SizeHeld
    /\ size_delisted \in BOOLEAN /\ size_opened \in 0 .. MaxOpenings /\ exchange \in Nat
    /\ size_stream \in Seq(SizeEvent)
    /\ (size_closing["task"] # "no") <=> size_stage = "closing"

(* While it buys the task holds no record, and the opening's id is new.     *)
Fresh ==
    /\ size_stage \in {"buying", "bought"} => size_position = Size!NoPosition
    /\ size_stage = "buying" => size_opened < MaxOpenings
    /\ size_stage = "bought" => size_opened > 0
    /\ \A p \in Size!Positions :
         p.id <= size_opened /\ (size_stage = "bought" => p.id < size_opened)

(* The graded state counts the tranches of the record beside it.            *)
Matches(p, s) == p # Size!NoPosition => s.target = p.id /\ s.tranches_filled = Len(p.tranches)

Decided ==
    /\ graded # Size!NoState => Size!Graded /\ Matches(size_position, graded)
    /\ size_stage = "decided" =>
         /\ size_read \in State /\ size_read.tranches_filled < tranche_count
         /\ Size!Graded /\ Matches(size_position, size_read)
         /\ graded \in {Size!NoState, size_read}

(* No two records of one opening.                                           *)
Separate ==
    /\ \A c \in Size!Closers : removed[c] # Size!NoPosition => removed[c].id # size_position.id
    /\ \A c, d \in Size!Closers : c # d /\ removed[c] # Size!NoPosition =>
         removed[c].id # removed[d].id
    /\ \A p \in archived : p.id # size_position.id /\ \A c \in Size!Closers : p.id # removed[c].id
    /\ \A p, q \in archived : p.id = q.id => p = q

SizeIInv == SizeTypes /\ Fresh /\ Decided /\ Separate /\ Size!OwnTranchesInOrder /\ Size!StateHasOwner

-----------------------------------------------------------------------------

LEMMA HeldIsRecord == Size!NoPosition \notin SizeHeld /\ \A p \in SizeHeld : p.id > 0
BY DEF SizeHeld, Size!NoPosition, Size!Openings

LEMMA StateIsState == Size!NoState \notin State
BY DEF State, Size!NoState, Size!Openings

LEMMA CloserNames == "task" \in Size!Closers /\ "ws" \in Size!Closers /\ "psync" \in Size!Closers
BY DEF Size!Closers

(* Reports of an order are events.                                          *)
LEMMA ReportsAreEvents ==
    ASSUME NEW part \in {"entry_part", "exit_part"}, NEW full \in {"plain_full",
           "exit_full"},
           NEW id \in Nat, NEW n \in Nat, NEW r \in Size!Reports(part, full, id, n)
    PROVE  r \in Seq(SizeEvent)
<1>1. [kind |-> full, id |-> id, units |-> n] \in SizeEvent BY DEF SizeEvent
<1>2. [kind |-> part, id |-> id, units |-> 1] \in SizeEvent BY DEF SizeEvent
<1>3. \/ r = <<[kind |-> full, id |-> id, units |-> n]>>
      \/ r = <<[kind |-> part, id |-> id, units |-> 1], [kind |-> full, id |-> id, units |-> n]>>
  BY DEF Size!Reports
<1>4. \A e, f \in SizeEvent : <<e>> \in Seq(SizeEvent) /\ <<e, f>> \in Seq(SizeEvent) OBVIOUS
<1> QED BY <1>1, <1>2, <1>3, <1>4

LEMMA SizeInitIInv == ASSUME Size!SizeAssumption, Size!Init PROVE SizeIInv
<1>1. SizeTypes
  <2>1. size_closing \in [Size!Closers -> {"no", "taken", "sold"}] /\ \A c \in Size!Closers :
      size_closing[c] = "no"
    BY DEF Size!Init
  <2>2. removed \in [Size!Closers -> SizeHeld \cup {Size!NoPosition}] BY DEF Size!Init
  <2>3. size_opened \in 0 .. MaxOpenings /\ exchange \in Nat
    BY DEF Size!Init, Size!SizeAssumption
  <2>4. size_stream \in Seq(SizeEvent) BY DEF Size!Init
  <2>5. size_delisted \in BOOLEAN /\ archived \subseteq SizeHeld BY DEF Size!Init
  <2>6. /\ size_stage = "idle" /\ size_position = Size!NoPosition /\ graded = Size!NoState
        /\ size_read = Size!NoState
        /\ partial = Size!NoEvent
    BY DEF Size!Init
  <2>7. (size_closing["task"] # "no") <=> size_stage = "closing"
    BY <2>1, <2>6, CloserNames
  <2> QED BY <2>1, <2>2, <2>3, <2>4, <2>5, <2>6, <2>7 DEF SizeTypes
<1>2. Size!Positions = {Size!NoPosition} BY CloserNames DEF Size!Init, Size!Positions
<1>3. Fresh BY <1>2 DEF Size!Init, Fresh, Size!NoPosition
<1>4. Decided BY DEF Size!Init, Decided
<1>5. Separate BY DEF Size!Init, Separate
<1>6. Size!OwnTranchesInOrder BY <1>2 DEF Size!OwnTranchesInOrder, Size!NoPosition
<1>7. Size!StateHasOwner BY DEF Size!Init, Size!StateHasOwner
<1> QED BY <1>1, <1>3, <1>4, <1>5, <1>6, <1>7 DEF SizeIInv

-----------------------------------------------------------------------------
(* The records the actions write. *)

LEMMA NewRecord ==
    ASSUME Size!SizeAssumption, SizeTypes, size_opened \in Size!Openings
    PROVE  [id |-> size_opened, qty |-> EntryQty,
            tranches |-> << <<size_opened, 0>> >>] \in SizeHeld
<1>1. <<size_opened, 0>> \in Tranche BY DEF Tranche
<1>2. << <<size_opened, 0>> >> \in Seq(Tranche) BY <1>1
<1>3. EntryQty \in Nat BY DEF Size!SizeAssumption
<1> QED BY <1>2, <1>3 DEF SizeHeld

LEMMA GrownRecord ==
    ASSUME NEW p \in SizeHeld, NEW t \in Tranche
    PROVE  [p EXCEPT !.qty = @ + 1, !.tranches = Append(@, t)] \in SizeHeld
<1>1. Append(p.tranches, t) \in Seq(Tranche) BY DEF SizeHeld
<1>2. p.qty + 1 \in Nat BY DEF SizeHeld
<1> QED BY <1>1, <1>2 DEF SizeHeld

LEMMA ResizedRecord ==
    ASSUME NEW p \in SizeHeld, NEW n \in Nat
    PROVE  [p EXCEPT !.qty = n] \in SizeHeld
BY DEF SizeHeld

LEMMA AppendedReports ==
    ASSUME NEW part \in {"entry_part", "exit_part"}, NEW full \in {"plain_full",
           "exit_full"},
           NEW id \in Nat, NEW n \in Nat, NEW r \in Size!Reports(part, full, id, n),
           NEW s \in Seq(SizeEvent)
    PROVE  s \o r \in Seq(SizeEvent)
<1>1. r \in Seq(SizeEvent) BY ReportsAreEvents
<1> QED BY <1>1

LEMMA TypesStep ==
    ASSUME Size!SizeAssumption, SizeIInv, [Size!Next]_Size!vars
    PROVE  SizeTypes'
<1> USE DEF SizeIInv
<1>1. CASE UNCHANGED Size!vars BY <1>1 DEF SizeTypes, Size!vars, Size!task, Size!closes
<1>2. CASE Size!BeginOpening BY <1>2 DEF Size!BeginOpening, SizeTypes, Size!closes
<1>3. CASE Size!EntryFills
  <2>1. size_opened' \in Nat /\ size_opened' \in 0 .. MaxOpenings
    BY <1>3 DEF Size!EntryFills, SizeTypes, Fresh, Size!SizeAssumption
  <2>2. size_stream' \in Seq(SizeEvent) /\ exchange' \in Nat
    BY <1>3, <2>1, AppendedReports DEF Size!EntryFills, SizeTypes, Size!SizeAssumption
  <2> QED BY <1>3, <2>1, <2>2 DEF Size!EntryFills, SizeTypes, Size!closes
<1>4. CASE Size!Insert
  <2>1. size_opened \in Size!Openings
    BY <1>4 DEF Size!Insert, SizeTypes, Fresh, Size!Openings, Size!SizeAssumption
  <2>2. size_position' \in SizeHeld BY <1>4, <2>1, NewRecord DEF Size!Insert
  <2>3. graded' \in State \cup {Size!NoState}
    BY <1>4, <2>1 DEF Size!Insert, State, SizeTypes, Size!Graded, Size!SizeAssumption
  <2> QED BY <1>4, <2>2, <2>3 DEF Size!Insert, SizeTypes, Size!closes
<1>5. CASE Size!Decide BY <1>5 DEF Size!Decide, SizeTypes, Size!closes
<1>6. CASE Size!Decline BY <1>6 DEF Size!Decline, SizeTypes, Size!closes
<1>7. CASE Size!AddTranche
  <2>1. /\ size_stage' = "idle" /\ size_read' = Size!NoState /\ size_stage = "decided"
        /\ UNCHANGED <<partial, Size!closes, size_opened, exchange, size_stream>>
    BY <1>7 DEF Size!AddTranche
  <2>2. size_read \in State /\ size_read.tranches_filled < tranche_count
    BY <2>1 DEF Decided
  <2>3. <<size_read.target, size_read.tranches_filled>> \in Tranche
    BY <2>2 DEF State, Tranche
  <2>4. size_position' \in SizeHeld \cup {Size!NoPosition}
    BY <1>7, <2>3, GrownRecord DEF Size!AddTranche, SizeTypes
  <2>5. graded' \in State \cup {Size!NoState}
    <3>1. CASE graded' = graded BY <3>1 DEF SizeTypes
    <3>2. CASE graded' # graded
      <4>1. graded # Size!NoState /\ graded' = [graded EXCEPT !.tranches_filled = @ + 1]
        BY <1>7, <3>2 DEF Size!AddTranche
      <4>2. graded = size_read BY <2>1, <4>1 DEF Decided
      <4>3. size_read.tranches_filled + 1 \in 1 .. tranche_count
        BY <2>2 DEF State, Size!SizeAssumption
      <4> QED BY <2>2, <4>1, <4>2, <4>3 DEF State
    <3> QED BY <3>1, <3>2
  <2> QED BY <2>1, <2>4, <2>5 DEF SizeTypes, Size!closes
<1>8. CASE Size!ReadPartial
  <2>1. Head(size_stream) \in SizeEvent /\ Tail(size_stream) \in Seq(SizeEvent)
    BY <1>8 DEF Size!ReadPartial, SizeTypes
  <2> QED BY <1>8, <2>1 DEF Size!ReadPartial, SizeTypes, Size!task, Size!closes
<1>9. CASE Size!ApplyPartial
  <2>1. partial \in SizeEvent BY <1>9 DEF Size!ApplyPartial, SizeTypes
  <2>2. size_position' \in SizeHeld \cup {Size!NoPosition}
    <3>1. CASE size_position = Size!NoPosition BY <1>9, <3>1 DEF Size!ApplyPartial
    <3>2. CASE size_position # Size!NoPosition
      <4>1. size_position \in SizeHeld BY <3>2 DEF SizeTypes
      <4>2. PICK n \in Nat : size_position' = [size_position EXCEPT !.qty = n]
        <5>1. partial.units \in Nat /\ size_position.qty \in Nat
          BY <2>1, <4>1 DEF SizeEvent, SizeHeld
        <5>2. size_position' = [size_position EXCEPT !.qty =
                  IF partial.kind = "entry_part" THEN partial.units
                  ELSE IF size_position.qty > partial.units THEN size_position.qty - partial.units ELSE 0]
          BY <1>9, <3>2 DEF Size!ApplyPartial
        <5> QED BY <5>1, <5>2
      <4> QED BY <4>1, <4>2, ResizedRecord
    <3> QED BY <3>1, <3>2
  <2> QED BY <1>9, <2>2 DEF Size!ApplyPartial, SizeTypes, Size!task, Size!closes
<1>10. CASE Size!FilledReport
  <2>1. Tail(size_stream) \in Seq(SizeEvent) BY <1>10 DEF Size!FilledReport, SizeTypes
  <2>2. CASE UNCHANGED <<removed, size_closing, size_position>>
    BY <1>10, <2>1, <2>2 DEF Size!FilledReport, SizeTypes, Size!task
  <2>3. CASE /\ size_position # Size!NoPosition /\ size_position' = Size!NoPosition
             /\ removed' = [removed EXCEPT !["ws"] = size_position]
             /\ size_closing' = [size_closing EXCEPT !["ws"] = "taken"]
    <3>1. size_position \in SizeHeld BY <2>3 DEF SizeTypes
    <3>2. /\ size_closing' \in [Size!Closers -> {"no", "taken", "sold"}]
          /\ removed' \in [Size!Closers -> SizeHeld \cup {Size!NoPosition}]
          /\ \A c \in Size!Closers : size_closing'[c] # "no" => removed'[c] \in SizeHeld
          /\ size_closing'["task"] = size_closing["task"]
      BY <2>3, <3>1, CloserNames DEF SizeTypes
    <3> QED BY <1>10, <2>1, <2>3, <3>2 DEF Size!FilledReport, SizeTypes, Size!task
  <2> QED BY <1>10, <2>2, <2>3 DEF Size!FilledReport
<1>11. ASSUME NEW c \in Size!Closers, Size!Sell(c) PROVE SizeTypes'
  <2>1. size_stream' \in Seq(SizeEvent)
    <3>1. removed[c].id \in Nat BY <1>11 DEF Size!Sell, SizeTypes, SizeHeld, Size!Openings
    <3> QED BY <1>11, <3>1, AppendedReports DEF Size!Sell, SizeTypes
  <2>2. /\ size_closing' \in [Size!Closers -> {"no", "taken", "sold"}]
        /\ \A d \in Size!Closers : size_closing'[d] # "no" <=> size_closing[d] # "no"
    BY <1>11 DEF Size!Sell, SizeTypes
  <2> QED BY <1>11, <2>1, <2>2, CloserNames DEF Size!Sell, SizeTypes, Size!task
<1>12. ASSUME NEW c \in Size!Closers, Size!Archive(c) PROVE SizeTypes'
  <2>1. removed[c] \in SizeHeld BY <1>12 DEF Size!Archive, SizeTypes
  <2>2. /\ size_closing' \in [Size!Closers -> {"no", "taken", "sold"}]
        /\ removed' \in [Size!Closers -> SizeHeld \cup {Size!NoPosition}]
        /\ \A d \in Size!Closers : size_closing'[d] # "no" => removed'[d] \in SizeHeld
    BY <1>12 DEF Size!Archive, SizeTypes
  <2>3. (size_closing'["task"] # "no") <=> size_stage' = "closing"
    BY <1>12, CloserNames DEF Size!Archive, SizeTypes
  <2>4. size_stage' \in {"idle", "buying", "bought", "decided", "closing"}
    BY <1>12 DEF Size!Archive, SizeTypes
  <2> QED BY <1>12, <2>1, <2>2, <2>3, <2>4 DEF Size!Archive, SizeTypes
<1>13. ASSUME NEW c \in {"task", "psync"}, Size!Remove(c) PROVE SizeTypes'
  <2>1. size_position \in SizeHeld /\ c \in Size!Closers
    BY <1>13 DEF Size!Remove, SizeTypes, Size!Closers
  <2>2. /\ size_closing' \in [Size!Closers -> {"no", "taken", "sold"}]
        /\ removed' \in [Size!Closers -> SizeHeld \cup {Size!NoPosition}]
        /\ \A d \in Size!Closers : size_closing'[d] # "no" => removed'[d] \in SizeHeld
    BY <1>13, <2>1 DEF Size!Remove, SizeTypes
  <2>3. (size_closing'["task"] # "no") <=> size_stage' = "closing"
    BY <1>13, <2>1, CloserNames DEF Size!Remove, SizeTypes
  <2>4. size_stage' \in {"idle", "buying", "bought", "decided", "closing"}
    BY <1>13 DEF Size!Remove, SizeTypes
  <2> QED BY <1>13, <2>2, <2>3, <2>4 DEF Size!Remove, SizeTypes
<1>14. CASE Size!Delist BY <1>14 DEF Size!Delist, SizeTypes, Size!task
<1>15. CASE Size!Trigger
  <2>1. size_stream' \in Seq(SizeEvent)
    BY <1>15, AppendedReports DEF Size!Trigger, SizeTypes
  <2> QED BY <1>15, <2>1 DEF Size!Trigger, SizeTypes, Size!task, Size!closes
<1> QED BY <1>1, <1>2, <1>3, <1>4, <1>5, <1>6, <1>7, <1>8, <1>9, <1>10, <1>11, <1>12,
           <1>13,
           <1>14, <1>15 DEF Size!Next

-----------------------------------------------------------------------------
(* Which records there are after a step.  Only Insert makes one and only    *)
(* AddTranche gives one another tranche; the other steps resize or move.    *)

Carried(p) == \/ p.id = 0 /\ p.tranches = <<>>
              \/ \E q \in Size!Positions : p.id = q.id /\ p.tranches = q.tranches

LEMMA HereNow ==
    /\ size_position \in Size!Positions
    /\ \A c \in Size!Closers : removed[c] \in Size!Positions
    /\ \A p \in archived : p \in Size!Positions
BY DEF Size!Positions

LEMMA MovedOrResized ==
    ASSUME Size!SizeAssumption, SizeIInv, [Size!Next]_Size!vars, ~Size!Insert,
           ~Size!AddTranche
    PROVE  \A p \in Size!Positions' : Carried(p)
<1> USE DEF SizeIInv
<1> SUFFICES /\ Carried(size_position')
             /\ \A c \in Size!Closers : Carried(removed'[c])
             /\ \A p \in archived' : Carried(p)
  BY DEF Size!Positions
<1>0. /\ Carried(Size!NoPosition) /\ Carried(size_position)
      /\ \A c \in Size!Closers : Carried(removed[c])
      /\ \A p \in archived : Carried(p)
  BY HereNow DEF Carried, Size!NoPosition
<1>1. CASE UNCHANGED <<size_position, removed, archived>> BY <1>0, <1>1
<1>2. CASE Size!ApplyPartial
  <2>1. size_position'.id = size_position.id /\ size_position'.tranches = size_position.tranches
    BY <1>2 DEF Size!ApplyPartial, SizeTypes, SizeHeld, Size!NoPosition
  <2> QED BY <1>0, <1>2, <2>1, HereNow DEF Size!ApplyPartial, Size!closes, Carried
<1>3. CASE Size!FilledReport
  <2>1. CASE UNCHANGED <<removed, size_closing, size_position>>
    BY <1>0, <1>3, <2>1 DEF Size!FilledReport
  <2>2. CASE size_position' = Size!NoPosition /\ removed' = [removed EXCEPT !["ws"] = size_position]
    BY <1>0, <1>3, <2>2 DEF Size!FilledReport, SizeTypes
  <2> QED BY <1>3, <2>1, <2>2 DEF Size!FilledReport
<1>4. ASSUME NEW c \in Size!Closers, Size!Archive(c)
      PROVE  UNCHANGED size_position /\ removed' = [removed EXCEPT ![c] = Size!NoPosition]
             /\ archived' = archived \cup {removed[c]}
  BY <1>4 DEF Size!Archive
<1>5. ASSUME NEW c \in {"task", "psync"}, Size!Remove(c)
      PROVE  size_position' = Size!NoPosition /\ removed' = [removed EXCEPT ![c] = size_position] /\ UNCHANGED archived
  BY <1>5 DEF Size!Remove
<1>6. CASE Size!Delist BY <1>0, <1>6 DEF Size!Delist
<1>7. CASE \E c \in Size!Closers : Size!Archive(c) BY <1>0, <1>4, <1>7 DEF SizeTypes
<1>8. CASE \E c \in {"task", "psync"} : Size!Remove(c) BY <1>0, <1>5, <1>8 DEF SizeTypes
<1>9. CASE UNCHANGED Size!vars BY <1>1, <1>9 DEF Size!vars, Size!closes
<1>10. CASE Size!BeginOpening \/ Size!EntryFills \/ Size!Decide \/ Size!Decline \/ Size!ReadPartial
  BY <1>1, <1>10
    DEF Size!BeginOpening, Size!EntryFills, Size!Decide, Size!Decline, Size!ReadPartial,
        Size!closes
<1>11. CASE \E c \in Size!Closers : Size!Sell(c) BY <1>1, <1>11 DEF Size!Sell
<1>12. CASE Size!Trigger BY <1>1, <1>12 DEF Size!Trigger, Size!closes
<1> QED BY <1>2, <1>3, <1>6, <1>7, <1>8, <1>9, <1>10, <1>11, <1>12 DEF Size!Next

LEMMA Inserted ==
    ASSUME SizeIInv, Size!Insert
    PROVE  /\ \A p \in Size!Positions' : Carried(p) \/ p = size_position'
           /\ size_position' = [id |-> size_opened, qty |-> EntryQty,
                                tranches |-> << <<size_opened, 0>> >>]
           /\ UNCHANGED <<removed, archived>>
<1>1. UNCHANGED <<removed, archived>> BY DEF Size!Insert, Size!closes
<1> QED BY <1>1, HereNow DEF Size!Insert, Size!Positions, Carried

LEMMA Grown ==
    ASSUME Size!SizeAssumption, SizeIInv, Size!AddTranche, size_position # Size!NoPosition
    PROVE  /\ \A p \in Size!Positions' : Carried(p) \/ p = size_position'
           /\ size_position'.id = size_position.id
           /\ size_position'.tranches = Append(size_position.tranches, <<size_position.id, Len(size_position.tranches)>>)
           /\ Len(size_position.tranches) < tranche_count
           /\ UNCHANGED <<removed, archived>>
<1>1. UNCHANGED <<removed, archived>> BY DEF Size!AddTranche, Size!closes
<1>2. /\ size_position' = [size_position EXCEPT !.qty = @ + 1,
                          !.tranches = Append(@, <<size_read.target, size_read.tranches_filled>>)]
      /\ size_stage = "decided"
  BY DEF Size!AddTranche
<1>3. size_position \in SizeHeld BY DEF SizeIInv, SizeTypes
<1>4. /\ size_position'.id = size_position.id
      /\ size_position'.tranches = Append(size_position.tranches, <<size_read.target, size_read.tranches_filled>>)
  BY <1>2, <1>3 DEF SizeHeld
<1>5. /\ size_read.target = size_position.id
      /\ size_read.tranches_filled = Len(size_position.tranches)
      /\ size_read.tranches_filled < tranche_count
  BY <1>2 DEF SizeIInv, Decided, Matches
<1>6. \A p \in Size!Positions' : Carried(p) \/ p = size_position'
  BY <1>1, HereNow DEF Size!Positions, Carried
<1> QED BY <1>1, <1>4, <1>5, <1>6

\* A tranche decided on for a position that has gone is dropped.
LEMMA Dropped ==
    ASSUME Size!AddTranche, size_position = Size!NoPosition
    PROVE  UNCHANGED <<size_position, removed, archived>>
BY DEF Size!AddTranche, Size!closes

LEMMA TranchesStep ==
    ASSUME Size!SizeAssumption, SizeIInv, [Size!Next]_Size!vars
    PROVE  Size!OwnTranchesInOrder'
<1> DEFINE Own(p) == /\ p.id > 0 => Len(p.tranches) <= IF Size!Graded THEN tranche_count ELSE 1
                     /\ \A i \in DOMAIN p.tranches : p.tranches[i] = <<p.id, i - 1>>
<1>2. \A p \in Size!Positions : Own(p) BY DEF SizeIInv, Size!OwnTranchesInOrder
<1>3. ASSUME NEW p, Carried(p) PROVE Own(p) BY <1>2, <1>3 DEF Carried
<1>4. SUFFICES \A p \in Size!Positions' : Own(p)
  BY DEF Size!OwnTranchesInOrder, Size!Graded
<1>5. CASE Size!Insert
  <2>1. Own(size_position')
    <3>1. Len(size_position'.tranches) = 1 /\ \A i \in DOMAIN size_position'.tranches : i = 1
      BY <1>5, Inserted
    <3>2. size_position'.tranches[1] = <<size_position'.id, 0>> BY <1>5, Inserted
    <3> QED BY <3>1, <3>2 DEF Size!Graded, Size!SizeAssumption
  <2> QED BY <1>3, <1>5, <2>1, Inserted
<1>6. CASE Size!AddTranche /\ size_position = Size!NoPosition
  <2>1. Size!Positions' = Size!Positions BY <1>6, Dropped DEF Size!Positions
  <2> QED BY <1>2, <2>1
<1>7. CASE Size!AddTranche /\ size_position # Size!NoPosition
  <2>1. Own(size_position')
    <3>1. size_position \in SizeHeld BY <1>7 DEF SizeIInv, SizeTypes
    <3>2. size_position.tranches \in Seq(Tranche) BY <3>1 DEF SizeHeld
    <3>3. Own(size_position) BY <1>2, HereNow
    <3>4. size_position'.tranches = Append(size_position.tranches, <<size_position.id, Len(size_position.tranches)>>)
      BY <1>7, Grown
    <3>5. Len(size_position'.tranches) <= tranche_count
      BY <1>7, <3>2, <3>4, Grown DEF Size!SizeAssumption
    <3>6. \A i \in DOMAIN size_position'.tranches :
        size_position'.tranches[i] = <<size_position.id, i - 1>>
      BY <3>2, <3>3, <3>4
    <3>7. Size!Graded BY <1>7 DEF Size!AddTranche, SizeIInv, Decided
    <3> QED BY <1>7, <3>5, <3>6, <3>7, Grown
  <2> QED BY <1>3, <1>7, <2>1, Grown
<1>8. CASE ~Size!Insert /\ ~Size!AddTranche BY <1>3, <1>8, MovedOrResized
<1> QED BY <1>5, <1>6, <1>7, <1>8

LEMMA FreshStep ==
    ASSUME Size!SizeAssumption, SizeIInv, [Size!Next]_Size!vars
    PROVE  Fresh'
<1> DEFINE Old(p) == p.id <= size_opened /\ (size_stage = "bought" => p.id < size_opened)
<1>1. size_opened \in Nat BY DEF SizeIInv, SizeTypes, Size!SizeAssumption
<1>2. \A p \in Size!Positions : Old(p) BY DEF SizeIInv, Fresh
<1>3. ASSUME NEW p, Carried(p) PROVE Old(p)
  BY <1>1, <1>2, <1>3 DEF Carried, SizeIInv, Fresh
<1>4. CASE Size!Insert
  <2>1. size_stage' = "idle" /\ size_opened' = size_opened BY <1>4 DEF Size!Insert
  <2>2. \A p \in Size!Positions' : p.id <= size_opened BY <1>1, <1>3, <1>4, Inserted
  <2> QED BY <2>1, <2>2 DEF Fresh
<1>5. CASE Size!AddTranche
  <2>1. size_stage' = "idle" /\ size_opened' = size_opened BY <1>5 DEF Size!AddTranche
  <2>2. CASE size_position = Size!NoPosition
    <3>1. Size!Positions' = Size!Positions BY <1>5, <2>2, Dropped DEF Size!Positions
    <3> QED BY <1>2, <2>1, <3>1 DEF Fresh
  <2>3. CASE size_position # Size!NoPosition
    <3>1. Old(size_position) BY <1>2, HereNow
    <3>2. \A p \in Size!Positions' : p.id <= size_opened BY <1>3, <1>5, <2>3, <3>1, Grown
    <3> QED BY <2>1, <3>2 DEF Fresh
  <2> QED BY <2>2, <2>3
<1>6. CASE ~Size!Insert /\ ~Size!AddTranche
  <2>1. \A p \in Size!Positions' : Old(p) BY <1>3, <1>6, MovedOrResized
  <2>2. \/ size_opened' = size_opened + 1 /\ size_stage' = "bought" /\ UNCHANGED size_position
           /\ size_stage = "buying"
        \/ size_opened' = size_opened /\ size_stage' = "buying" /\ UNCHANGED size_position
           /\ size_position = Size!NoPosition /\ size_opened < MaxOpenings
        \/ size_opened' = size_opened /\ size_stage' \notin {"bought", "buying"}
        \/ size_opened' = size_opened /\ size_stage' = size_stage /\ (size_position' = Size!NoPosition \/ size_position # Size!NoPosition \/ UNCHANGED size_position)
    <3>1. CASE UNCHANGED Size!vars BY <3>1 DEF Size!vars, Size!task
    <3>2. CASE Size!BeginOpening BY <3>2 DEF Size!BeginOpening
    <3>3. CASE Size!EntryFills BY <3>3 DEF Size!EntryFills
    <3>4. CASE Size!Decide \/ Size!Decline BY <3>4 DEF Size!Decide, Size!Decline
    <3>5. CASE Size!ReadPartial \/ Size!Delist \/ Size!Trigger
      BY <3>5 DEF Size!ReadPartial, Size!Delist, Size!Trigger, Size!task
    <3>6. CASE Size!ApplyPartial BY <3>6 DEF Size!ApplyPartial, Size!task
    <3>7. CASE Size!FilledReport BY <3>7 DEF Size!FilledReport, Size!task
    <3>8. ASSUME NEW c \in Size!Closers, Size!Sell(c) \/ Size!Archive(c)
          PROVE  size_opened' = size_opened /\ UNCHANGED size_position /\ (size_stage' = "idle" \/ size_stage' = size_stage)
      BY <3>8 DEF Size!Sell, Size!Archive, Size!task
    <3>9. ASSUME NEW c \in {"task", "psync"}, Size!Remove(c)
          PROVE  size_opened' = size_opened /\ size_position' = Size!NoPosition /\ (size_stage' = "closing" \/ size_stage' = size_stage)
      BY <3>9 DEF Size!Remove
    <3> QED BY <1>6, <3>1, <3>2, <3>3, <3>4, <3>5, <3>6, <3>7, <3>8, <3>9 DEF Size!Next
  <2>3. \A p \in Size!Positions' : p.id \in Nat
    BY TypesStep DEF SizeTypes, Size!Positions, SizeHeld, Size!NoPosition, Size!Openings
  <2>4. \A p \in Size!Positions' :
      p.id <= size_opened' /\ (size_stage' = "bought" => p.id < size_opened')
    <3>1. \A i, n \in Nat : i <= n => i < n + 1 /\ i <= n + 1 OBVIOUS
    <3>2. CASE size_opened' = size_opened + 1 BY <1>1, <2>1, <2>3, <3>1, <3>2
    <3>3. CASE size_opened' = size_opened /\ (size_stage' = "bought" => size_stage = "bought") BY <2>1, <3>3
    <3> QED BY <2>2, <3>2, <3>3
  <2>5. size_stage' \in {"buying", "bought"} => size_position' = Size!NoPosition
    BY <2>2 DEF SizeIInv, Fresh
  <2>6. size_stage' = "buying" => size_opened' < MaxOpenings BY <2>2 DEF SizeIInv, Fresh
  <2>7. size_stage' = "bought" => size_opened' > 0 BY <1>1, <2>2 DEF SizeIInv, Fresh
  <2> QED BY <2>4, <2>5, <2>6, <2>7 DEF Fresh
<1> QED BY <1>4, <1>5, <1>6

-----------------------------------------------------------------------------

LEMMA OwnerStep ==
    ASSUME Size!SizeAssumption, SizeIInv, [Size!Next]_Size!vars
    PROVE  Size!StateHasOwner'
<1> USE DEF SizeIInv, Size!StateHasOwner
<1>1. CASE UNCHANGED Size!vars BY <1>1 DEF Size!vars, Size!closes
<1>2. CASE Size!BeginOpening \/ Size!EntryFills \/ Size!Decide \/ Size!Decline
  BY <1>2 DEF Size!BeginOpening, Size!EntryFills, Size!Decide, Size!Decline, Size!closes
<1>3. CASE Size!Insert
  <2>1. size_position' # Size!NoPosition
    BY <1>3 DEF Size!Insert, SizeTypes, Fresh, Size!NoPosition
  <2> QED BY <2>1
<1>4. CASE Size!AddTranche
  <2>1. UNCHANGED Size!closes /\ (graded = Size!NoState => graded' = Size!NoState)
    BY <1>4 DEF Size!AddTranche
  <2>2. size_position # Size!NoPosition => size_position' # Size!NoPosition
    <3> SUFFICES ASSUME size_position # Size!NoPosition
                 PROVE size_position' # Size!NoPosition OBVIOUS
    <3>1. size_position'.id = size_position.id /\ size_position.id > 0
      BY <1>4, Grown, HeldIsRecord DEF SizeTypes
    <3> QED BY <3>1 DEF Size!NoPosition
  <2> QED BY <2>1, <2>2 DEF Size!closes
<1>5. CASE Size!ReadPartial BY <1>5 DEF Size!ReadPartial, Size!closes
<1>6. CASE Size!ApplyPartial
  <2>1. size_position # Size!NoPosition => size_position' # Size!NoPosition
    <3> SUFFICES ASSUME size_position # Size!NoPosition
                 PROVE size_position' # Size!NoPosition OBVIOUS
    <3>1. size_position \in SizeHeld BY DEF SizeTypes
    <3>2. size_position'.id = size_position.id
      BY <1>6, <3>1 DEF Size!ApplyPartial, SizeHeld
    <3> QED BY <3>1, <3>2, HeldIsRecord DEF Size!NoPosition
  <2> QED BY <1>6, <2>1 DEF Size!ApplyPartial, Size!closes
<1>7. CASE Size!FilledReport
  <2>1. CASE UNCHANGED <<removed, size_closing, size_position>>
    BY <1>7, <2>1 DEF Size!FilledReport
  <2>2. CASE size_closing' = [size_closing EXCEPT !["ws"] = "taken"]
    <3>1. size_closing'["ws"] # "no" BY <2>2, CloserNames DEF SizeTypes
    <3> QED BY <3>1, CloserNames
  <2> QED BY <1>7, <2>1, <2>2 DEF Size!FilledReport
<1>8. ASSUME NEW c \in Size!Closers, Size!Sell(c) PROVE Size!StateHasOwner'
  <2>1. size_closing'[c] # "no" BY <1>8 DEF Size!Sell, SizeTypes
  <2> QED BY <2>1
<1>9. ASSUME NEW c \in Size!Closers, Size!Archive(c) PROVE Size!StateHasOwner'
  BY <1>9 DEF Size!Archive
<1>10. ASSUME NEW c \in {"task", "psync"}, Size!Remove(c) PROVE Size!StateHasOwner'
  <2>1. c \in Size!Closers BY CloserNames
  <2>2. size_closing'[c] # "no" BY <1>10, <2>1 DEF Size!Remove, SizeTypes
  <2> QED BY <2>1, <2>2
<1>11. CASE Size!Delist BY <1>11 DEF Size!Delist
<1>12. CASE Size!Trigger BY <1>12 DEF Size!Trigger, Size!closes
<1> QED BY <1>1, <1>2, <1>3, <1>4, <1>5, <1>6, <1>7, <1>8, <1>9, <1>10, <1>11, <1>12
          DEF Size!Next

\* What the task relies on between its two locks.
LEMMA OtherSteps ==
    ASSUME Size!SizeAssumption, SizeIInv, [Size!Next]_Size!vars, ~Size!Insert,
           ~Size!AddTranche, ~Size!Decide
    PROVE  /\ \/ size_position' = Size!NoPosition
              \/ /\ size_position # Size!NoPosition
                 /\ size_position'.id = size_position.id
                 /\ size_position'.tranches = size_position.tranches
           /\ graded' \in {graded, Size!NoState}
           /\ size_stage' = "decided" => size_stage = "decided" /\ size_read' = size_read
<1> DEFINE Same == size_position' = size_position \/ size_position' = Size!NoPosition
<1>1. CASE UNCHANGED Size!vars BY <1>1 DEF Size!vars, Size!task
<1>2. CASE Size!BeginOpening \/ Size!EntryFills \/ Size!Decline
  BY <1>2 DEF Size!BeginOpening, Size!EntryFills, Size!Decline
<1>3. CASE Size!ReadPartial \/ Size!Delist \/ Size!Trigger
  BY <1>3 DEF Size!ReadPartial, Size!Delist, Size!Trigger, Size!task
<1>4. CASE Size!ApplyPartial
  <2>1. size_position = Size!NoPosition => size_position' = Size!NoPosition
    BY <1>4 DEF Size!ApplyPartial
  <2>2. ASSUME size_position # Size!NoPosition
        PROVE  size_position'.id = size_position.id /\ size_position'.tranches = size_position.tranches
    BY <1>4, <2>2 DEF Size!ApplyPartial, SizeIInv, SizeTypes, SizeHeld
  <2> QED BY <1>4, <2>1, <2>2 DEF Size!ApplyPartial, Size!task
<1>5. CASE Size!FilledReport
  <2>1. Same BY <1>5 DEF Size!FilledReport
  <2> QED BY <1>5, <2>1 DEF Size!FilledReport, Size!task
<1>6. ASSUME NEW c \in Size!Closers, Size!Sell(c)
      PROVE  UNCHANGED <<size_position, graded, Size!task>>
  BY <1>6 DEF Size!Sell
<1>7. ASSUME NEW c \in Size!Closers, Size!Archive(c)
      PROVE  UNCHANGED <<size_position, size_read>> /\ graded' = Size!NoState /\ size_stage' \in {"idle", size_stage}
  BY <1>7 DEF Size!Archive
<1>8. ASSUME NEW c \in {"task", "psync"}, Size!Remove(c)
      PROVE  UNCHANGED <<graded, size_read>> /\ size_position' = Size!NoPosition /\ size_stage' \in {"closing", size_stage}
  BY <1>8 DEF Size!Remove
<1> QED BY <1>1, <1>2, <1>3, <1>4, <1>5, <1>6, <1>7, <1>8 DEF Size!Next, Size!task

LEMMA DecidedStep ==
    ASSUME Size!SizeAssumption, SizeIInv, [Size!Next]_Size!vars
    PROVE  Decided'
<1> USE DEF SizeIInv
<1>0. SUFFICES /\ graded' # Size!NoState => Size!Graded /\ Matches(size_position', graded')
               /\ size_stage' = "decided" =>
                    /\ size_read' \in State /\ size_read'.tranches_filled < tranche_count
                    /\ Size!Graded /\ Matches(size_position', size_read')
                    /\ graded' \in {Size!NoState, size_read'}
  BY DEF Decided, Size!Graded, Matches
<1>1. CASE Size!Insert
  <2>1. size_position'.id = size_opened /\ Len(size_position'.tranches) = 1
    BY <1>1, Inserted
  <2>2. size_stage' = "idle" BY <1>1 DEF Size!Insert
  <2>3. graded' # Size!NoState =>
      Size!Graded /\ graded' = [target |-> size_opened, tranches_filled |-> 1]
    BY <1>1 DEF Size!Insert, Decided
  <2> QED BY <2>1, <2>2, <2>3 DEF Matches
<1>2. CASE Size!AddTranche
  <2>1. size_stage' = "idle" /\ size_stage = "decided" BY <1>2 DEF Size!AddTranche
  <2>2. CASE size_position = Size!NoPosition
    <3>1. size_position' = Size!NoPosition /\ graded' = graded
      BY <1>2, <2>2 DEF Size!AddTranche
    <3> QED BY <2>1, <3>1 DEF Decided, Matches
  <2>3. CASE size_position # Size!NoPosition /\ graded = Size!NoState
    <3>1. graded' = Size!NoState BY <1>2, <2>3 DEF Size!AddTranche
    <3> QED BY <2>1, <3>1
  <2>4. CASE size_position # Size!NoPosition /\ graded # Size!NoState
    <3>1. graded' = [graded EXCEPT !.tranches_filled = @ + 1]
      BY <1>2, <2>4 DEF Size!AddTranche
    <3>2. graded \in State BY <2>4 DEF SizeTypes
    <3>3. graded'.target = graded.target /\ graded'.tranches_filled = graded.tranches_filled + 1
      BY <3>1, <3>2 DEF State
    <3>4. Len(size_position'.tranches) = Len(size_position.tranches) + 1
      <4>1. size_position.tranches \in Seq(Tranche) BY <2>4 DEF SizeTypes, SizeHeld
      <4> QED BY <1>2, <2>4, <4>1, Grown
    <3> QED BY <1>2, <2>1, <2>4, <3>3, <3>4, Grown DEF Decided, Matches
  <2> QED BY <2>2, <2>3, <2>4
<1>3. CASE Size!Decide
  <2>1. graded \in State BY <1>3 DEF Size!Decide, SizeTypes
  <2> QED BY <1>3, <2>1 DEF Size!Decide, Decided, Matches
<1>4. CASE ~Size!Insert /\ ~Size!AddTranche /\ ~Size!Decide
  <2>1. /\ \/ size_position' = Size!NoPosition
           \/ /\ size_position # Size!NoPosition
              /\ size_position'.id = size_position.id
              /\ size_position'.tranches = size_position.tranches
        /\ graded' \in {graded, Size!NoState}
        /\ size_stage' = "decided" => size_stage = "decided" /\ size_read' = size_read
    BY <1>4, OtherSteps
  <2> QED BY <2>1 DEF Decided, Matches
<1> QED BY <1>1, <1>2, <1>3, <1>4

-----------------------------------------------------------------------------

LEMMA SeparateStep ==
    ASSUME Size!SizeAssumption, SizeIInv, [Size!Next]_Size!vars
    PROVE  Separate'
<1> USE DEF SizeIInv
<1>1. CASE UNCHANGED <<removed, archived>> /\ size_position'.id = size_position.id
  BY <1>1 DEF Separate
<1>2. CASE UNCHANGED <<removed, archived>> /\ size_position' = Size!NoPosition
  <2>1. /\ \A c \in Size!Closers : removed[c] # Size!NoPosition => removed[c].id > 0
        /\ \A p \in archived : p.id > 0
    BY HeldIsRecord DEF SizeTypes
  <2> QED BY <1>2, <2>1 DEF Separate, Size!NoPosition
<1>3. ASSUME NEW c \in Size!Closers, removed' = [removed EXCEPT ![c] = size_position],
             size_position' = Size!NoPosition,
             size_closing[c] = "no", size_position # Size!NoPosition, UNCHANGED archived
      PROVE  Separate'
  <2>1. /\ size_position \in SizeHeld /\ size_position.id > 0
        /\ \A d \in Size!Closers : removed[d] # Size!NoPosition => removed[d].id > 0
        /\ \A p \in archived : p.id > 0
    BY <1>3, HeldIsRecord DEF SizeTypes
  <2>2. removed'[c] = size_position /\ \A d \in Size!Closers \ {c} : removed'[d] = removed[d]
    BY <1>3 DEF SizeTypes
  <2>3. \A d \in Size!Closers : removed'[d] # Size!NoPosition => removed'[d].id # size_position'.id
    BY <1>3, <2>1, <2>2 DEF Size!NoPosition
  <2>4. \A d, e \in Size!Closers : d # e /\ removed'[d] # Size!NoPosition =>
      removed'[d].id # removed'[e].id
    <3> SUFFICES ASSUME NEW d \in Size!Closers, NEW e \in Size!Closers, d # e,
                        removed'[d] # Size!NoPosition
                 PROVE  removed'[d].id # removed'[e].id
      OBVIOUS
    <3>1. CASE d = c
      <4>1. removed'[d] = size_position /\ removed'[e] = removed[e] BY <2>2, <3>1
      <4>2. CASE removed[e] = Size!NoPosition BY <2>1, <4>1, <4>2 DEF Size!NoPosition
      <4>3. CASE removed[e] # Size!NoPosition BY <4>1, <4>3 DEF Separate
      <4> QED BY <4>2, <4>3
    <3>2. CASE d # c /\ e = c BY <2>2, <3>2 DEF Separate
    <3>3. CASE d # c /\ e # c BY <2>2, <3>3 DEF Separate
    <3> QED BY <3>1, <3>2, <3>3
  <2>5. \A p \in archived' : p.id # size_position'.id /\ \A d \in Size!Closers :
      p.id # removed'[d].id
    BY <1>3, <2>1, <2>2 DEF Separate, Size!NoPosition
  <2> QED BY <1>3, <2>3, <2>4, <2>5 DEF Separate
<1>4. ASSUME NEW c \in Size!Closers, Size!Archive(c) PROVE Separate'
  <2>1. /\ removed[c] \in SizeHeld /\ UNCHANGED size_position
        /\ archived' = archived \cup {removed[c]}
    BY <1>4 DEF Size!Archive, SizeTypes
  <2>2. removed'[c] = Size!NoPosition /\ \A d \in Size!Closers \ {c} : removed'[d] = removed[d]
    BY <1>4 DEF Size!Archive, SizeTypes
  <2>3. removed[c] # Size!NoPosition /\ removed[c].id > 0 /\ \A p \in archived : p.id > 0
    BY <2>1, HeldIsRecord DEF SizeTypes
  <2>4. \A d \in Size!Closers : removed'[d] # Size!NoPosition => removed'[d].id # size_position'.id
    BY <2>1, <2>2 DEF Separate
  <2>5. \A d, e \in Size!Closers : d # e /\ removed'[d] # Size!NoPosition =>
      removed'[d].id # removed'[e].id
    <3> SUFFICES ASSUME NEW d \in Size!Closers, NEW e \in Size!Closers, d # e,
                        removed'[d] # Size!NoPosition
                 PROVE  removed'[d].id # removed'[e].id
      OBVIOUS
    <3>1. d # c /\ removed'[d] = removed[d] BY <2>2
    <3>2. CASE e = c
      <4>1. removed[d] \in SizeHeld BY <3>1 DEF SizeTypes
      <4> QED BY <2>2, <3>1, <3>2, <4>1, HeldIsRecord DEF Size!NoPosition
    <3>3. CASE e # c BY <2>2, <3>1, <3>3 DEF Separate
    <3> QED BY <3>2, <3>3
  <2>6. \A p \in archived' : p.id # size_position'.id /\ \A d \in Size!Closers :
      p.id # removed'[d].id
    <3> SUFFICES ASSUME NEW p \in archived'
                 PROVE  p.id # size_position'.id /\ \A d \in Size!Closers : p.id # removed'[d].id
      OBVIOUS
    <3>1. p.id > 0 /\ p.id # size_position'.id BY <2>1, <2>3 DEF Separate
    <3>2. p.id # removed'[c].id BY <2>2, <3>1 DEF Size!NoPosition
    <3>3. \A d \in Size!Closers \ {c} : p.id # removed'[d].id
      BY <2>1, <2>2, <2>3 DEF Separate
    <3> QED BY <3>1, <3>2, <3>3
  <2>7. \A p, q \in archived' : p.id = q.id => p = q BY <2>1 DEF Separate
  <2> QED BY <2>4, <2>5, <2>6, <2>7 DEF Separate
<1>5. CASE Size!Insert
  <2>1. size_position'.id = size_opened /\ UNCHANGED <<removed, archived>>
    BY <1>5, Inserted
  <2>2. \A p \in Size!Positions : p.id < size_opened BY <1>5 DEF Size!Insert, Fresh
  <2>3. size_opened \in Nat /\ \A p \in Size!Positions : p.id \in Nat
    BY DEF SizeTypes, Size!Positions, SizeHeld, Size!NoPosition, Size!Openings,
       Size!SizeAssumption
  <2>4. \A p \in Size!Positions : p.id # size_opened BY <2>2, <2>3
  <2> QED BY <2>1, <2>4, HereNow DEF Separate
<1>6. CASE Size!AddTranche
  <2>1. size_position'.id = size_position.id /\ UNCHANGED <<removed, archived>>
    BY <1>6, Grown, Dropped
  <2> QED BY <1>1, <2>1
<1>7. CASE Size!ApplyPartial
  <2>1. size_position'.id = size_position.id
    BY <1>7 DEF Size!ApplyPartial, SizeTypes, SizeHeld, Size!NoPosition
  <2> QED BY <1>1, <1>7, <2>1 DEF Size!ApplyPartial, Size!closes
<1>8. CASE Size!FilledReport
  <2>1. CASE UNCHANGED <<removed, size_closing, size_position>>
    BY <1>1, <1>8, <2>1 DEF Size!FilledReport
  <2>2. CASE /\ removed' = [removed EXCEPT !["ws"] = size_position]
             /\ size_position' = Size!NoPosition
             /\ size_position # Size!NoPosition
    BY <1>3, <1>8, <2>2, CloserNames DEF Size!FilledReport
  <2> QED BY <1>8, <2>1, <2>2 DEF Size!FilledReport
<1>9. ASSUME NEW c \in {"task", "psync"}, Size!Remove(c) PROVE Separate'
  BY <1>3, <1>9, CloserNames DEF Size!Remove
<1>10. CASE Size!Delist
  <2>1. size_position' = Size!NoPosition /\ UNCHANGED removed
        /\ archived' = IF size_position = Size!NoPosition THEN archived ELSE archived \cup {size_position}
    BY <1>10 DEF Size!Delist
  <2>2. CASE size_position = Size!NoPosition BY <1>2, <2>1, <2>2
  <2>3. CASE size_position # Size!NoPosition
    <3>1. /\ size_position.id > 0 /\ \A p \in archived : p.id > 0
          /\ \A d \in Size!Closers : removed[d] # Size!NoPosition => removed[d].id > 0
      BY <2>3, HeldIsRecord DEF SizeTypes
    <3>2. \A d \in Size!Closers : size_position.id # removed[d].id
      <4> TAKE d \in Size!Closers
      <4>1. CASE removed[d] = Size!NoPosition BY <3>1, <4>1 DEF Size!NoPosition
      <4>2. CASE removed[d] # Size!NoPosition BY <4>2 DEF Separate
      <4> QED BY <4>1, <4>2
    <3>3. size_position'.id = 0 BY <2>1 DEF Size!NoPosition
    <3>4. archived' = archived \cup {size_position} BY <2>1, <2>3
    <3> QED BY <2>1, <3>1, <3>2, <3>3, <3>4 DEF Separate
  <2> QED BY <2>2, <2>3
<1>11. CASE UNCHANGED Size!vars BY <1>1, <1>11 DEF Size!vars, Size!closes
<1>12. CASE Size!BeginOpening \/ Size!EntryFills \/ Size!Decide \/ Size!Decline \/ Size!ReadPartial \/ Size!Trigger
  BY <1>1, <1>12
    DEF Size!BeginOpening, Size!EntryFills, Size!Decide, Size!Decline, Size!ReadPartial,
        Size!Trigger, Size!closes
<1>13. CASE \E c \in Size!Closers : Size!Sell(c) BY <1>1, <1>13 DEF Size!Sell
<1> QED BY <1>4, <1>5, <1>6, <1>7, <1>8, <1>9, <1>10, <1>11, <1>12, <1>13 DEF Size!Next

(* The invariant, and what it says. *)

(* The inductive invariant holds in every reachable state.                  *)
THEOREM SizeInvariant == Size!Spec => []SizeIInv
<1> USE SizeAssumed
<1>1. Size!Init => SizeIInv BY SizeInitIInv
<1>2. SizeIInv /\ [Size!Next]_Size!vars => SizeIInv'
  BY TypesStep, FreshStep, DecidedStep, SeparateStep, TranchesStep, OwnerStep DEF SizeIInv
<1> QED BY <1>1, <1>2, PTL DEF Size!Spec

LEMMA AtMostOne ==
    ASSUME NEW S, \A x, y \in S : x = y
    PROVE  Cardinality(S) <= 1 /\ Cardinality(S) \in Nat /\ (S = {} => Cardinality(S) = 0)
<1>1. CASE S = {} BY <1>1, FS_EmptySet
<1>2. CASE S # {}
  <2>1. PICK x \in S : S = {x} BY <1>2
  <2>2. Cardinality({x}) = 1 BY FS_Singleton
  <2>3. Cardinality(S) = 1 BY <2>1, <2>2
  <2> QED BY <1>2, <2>3
<1> QED BY <1>1, <1>2

(* The count the instance takes is the one the library speaks of.           *)
LEMMA SizeSameCount == ASSUME NEW S PROVE Size!Cardinality(S) = Cardinality(S)
BY DEF Size!Cardinality, Cardinality

LEMMA SeparateIsOnce == SizeIInv => Size!RecordedOnce
<1> SUFFICES ASSUME SizeIInv, NEW o \in Size!Openings
             PROVE  (IF size_position.id = o THEN 1 ELSE 0)
                      + Cardinality({c \in Size!Closers : removed[c].id = o})
                      + Cardinality({p \in archived : p.id = o}) <= 1
  BY SizeSameCount DEF Size!RecordedOnce
<1> DEFINE C == {c \in Size!Closers : removed[c].id = o}
           A == {p \in archived : p.id = o}
<1>1. o # 0 BY DEF Size!Openings
<1>2. \A c \in C : removed[c] # Size!NoPosition BY <1>1 DEF Size!NoPosition
<1>3. \A c, d \in C : c = d BY <1>2 DEF SizeIInv, Separate
<1>4. \A p, q \in A : p = q BY DEF SizeIInv, Separate
<1>5. C # {} => size_position.id # o /\ A = {} BY <1>2 DEF SizeIInv, Separate
<1>6. A # {} => size_position.id # o BY DEF SizeIInv, Separate
<1> HIDE DEF C, A
<1>7. /\ Cardinality(C) <= 1 /\ Cardinality(C) \in Nat /\ (C = {} => Cardinality(C) = 0)
      /\ Cardinality(A) <= 1 /\ Cardinality(A) \in Nat /\ (A = {} => Cardinality(A) = 0)
  BY <1>3, <1>4, AtMostOne
<1>8. (IF size_position.id = o THEN 1 ELSE 0) + Cardinality(C) + Cardinality(A) <= 1
  BY <1>5, <1>6, <1>7
<1> QED BY <1>8 DEF C, A

(* A position is made of the first tranches of its own target, each once,   *)
(* whatever closers, purge and late fills do between the two locks of a     *)
(* tranche (OwnTranchesInOrder, PositionSize).                              *)
THEOREM OwnTranches == Size!Spec => []OwnTranchesInOrder
<1>1. SizeIInv => Size!OwnTranchesInOrder BY DEF SizeIInv
<1> QED BY <1>1, SizeInvariant, PTL DEF OwnTranchesInOrder

(* A position is in the book, in one closer's hands or in the trades, never *)
(* in two of these (RecordedOnce, PositionSize).                            *)
THEOREM TradedOnce == Size!Spec => []Size!RecordedOnce
BY SeparateIsOnce, SizeInvariant, PTL

(* A graded state is that of a position, or its position is being closed or *)
(* purged: it never sizes a later position (StateHasOwner, PositionSize).   *)
THEOREM GradedStateIsOwned == Size!Spec => []StateHasOwner
<1>1. SizeIInv => Size!StateHasOwner BY DEF SizeIInv
<1> QED BY <1>1, SizeInvariant, PTL DEF StateHasOwner

(* Types: the state counts a tranche it has been told of, and quantities    *)
(* never fall below zero, whatever order the reports and the closers take.  *)
THEOREM SizeTypeCorrect == Size!Spec => []Size!TypeOK
<1> USE SizeAssumed DEF Size!SizeAssumption
<1>1. ASSUME SizeIInv PROVE Size!TypeOK
  <2>1. SizeTypes BY <1>1 DEF SizeIInv
  <2>2. size_position.qty \in Nat BY <2>1 DEF SizeTypes, SizeHeld, Size!NoPosition
  <2>3. graded.tranches_filled \in 0 .. tranche_count
    BY <2>1 DEF SizeTypes, State, Size!NoState
  <2> QED BY <2>1, <2>2, <2>3 DEF SizeTypes, Size!TypeOK
<1> QED BY <1>1, SizeInvariant, PTL

-----------------------------------------------------------------------------
(* PositionSize implements PositionLife: the map, the closers' hands and    *)
(* the archive are the places of one position after the other.              *)

(* A closer that is not at work has nothing in its hands.                   *)
EmptyHands == \A c \in Size!Closers : size_closing[c] = "no" => removed[c] = Size!NoPosition

SizePlaced == [o \in Size!Openings |-> Size!Where(o)]

LEMMA InitEmptyHands == Size!Init => EmptyHands
BY DEF Size!Init, EmptyHands

(* Closers take hold of a record and let go of it as they begin and end.    *)
LEMMA HandsStep ==
    ASSUME Size!SizeAssumption, SizeIInv, EmptyHands, [Size!Next]_Size!vars
    PROVE  EmptyHands'
<1> USE DEF EmptyHands
<1>t. removed \in [Size!Closers -> SizeHeld \cup {Size!NoPosition}] /\ size_closing \in [Size!Closers -> {"no", "taken", "sold"}]
  BY DEF SizeIInv, SizeTypes
<1>1. CASE UNCHANGED <<size_closing, removed>> BY <1>1
<1>2. ASSUME NEW c \in Size!Closers, removed' = [removed EXCEPT ![c] = size_position],
             size_closing' = [size_closing EXCEPT ![c] = "taken"]
      PROVE  EmptyHands'
  BY <1>t, <1>2
<1>3. ASSUME NEW c \in Size!Closers, Size!Sell(c) PROVE EmptyHands'
  BY <1>t, <1>3 DEF Size!Sell
<1>4. ASSUME NEW c \in Size!Closers, Size!Archive(c) PROVE EmptyHands'
  BY <1>t, <1>4 DEF Size!Archive
<1>5. CASE Size!FilledReport
  BY <1>1, <1>2, <1>5, CloserNames DEF Size!FilledReport
<1>6. ASSUME NEW c \in {"task", "psync"}, Size!Remove(c) PROVE EmptyHands'
  BY <1>2, <1>6, CloserNames DEF Size!Remove
<1>7. CASE \/ Size!BeginOpening \/ Size!EntryFills \/ Size!Insert \/ Size!Decide \/ Size!Decline \/ Size!AddTranche
           \/ Size!ReadPartial \/ Size!ApplyPartial \/ Size!Delist \/ Size!Trigger \/ UNCHANGED Size!vars
  BY <1>1, <1>7
    DEF Size!BeginOpening, Size!EntryFills, Size!Insert, Size!Decide, Size!Decline,
        Size!AddTranche, Size!ReadPartial,
                    Size!ApplyPartial, Size!Delist, Size!Trigger, Size!vars, Size!closes
<1> QED BY <1>3, <1>4, <1>5, <1>6, <1>7 DEF Size!Next

LEMMA PlaceNames == "map" \notin Size!Closers /\ "archive" \notin Size!Closers
BY DEF Size!Closers

(* Ids are numbers; no record has the id 0 of no position.                  *)
LEMMA IdsAreNumbers ==
    ASSUME Size!SizeAssumption, SizeIInv
    PROVE  /\ size_position.id \in Nat
           /\ (size_position # Size!NoPosition => size_position.id \in Size!Openings)
           /\ \A c \in Size!Closers : /\ removed[c].id \in Nat
                                      /\ removed[c] # Size!NoPosition =>
                                           removed[c].id \in Size!Openings
           /\ \A p \in archived : p.id \in Size!Openings
           /\ Size!NoPosition.id = 0 /\ 0 \notin Size!Openings /\ Size!Openings \subseteq Nat
BY DEF Size!SizeAssumption, SizeIInv, SizeTypes, SizeHeld, Size!NoPosition, Size!Openings

(* What moves one position shows at its opening only.                       *)
LEMMA OneMoves ==
    ASSUME NEW o \in Size!Openings, NEW to, Size!Where(o)' = {to},
           \A n \in Size!Openings : n # o => Size!Where(n)' = Size!Where(n)
    PROVE  SizePlaced' = [SizePlaced EXCEPT ![o] = {to}]
<1>1. SizePlaced' = [n \in Size!Openings |-> SizePlaced'[n]] /\ DOMAIN SizePlaced = Size!Openings BY DEF SizePlaced
<1>2. \A n \in Size!Openings :
    SizePlaced'[n] = IF n = o THEN {to} ELSE SizePlaced[n] BY DEF SizePlaced
<1> QED BY <1>1, <1>2

LEMMA NobodyMoves ==
    ASSUME size_position'.id = size_position.id, UNCHANGED <<removed, archived>>
    PROVE  UNCHANGED SizePlaced
<1>1. \A o \in Size!Openings : Size!Where(o)' = Size!Where(o) BY DEF Size!Where
<1> QED BY <1>1 DEF SizePlaced

(* What is in the map is nowhere else, and so is what a closer holds.       *)
LEMMA OnlyInMap ==
    ASSUME Size!SizeAssumption, SizeIInv, size_position # Size!NoPosition
    PROVE  size_position.id \in Size!Openings /\ Size!Where(size_position.id) = {"map"}
<1>1. size_position.id \in Size!Openings /\ size_position.id # 0 BY IdsAreNumbers
<1>2. \A c \in Size!Closers : removed[c].id # size_position.id
  <2> TAKE c \in Size!Closers
  <2>1. CASE removed[c] = Size!NoPosition BY <1>1, <2>1, IdsAreNumbers
  <2>2. CASE removed[c] # Size!NoPosition BY <2>2 DEF SizeIInv, Separate
  <2> QED BY <2>1, <2>2
<1>3. \A p \in archived : p.id # size_position.id BY DEF SizeIInv, Separate
<1> QED BY <1>1, <1>2, <1>3 DEF Size!Where

LEMMA OnlyInHand ==
    ASSUME Size!SizeAssumption, SizeIInv, NEW c \in Size!Closers,
           removed[c] # Size!NoPosition
    PROVE  removed[c].id \in Size!Openings /\ Size!Where(removed[c].id) = {c}
<1>1. removed[c].id \in Size!Openings BY IdsAreNumbers
<1>2. size_position.id # removed[c].id BY DEF SizeIInv, Separate
<1>3. \A d \in Size!Closers : removed[d].id = removed[c].id => d = c
  BY DEF SizeIInv, Separate
<1>4. \A p \in archived : p.id # removed[c].id BY DEF SizeIInv, Separate
<1> QED BY <1>1, <1>2, <1>3, <1>4 DEF Size!Where

(* The opener records a position that was nowhere, after all others.        *)
LEMMA InsertRecords ==
    ASSUME Size!SizeAssumption, SizeIInv, Size!Insert
    PROVE  Size!Life!Record(size_opened)
<1>1. size_position = Size!NoPosition /\ size_opened \in Size!Openings
  BY DEF SizeIInv, SizeTypes, Fresh, Size!Insert, Size!Openings, Size!SizeAssumption
<1>2. \A p \in Size!Positions : p.id < size_opened BY DEF SizeIInv, Size!Insert, Fresh
<1>3. /\ \A c \in Size!Closers : removed[c].id < size_opened /\ removed[c].id \in Nat
      /\ \A p \in archived : p.id < size_opened /\ p.id \in Nat
  BY <1>2, IdsAreNumbers DEF Size!Positions
<1>4. ASSUME NEW n \in Size!Openings, n >= size_opened PROVE Size!Where(n) = {}
  <2>1. n \in Nat /\ size_opened \in Nat /\ n # 0 BY <1>1, IdsAreNumbers
  <2>2. \A c \in Size!Closers : removed[c].id # n BY <1>3, <1>4, <2>1
  <2>3. \A p \in archived : p.id # n BY <1>3, <1>4, <2>1, IdsAreNumbers
  <2>4. size_position.id # n BY <1>1, <2>1, IdsAreNumbers
  <2> QED BY <2>2, <2>3, <2>4 DEF Size!Where
<1>5. \A o \in Size!Openings : "map" \notin Size!Where(o)
  BY <1>1, PlaceNames, IdsAreNumbers DEF Size!Where
<1>6. size_position'.id = size_opened /\ UNCHANGED <<removed, archived, size_opened>>
  BY DEF Size!Insert, Size!closes
<1>o. PICK o \in Size!Openings : o = size_opened BY <1>1
<1>7. Size!Where(o)' = {"map"}
  <2>1. o >= size_opened /\ o # 0 BY <1>1, <1>o, IdsAreNumbers
  <2>2. Size!Where(o) = {} BY <1>1, <1>4, <2>1
  <2>3. \A c \in Size!Closers : removed[c].id # o BY <2>2 DEF Size!Where
  <2>4. \A p \in archived : p.id # o BY <2>2 DEF Size!Where
  <2> QED BY <1>6, <1>o, <2>3, <2>4 DEF Size!Where
<1>8. \A n \in Size!Openings : n # o => Size!Where(n)' = Size!Where(n)
  <2>1. \A n \in Size!Openings : size_position.id # n BY <1>1, IdsAreNumbers
  <2> QED BY <1>6, <1>o, <2>1 DEF Size!Where
<1>9. SizePlaced' = [SizePlaced EXCEPT ![o] = {"map"}] BY <1>1, <1>7, <1>8, OneMoves
<1> QED BY <1>1, <1>4, <1>5, <1>9, <1>o DEF Size!Life!Record, Size!Life!Vacant, SizePlaced

(* A closer whose hands are empty takes what is in the map.                 *)
LEMMA RemovalTakes ==
    ASSUME Size!SizeAssumption, SizeIInv, EmptyHands, NEW c \in Size!Closers,
           size_closing[c] = "no",
           size_position # Size!NoPosition, removed' = [removed EXCEPT ![c] = size_position],
           size_position' = Size!NoPosition, UNCHANGED archived
    PROVE  Size!Life!Take(size_position.id, c)
<1>1. PICK o \in Size!Openings : o = size_position.id /\ Size!Where(o) = {"map"} BY OnlyInMap
<1>2. removed[c] = Size!NoPosition BY DEF EmptyHands
<1>3. \A n \in Size!Openings : c \notin Size!Where(n)
  <2>1. \A n \in Size!Openings : removed[c].id # n BY <1>2, IdsAreNumbers
  <2> QED BY <2>1, PlaceNames DEF Size!Where
<1>4. /\ removed'[c].id = o /\ \A d \in Size!Closers \ {c} : removed'[d] = removed[d]
      /\ \A n \in Size!Openings : size_position'.id # n
  BY <1>1, IdsAreNumbers DEF SizeIInv, SizeTypes
<1>5. Size!Where(o)' = {c}
  <2>1. \A d \in Size!Closers : removed[d].id # o BY <1>1, PlaceNames DEF Size!Where
  <2>2. \A p \in archived : p.id # o BY <1>1 DEF Size!Where
  <2> QED BY <1>1, <1>4, <2>1, <2>2 DEF Size!Where
<1>6. ASSUME NEW n \in Size!Openings, n # o PROVE Size!Where(n)' = Size!Where(n)
  <2>1. removed[c].id # n BY <1>2, IdsAreNumbers
  <2> QED BY <1>1, <1>4, <1>6, <2>1 DEF Size!Where
<1>7. SizePlaced' = [SizePlaced EXCEPT ![o] = {c}] BY <1>1, <1>5, <1>6, OneMoves
<1> QED BY <1>1, <1>3, <1>7
          DEF Size!Life!Take, Size!Life!Moves, Size!Life!Vacant, SizePlaced

(* The closer that has sold puts its record away.                           *)
LEMMA ArchivingSettles ==
    ASSUME Size!SizeAssumption, SizeIInv, NEW c \in Size!Closers, Size!Archive(c)
    PROVE  removed[c].id \in Size!Openings /\ Size!Life!Settle(removed[c].id, c)
<1>1. removed[c] \in SizeHeld /\ removed[c] # Size!NoPosition
  BY HeldIsRecord DEF SizeIInv, SizeTypes, Size!Archive
<1>2. PICK o \in Size!Openings : o = removed[c].id /\ Size!Where(o) = {c}
  BY <1>1, OnlyInHand
<1>3. /\ removed' = [removed EXCEPT ![c] = Size!NoPosition] /\ UNCHANGED size_position
      /\ archived' = archived \cup {removed[c]}
  BY DEF Size!Archive
<1>4. /\ \A n \in Size!Openings : removed'[c].id # n
      /\ \A d \in Size!Closers \ {c} : removed'[d] = removed[d]
  BY <1>3, IdsAreNumbers DEF SizeIInv, SizeTypes
<1>5. Size!Where(o)' = {"archive"}
  <2>1. \A d \in Size!Closers \ {c} : removed[d].id # o BY <1>2, PlaceNames DEF Size!Where
  <2>2. size_position.id # o BY <1>2, PlaceNames DEF Size!Where
  <2> QED BY <1>2, <1>3, <1>4, <2>1, <2>2 DEF Size!Where
<1>6. ASSUME NEW n \in Size!Openings, n # o PROVE Size!Where(n)' = Size!Where(n)
  BY <1>1, <1>2, <1>3, <1>4, <1>6 DEF Size!Where
<1>7. SizePlaced' = [SizePlaced EXCEPT ![o] = {"archive"}] BY <1>2, <1>5, <1>6, OneMoves
<1> QED BY <1>2, <1>7 DEF Size!Life!Settle, Size!Life!Moves, SizePlaced

(* The purge archives what is in the map, if anything is.                   *)
LEMMA DelistWritesOff ==
    ASSUME Size!SizeAssumption, SizeIInv, Size!Delist, size_position # Size!NoPosition
    PROVE  Size!Life!WriteOff(size_position.id)
<1>1. PICK o \in Size!Openings : o = size_position.id /\ Size!Where(o) = {"map"} BY OnlyInMap
<1>2. size_position' = Size!NoPosition /\ UNCHANGED removed /\ archived' = archived \cup {size_position}
  BY DEF Size!Delist
<1>3. \A n \in Size!Openings : size_position'.id # n BY <1>2, IdsAreNumbers
<1>4. Size!Where(o)' = {"archive"}
  <2>1. \A d \in Size!Closers : removed[d].id # o BY <1>1, PlaceNames DEF Size!Where
  <2> QED BY <1>1, <1>2, <1>3, <2>1 DEF Size!Where
<1>5. ASSUME NEW n \in Size!Openings, n # o PROVE Size!Where(n)' = Size!Where(n)
  BY <1>1, <1>2, <1>3, <1>5 DEF Size!Where
<1>6. SizePlaced' = [SizePlaced EXCEPT ![o] = {"archive"}] BY <1>1, <1>4, <1>5, OneMoves
<1> QED BY <1>1, <1>6 DEF Size!Life!WriteOff, Size!Life!Moves, SizePlaced

LEMMA LifeInit == Size!Init => Size!Life!Init
<1> SUFFICES ASSUME Size!Init PROVE Size!Life!Init OBVIOUS
<1>1. \A o \in Size!Openings : Size!Where(o) = {}
  BY DEF Size!Init, Size!Where, Size!NoPosition, Size!Openings
<1>2. [o \in Size!Openings |-> Size!Where(o)] = [o \in Size!Openings |-> {}] BY <1>1
<1> QED BY <1>2 DEF Size!Life!Init

(* Every step records, moves one position on, or leaves all in their place. *)
LEMMA LifeNext ==
    ASSUME Size!SizeAssumption, SizeIInv, EmptyHands, [Size!Next]_Size!vars
    PROVE  [Size!Life!Next]_(Size!Life!lifeVars)
<1> SUFFICES Size!Life!Step \/ UNCHANGED SizePlaced
  <2>1. ASSUME \A o \in Size!Openings : SizePlaced'[o] = SizePlaced[o] PROVE UNCHANGED SizePlaced
    <3>1. \A o \in Size!Openings : Size!Where(o)' = Size!Where(o) BY <2>1 DEF SizePlaced
    <3> QED BY <3>1 DEF SizePlaced
  <2> QED BY <2>1 DEF Size!Life!Next, Size!Life!lifeVars, SizePlaced
<1>1. CASE Size!Insert
  <2>1. size_opened \in Size!Openings
    BY <1>1
      DEF SizeIInv, SizeTypes, Fresh, Size!Insert, Size!Openings, Size!SizeAssumption
  <2> QED BY <1>1, <2>1, InsertRecords DEF Size!Life!Step
<1>2. ASSUME NEW c \in Size!Closers, size_closing[c] = "no",
             size_position # Size!NoPosition,
             removed' = [removed EXCEPT ![c] = size_position], size_position' = Size!NoPosition,
             UNCHANGED archived
      PROVE  Size!Life!Step
  BY <1>2, RemovalTakes, OnlyInMap DEF Size!Life!Step
<1>3. ASSUME NEW c \in {"task", "psync"}, Size!Remove(c) PROVE Size!Life!Step
  BY <1>2, <1>3, CloserNames DEF Size!Remove
<1>4. CASE Size!FilledReport
  <2>1. UNCHANGED archived /\ size_closing["ws"] = "no" BY <1>4 DEF Size!FilledReport
  <2>2. CASE UNCHANGED <<removed, size_closing, size_position>> BY <2>1, <2>2, NobodyMoves
  <2>3. CASE /\ removed' = [removed EXCEPT !["ws"] = size_position]
             /\ size_position' = Size!NoPosition
             /\ size_position # Size!NoPosition
    BY <1>2, <2>1, <2>3, CloserNames
  <2> QED BY <1>4, <2>2, <2>3 DEF Size!FilledReport
<1>5. ASSUME NEW c \in Size!Closers, Size!Archive(c) PROVE Size!Life!Step
  BY <1>5, ArchivingSettles DEF Size!Life!Step
<1>6. CASE Size!Delist
  <2>1. CASE size_position # Size!NoPosition
    BY <1>6, <2>1, DelistWritesOff, OnlyInMap DEF Size!Life!Step
  <2>2. CASE size_position = Size!NoPosition BY <1>6, <2>2, NobodyMoves DEF Size!Delist
  <2> QED BY <2>1, <2>2
<1>7. CASE Size!AddTranche
  <2>1. size_position'.id = size_position.id /\ UNCHANGED <<removed, archived>>
    BY <1>7, Grown, Dropped DEF SizeIInv
  <2> QED BY <2>1, NobodyMoves
<1>8. CASE Size!ApplyPartial
  <2>1. size_position'.id = size_position.id
    BY <1>8 DEF Size!ApplyPartial, SizeIInv, SizeTypes, SizeHeld, Size!NoPosition
  <2> QED BY <1>8, <2>1, NobodyMoves DEF Size!ApplyPartial, Size!closes
<1>9. CASE \/ Size!BeginOpening \/ Size!EntryFills \/ Size!Decide \/ Size!Decline \/ Size!ReadPartial \/ Size!Trigger
           \/ (\E c \in Size!Closers : Size!Sell(c)) \/ UNCHANGED Size!vars
  <2>1. UNCHANGED <<size_position, removed, archived>>
    BY <1>9
      DEF Size!BeginOpening, Size!EntryFills, Size!Decide, Size!Decline,
          Size!ReadPartial, Size!Trigger, Size!Sell, Size!vars, Size!closes
  <2> QED BY <2>1, NobodyMoves
<1> QED BY <1>1, <1>3, <1>4, <1>5, <1>6, <1>7, <1>8, <1>9 DEF Size!Next

(* For any number of openings, each position has one life: recorded once,   *)
(* taken by one closer or written off, archived, and never back, whatever   *)
(* the four writers of the map do between their locks (PositionsMoveOn,     *)
(* PositionSize).                                                           *)
THEOREM SizeImplementsLife == Size!Spec => PositionsMoveOn
<1> USE SizeAssumed
<1>1. Size!Init => EmptyHands BY InitEmptyHands
<1>2. SizeIInv /\ EmptyHands /\ [Size!Next]_Size!vars => EmptyHands' BY HandsStep
<1>3. Size!Init => Size!Life!Init BY LifeInit
<1>4. SizeIInv /\ EmptyHands /\ [Size!Next]_Size!vars =>
    [Size!Life!Next]_(Size!Life!lifeVars) BY LifeNext
<1> QED BY <1>1, <1>2, <1>3, <1>4, SizeInvariant, PTL
          DEF PositionsMoveOn, Size!Spec, Size!PositionsMoveOn, Size!Life!Spec

-----------------------------------------------------------------------------
(***************************************************************************)
(* The books beside the wallet, for any prices, quantities and number of   *)
(* partial fills.  The invariant looks at what is still to be handled: the *)
(* events under way lead from the books of now to the wallet and the       *)
(* position of the exchange (Leads), or a closer holds a record whose      *)
(* booking will (ClosingBooks).  The position is being opened, held or     *)
(* closed by one closer, never two of these (Apart).                       *)
(***************************************************************************)

Part == [kind : {"partial"}, side : {"close", "entry"}, last_qty : {1}, price : Int]
Fill == [kind |-> "filled"]
BooksEvent == Part \cup {Fill}
Record == [qty : 0 .. acct_Qty, entry : Nat]
Filled == [qty : 1 .. acct_Qty, entry : Nat]

BooksTypes ==
    /\ acct_equity \in Int /\ wallet \in Int
    /\ acct_position \in Record /\ held \in {Books!None} \cup Filled
    /\ opening \in {Books!None} \cup Filled
    /\ acct_closing \in [Books!Closers -> [at : {"no", "taken", "cancelled", "sold"},
                                           pos : Record, exit : Int]]
    /\ acct_stream \in Seq(BooksEvent)
    /\ acct_read \in {Books!NoEvent} \cup [kind : {"partial"}, event : Part, entry : Nat]
    /\ sync \in [at : {"idle", "answered", "fix"}, balance : Int]
    /\ consecutive_mismatch \in 0 .. autofix_after_n
    /\ acct_order \in {"none", "working"}
    /\ acct_delisted \in BOOLEAN /\ acct_opened \in BOOLEAN /\ disturbed \in BOOLEAN

\* The events under way, the one between its two looks first.
Queue == IF acct_read = Books!NoEvent THEN acct_stream ELSE <<acct_read.event>> \o acct_stream

\* One phase at a time, and none before the entry has filled.
Apart ==
    /\ ~acct_opened => /\ opening = Books!None /\ acct_position = Books!None /\ Books!Closing = {}
                       /\ held = Books!None
                       /\ acct_order = "none" /\ acct_stream = <<>> /\ acct_read = Books!NoEvent
    /\ opening # Books!None =>
         acct_position = Books!None /\ Books!Closing = {} /\ acct_read = Books!NoEvent
    /\ acct_position # Books!None => Books!Closing = {}
    /\ \A c, d \in Books!Closing : c = d
    /\ (acct_read # Books!NoEvent /\ acct_position # Books!None) =>
         acct_read.entry = acct_position.entry

SalesFollow(events) == \A i \in DOMAIN events : i # 1 => Books!Sale(events[i])
NoFill(events) == \A i \in DOMAIN events : events[i].kind # "filled"
LastOnly(events) == \A i \in DOMAIN events : events[i].kind = "filled" => i = Len(events)

\* Only the first event may tell of the entry; a fill of the whole order ends them.
InTurn ==
    /\ SalesFollow(Queue)
    /\ acct_order = "working" => NoFill(Queue)
    /\ (opening # Books!None \/ acct_position # Books!None) => LastOnly(Queue)

\* Handling e takes the books from m and q to m1 and q1.
Handling(e, entry, m, q, m1, q1) ==
    \/ e.kind = "partial" /\ e.side = "entry" /\ m1 = m /\ q1 = q
    \/ /\ e.kind = "partial" /\ e.side = "close"
       /\ m1 = m + Books!Net(e.last_qty, entry, e.price) /\ q1 = q - e.last_qty /\ q1 >= 1
    \/ /\ e.kind = "filled"
       /\ m1 = m + Books!Net(q, entry, entry + trailing_stop) /\ q1 = 0

\* Handling all the events does; m and q are the books after each of them.
Leads(events, entry, m0, q0, m1, q1) ==
    \E m, q \in [0 .. Len(events) -> Int] :
      /\ m[0] = m0 /\ q[0] = q0 /\ m[Len(events)] = m1 /\ q[Len(events)] = q1
      /\ \A i \in 1 .. Len(events) : Handling(events[i], entry, m[i - 1], q[i - 1], m[i], q[i])

\* What the exchange has come to with a position bought at the entry.
LeadsTo(events, entry, money, qty, balance, rest) ==
    /\ qty >= 1
    /\ Leads(events, entry, money, qty, balance, rest.qty)
    /\ rest.qty > 0 => rest.entry = entry

\* What is booked with the record makes up for what the exchange has done.
ClosingBooks(c) ==
    LET pos == acct_closing[c].pos
    IN  \/ /\ acct_closing[c].at \in {"taken", "cancelled"} /\ c = "task"
           /\ acct_equity = wallet /\ held = pos /\ pos.qty >= 1
        \/ /\ acct_closing[c].at \in {"taken", "cancelled"} /\ c = "stream"
           /\ held.qty = 0
           /\ acct_equity + Books!Net(pos.qty, pos.entry, pos.entry + trailing_stop) = wallet
        \/ /\ acct_closing[c].at = "sold"
           /\ held.qty = 0
           /\ acct_equity + Books!Net(pos.qty, pos.entry, acct_closing[c].exit) = wallet

Balanced ==
    ~disturbed =>
      /\ opening # Books!None =>
           LeadsTo(Queue, opening.entry, acct_equity - opening.qty * acct_commission, opening.qty,
                   wallet, held)
      /\ acct_position # Books!None =>
           LeadsTo(Queue, acct_position.entry, acct_equity, acct_position.qty, wallet, held)
      /\ \A c \in Books!Closing : ClosingBooks(c)
      /\ (opening = Books!None /\ acct_position = Books!None /\ Books!Closing = {}) =>
           acct_equity = wallet /\ held.qty = 0

BooksIInv == BooksTypes /\ Apart /\ InTurn /\ Balanced

-----------------------------------------------------------------------------
(* The parameters, and what the events lead to.                            *)

LEMMA BooksFacts ==
    /\ capital \in Int /\ acct_commission \in Nat /\ acct_Qty \in Nat /\ acct_Qty >= 1
    /\ trailing_stop \in Int
    /\ autofix_after_n \in Nat
    /\ \A p \in acct_Prices : p \in Nat
    /\ \A l \in Fills : l \in Int
BY BooksAssumed DEF Books!BookingAssumption

LEMMA NetType ==
    ASSUME NEW n \in Int, NEW entry \in Int, NEW price \in Int PROVE Books!Net(n, entry,
           price) \in Int
<1>1. n * (price - entry) \in Int /\ n * acct_commission \in Int BY BooksFacts
<1> QED BY <1>1 DEF Books!Net

LEMMA BooksType ==
    ASSUME NEW e \in BooksEvent, NEW entry \in Nat, NEW m \in Int, NEW q \in Int, NEW m1,
           NEW q1,
           Handling(e, entry, m, q, m1, q1)
    PROVE  m1 \in Int /\ q1 \in Int
<1>1. CASE e \in Part
  <2>1. Books!Net(e.last_qty, entry, e.price) \in Int BY <1>1, NetType DEF Part
  <2> QED BY <1>1, <2>1 DEF Handling, Part
<1>2. CASE e = Fill
  <2>1. Books!Net(q, entry, entry + trailing_stop) \in Int BY BooksFacts, NetType
  <2> QED BY <1>2, <2>1 DEF Handling, Fill
<1> QED BY <1>1, <1>2 DEF BooksEvent

LEMMA LeadsNowhere ==
    ASSUME NEW entry, NEW m0 \in Int, NEW q0 \in Int
    PROVE  Leads(<<>>, entry, m0, q0, m0, q0)
<1> DEFINE m == [i \in 0 .. 0 |-> m0]
           q == [i \in 0 .. 0 |-> q0]
<1>1. /\ Len(<<>>) = 0 /\ m \in [0 .. 0 -> Int] /\ q \in [0 .. 0 -> Int]
      /\ m[0] = m0 /\ q[0] = q0
  OBVIOUS
<1>2. \A i \in 1 .. 0 : Handling(<<>>[i], entry, m[i - 1], q[i - 1], m[i], q[i]) OBVIOUS
<1> HIDE DEF m, q
<1> QED BY <1>1, <1>2 DEF Leads

LEMMA NothingLeads ==
    ASSUME NEW entry, NEW m0, NEW q0, NEW m1, NEW q1, Leads(<<>>, entry, m0, q0, m1, q1)
    PROVE  m1 = m0 /\ q1 = q0
BY DEF Leads

(* One more event takes the books one step further.                        *)
LEMMA LeadsFurther ==
    ASSUME NEW events \in Seq(BooksEvent), NEW entry \in Nat, NEW m0, NEW q0, NEW m1,
           NEW q1,
           Leads(events, entry, m0, q0, m1, q1),
           NEW e \in BooksEvent, NEW m2, NEW q2, Handling(e, entry, m1, q1, m2, q2)
    PROVE  Leads(Append(events, e), entry, m0, q0, m2, q2)
<1> DEFINE n == Len(events)
           more == Append(events, e)
<1>1. PICK m \in [0 .. n -> Int], q \in [0 .. n -> Int] :
        /\ m[0] = m0 /\ q[0] = q0 /\ m[n] = m1 /\ q[n] = q1
        /\ \A i \in 1 .. n : Handling(events[i], entry, m[i - 1], q[i - 1], m[i], q[i])
  BY DEF Leads
<1>2. /\ n \in Nat /\ Len(more) = n + 1 /\ more[n + 1] = e
      /\ \A i \in 1 .. n : more[i] = events[i]
  OBVIOUS
<1> HIDE DEF n, more
<1>3. m1 \in Int /\ q1 \in Int BY <1>1, <1>2
<1>4. m2 \in Int /\ q2 \in Int BY <1>3, BooksType
<1> DEFINE mm == [i \in 0 .. n + 1 |-> IF i = n + 1 THEN m2 ELSE m[i]]
           qq == [i \in 0 .. n + 1 |-> IF i = n + 1 THEN q2 ELSE q[i]]
<1>5. \A i \in 0 .. n + 1 : i = n + 1 \/ i \in 0 .. n BY <1>2
<1>6. mm \in [0 .. n + 1 -> Int] /\ qq \in [0 .. n + 1 -> Int] BY <1>1, <1>4, <1>5
<1>7. /\ mm[n + 1] = m2 /\ qq[n + 1] = q2
      /\ \A i \in 0 .. n : mm[i] = m[i] /\ qq[i] = q[i]
  BY <1>2
<1> HIDE DEF mm, qq
<1>8. ASSUME NEW i \in 1 .. n + 1
      PROVE  Handling(more[i], entry, mm[i - 1], qq[i - 1], mm[i], qq[i])
  <2>1. CASE i \in 1 .. n
    <3>1. i \in 0 .. n /\ i - 1 \in 0 .. n BY <1>2, <2>1
    <3> QED BY <1>1, <1>2, <1>7, <2>1, <3>1
  <2>2. CASE i = n + 1
    <3>1. i - 1 = n /\ n \in 0 .. n BY <1>2, <2>2
    <3>2. mm[n] = m1 /\ qq[n] = q1 BY <1>1, <1>7, <3>1
    <3> QED BY <1>2, <1>7, <2>2, <3>1, <3>2
  <2> QED BY <1>2, <2>1, <2>2
<1>9. mm[0] = m0 /\ qq[0] = q0
  <2>1. 0 \in 0 .. n BY <1>2
  <2> QED BY <1>1, <1>7, <2>1
<1> QED BY <1>2, <1>6, <1>7, <1>8, <1>9 DEF Leads, more

(* The first event is handled, and the others lead on from there.          *)
LEMMA LeadsOn ==
    ASSUME NEW events \in Seq(BooksEvent), events # <<>>, NEW entry \in Nat,
           NEW m0, NEW q0, NEW m1, NEW q1, Leads(events, entry, m0, q0, m1, q1)
    PROVE  \E m \in Int, q \in Int : /\ Handling(Head(events), entry, m0, q0, m, q)
                                     /\ Leads(Tail(events), entry, m, q, m1, q1)
<1> DEFINE n == Len(events)
           rest == Tail(events)
<1>1. PICK m \in [0 .. n -> Int], q \in [0 .. n -> Int] :
        /\ m[0] = m0 /\ q[0] = q0 /\ m[n] = m1 /\ q[n] = q1
        /\ \A i \in 1 .. n : Handling(events[i], entry, m[i - 1], q[i - 1], m[i], q[i])
  BY DEF Leads
<1>2. /\ n \in Nat /\ n >= 1 /\ Len(rest) = n - 1 /\ Head(events) = events[1]
      /\ \A i \in 1 .. n - 1 : rest[i] = events[i + 1]
  OBVIOUS
<1> HIDE DEF n, rest
<1> DEFINE mm == [i \in 0 .. n - 1 |-> m[i + 1]]
           qq == [i \in 0 .. n - 1 |-> q[i + 1]]
<1>3. \A i \in 0 .. n - 1 : i + 1 \in 0 .. n BY <1>2
<1>4. mm \in [0 .. n - 1 -> Int] /\ qq \in [0 .. n - 1 -> Int] BY <1>1, <1>3
<1>5. \A i \in 0 .. n - 1 : mm[i] = m[i + 1] /\ qq[i] = q[i + 1] OBVIOUS
<1> HIDE DEF mm, qq
<1>6. ASSUME NEW i \in 1 .. n - 1
      PROVE  Handling(rest[i], entry, mm[i - 1], qq[i - 1], mm[i], qq[i])
  <2>1. /\ i \in 0 .. n - 1 /\ i - 1 \in 0 .. n - 1 /\ i + 1 \in 1 .. n
        /\ (i - 1) + 1 = i /\ (i + 1) - 1 = i
    BY <1>2
  <2> QED BY <1>1, <1>2, <1>5, <2>1
<1>7. /\ mm[0] = m[1] /\ qq[0] = q[1] /\ mm[n - 1] = m1 /\ qq[n - 1] = q1
      /\ m[1] \in Int /\ q[1] \in Int
  <2>1. /\ 0 \in 0 .. n - 1 /\ n - 1 \in 0 .. n - 1 /\ 0 + 1 = 1 /\ (n - 1) + 1 = n
        /\ 1 \in 0 .. n
    BY <1>2
  <2> QED BY <1>1, <1>5, <2>1
<1>8. Leads(rest, entry, m[1], q[1], m1, q1) BY <1>2, <1>4, <1>6, <1>7 DEF Leads
<1>9. Handling(events[1], entry, m0, q0, m[1], q[1])
  <2>1. 1 \in 1 .. n /\ 1 - 1 = 0 BY <1>2
  <2> QED BY <1>1, <2>1
<1> QED BY <1>2, <1>7, <1>8, <1>9 DEF rest

LEMMA TurnsGrow ==
    ASSUME NEW events \in Seq(BooksEvent), NEW e \in BooksEvent, Books!Sale(e),
           SalesFollow(events)
    PROVE  /\ SalesFollow(Append(events, e))
           /\ NoFill(events) => LastOnly(Append(events, e))
           /\ NoFill(events) /\ e.kind # "filled" => NoFill(Append(events, e))
<1> DEFINE more == Append(events, e)
<1>1. /\ Len(events) \in Nat /\ Len(more) = Len(events) + 1 /\ more[Len(events) + 1] = e
      /\ \A i \in DOMAIN more : i \in DOMAIN events \/ i = Len(events) + 1
      /\ \A i \in DOMAIN events : more[i] = events[i]
  OBVIOUS
<1> HIDE DEF more
<1> QED BY <1>1 DEF SalesFollow, NoFill, LastOnly, more

LEMMA TurnsPass ==
    ASSUME NEW events \in Seq(BooksEvent), events # <<>>
    PROVE  /\ SalesFollow(events) => SalesFollow(Tail(events))
           /\ NoFill(events) => NoFill(Tail(events))
           /\ LastOnly(events) => LastOnly(Tail(events))
<1> DEFINE rest == Tail(events)
<1>1. /\ Len(events) \in Nat /\ Len(events) >= 1 /\ Len(rest) = Len(events) - 1
      /\ \A i \in DOMAIN rest :
           i \in Nat /\ i >= 1 /\ i + 1 \in DOMAIN events /\ rest[i] = events[i + 1]
  OBVIOUS
<1> HIDE DEF rest
<1>2. \A i \in DOMAIN rest : i + 1 # 1 /\ (i + 1 = Len(events) => i = Len(rest)) BY <1>1
<1> QED BY <1>1, <1>2 DEF SalesFollow, NoFill, LastOnly, rest

-----------------------------------------------------------------------------
(* The events under way.                                                   *)

LEMMA BooksPiecesAssociate ==
    ASSUME NEW s \in Seq(BooksEvent), NEW t \in Seq(BooksEvent), NEW u \in Seq(BooksEvent)
    PROVE  (s \o t) \o u = s \o (t \o u)
BY ConcatAssociative

LEMMA BooksAppendLast ==
    ASSUME NEW s \in Seq(BooksEvent), NEW e \in BooksEvent PROVE Append(s, e) = s \o <<e>>
BY AppendIsConcat

LEMMA ReadType ==
    ASSUME BooksTypes, acct_read # Books!NoEvent
    PROVE  acct_read \in [kind : {"partial"}, event : Part, entry : Nat] /\ acct_read.event \in Part
BY DEF BooksTypes

LEMMA QueueType == BooksTypes => Queue \in Seq(BooksEvent)
<1> SUFFICES ASSUME BooksTypes PROVE Queue \in Seq(BooksEvent) OBVIOUS
<1>1. acct_stream \in Seq(BooksEvent) BY DEF BooksTypes
<1>2. CASE acct_read # Books!NoEvent
  <2>1. <<acct_read.event>> \in Seq(BooksEvent) BY <1>2, ReadType DEF BooksEvent
  <2> QED BY <1>1, <1>2, <2>1 DEF Queue
<1> QED BY <1>1, <1>2 DEF Queue

LEMMA QueueKeeps ==
    ASSUME UNCHANGED <<acct_read, acct_stream>> PROVE Queue' = Queue
BY DEF Queue

LEMMA QueueGrows ==
    ASSUME BooksTypes, NEW e \in BooksEvent, acct_read' = acct_read,
           acct_stream' = Append(acct_stream, e)
    PROVE  Queue' = Append(Queue, e)
<1>1. acct_stream \in Seq(BooksEvent) BY DEF BooksTypes
<1>2. CASE acct_read # Books!NoEvent
  <2>1. <<acct_read.event>> \in Seq(BooksEvent) BY <1>2, ReadType DEF BooksEvent
  <2> DEFINE first == <<acct_read.event>>
  <2>2. Queue' = first \o Append(acct_stream, e) /\ Queue = first \o acct_stream
    BY <1>2 DEF Queue
  <2>3. Append(acct_stream, e) = acct_stream \o <<e>> BY <1>1, BooksAppendLast
  <2>4. Append(Queue, e) = Queue \o <<e>> BY QueueType, BooksAppendLast
  <2> HIDE DEF first
  <2>5. first \in Seq(BooksEvent) /\ <<e>> \in Seq(BooksEvent) BY <2>1 DEF first
  <2> QED BY <1>1, <2>2, <2>3, <2>4, <2>5, BooksPiecesAssociate
<1> QED BY <1>1, <1>2 DEF Queue

(* The handler takes the first event of the stream, to read it or to be done with it. *)
LEMMA QueueRead ==
    ASSUME BooksTypes, acct_read = Books!NoEvent, acct_stream # <<>>, acct_stream' = Tail(acct_stream),
           acct_read' # Books!NoEvent, acct_read'.event = Head(acct_stream)
    PROVE  Queue' = Queue
<1>1. acct_stream \in Seq(BooksEvent) BY DEF BooksTypes
<1>2. <<Head(acct_stream)>> \o Tail(acct_stream) = acct_stream BY <1>1
<1> QED BY <1>2 DEF Queue

LEMMA QueueDrops ==
    ASSUME BooksTypes, acct_read = Books!NoEvent, acct_stream # <<>>,
             acct_stream' = Tail(acct_stream), acct_read' = Books!NoEvent
    PROVE  /\ Queue # <<>> /\ Head(Queue) = Head(acct_stream) /\ Queue' = Tail(Queue)
           /\ Head(acct_stream) \in BooksEvent
<1>1. acct_stream \in Seq(BooksEvent) BY DEF BooksTypes
<1> QED BY <1>1 DEF Queue

LEMMA QueueApplies ==
    ASSUME BooksTypes, acct_read # Books!NoEvent, acct_read' = Books!NoEvent,
           acct_stream' = acct_stream
    PROVE  /\ Queue # <<>> /\ Head(Queue) = acct_read.event /\ Queue' = Tail(Queue)
<1>1. acct_stream \in Seq(BooksEvent) BY DEF BooksTypes
<1> DEFINE e == acct_read.event
<1>2. e \in BooksEvent BY ReadType DEF BooksEvent
<1>3. Queue = <<e>> \o acct_stream /\ Queue' = acct_stream BY DEF Queue
<1> HIDE DEF e
<1>4. <<e>> \o acct_stream # <<>> /\ Head(<<e>> \o acct_stream) = e /\ Tail(<<e>> \o acct_stream) = acct_stream
  BY <1>1, <1>2
<1> QED BY <1>3, <1>4 DEF e

-----------------------------------------------------------------------------
(* One lemma for each action of the exchange and the opener.               *)

LEMMA BooksInitIInv == Books!Init => BooksIInv
<1> SUFFICES ASSUME Books!Init PROVE BooksIInv OBVIOUS
<1>1. Books!Closing = {} BY DEF Books!Init, Books!Closing, Books!NotClosing
<1>2. Queue = <<>> BY DEF Books!Init, Queue
<1>3. BooksTypes
  <2>1. Books!None \in Record /\ Books!NotClosing \in [at : {"no", "taken", "cancelled", "sold"},
                                                       pos : Record, exit : Int]
    BY BooksFacts DEF Books!None, Books!NotClosing, Record
  <2>2. acct_closing \in [Books!Closers -> [at : {"no", "taken", "cancelled", "sold"},
                                            pos : Record, exit : Int]]
    BY <2>1 DEF Books!Init
  <2>3. sync \in [at : {"idle", "answered", "fix"}, balance : Int]
    BY DEF Books!Init, Books!NoBalance
  <2>4. consecutive_mismatch \in 0 .. autofix_after_n BY BooksFacts DEF Books!Init
  <2>5. acct_stream \in Seq(BooksEvent) BY DEF Books!Init
  <2> QED BY <2>1, <2>2, <2>3, <2>4, <2>5, BooksFacts DEF Books!Init, BooksTypes
<1>4. Apart BY <1>1 DEF Books!Init, Apart
<1>5. InTurn BY <1>2 DEF Books!Init, InTurn, SalesFollow, NoFill, LastOnly
<1>6. Balanced BY <1>1 DEF Books!Init, Balanced, Books!None
<1> QED BY <1>3, <1>4, <1>5, <1>6 DEF BooksIInv

LEMMA SoldType ==
    ASSUME BooksTypes, NEW n \in 1 .. held.qty, NEW price \in Int, Books!Sold(n, price)
    PROVE  /\ wallet' \in Int /\ held' \in {Books!None} \cup Filled
           /\ wallet' = wallet + Books!Net(n, held.entry, price)
           /\ held'.qty = held.qty - n
           /\ held'.qty > 0 => held'.entry = held.entry
<1>1. held \in Filled BY DEF BooksTypes, Books!None, Filled
<1>2. held.qty \in Nat /\ held.entry \in Nat /\ n \in Int /\ held.qty <= acct_Qty
  BY <1>1, BooksFacts DEF Filled
<1>3. Books!Net(n, held.entry, price) \in Int
  <2>1. n \in Int /\ held.entry \in Int BY <1>2
  <2> QED BY <2>1, NetType
<1>4. CASE n = held.qty
  BY <1>1, <1>2, <1>3, <1>4 DEF Books!Sold, BooksTypes, Books!None
<1>5. CASE n # held.qty
  <2>1. held' = [held EXCEPT !.qty = held.qty - n] BY <1>5 DEF Books!Sold
  <2>2. held = [qty |-> held.qty, entry |-> held.entry] BY <1>1 DEF Filled
  <2>3. held' = [qty |-> held.qty - n, entry |-> held.entry]
    <3> DEFINE q == held.qty
               f == held.entry
    <3>1. held = [qty |-> q, entry |-> f] /\ held' = [held EXCEPT !.qty = q - n] BY <2>1, <2>2
    <3> HIDE DEF q, f
    <3>2. held' = [qty |-> q - n, entry |-> f] BY <3>1
    <3> QED BY <3>2 DEF q, f
  <2>4. held.qty - n \in 1 .. acct_Qty BY <1>2, <1>5, BooksFacts
  <2>5. wallet' \in Int /\ wallet' = wallet + Books!Net(n, held.entry, price)
    BY <1>3 DEF Books!Sold, BooksTypes
  <2>6. held' \in Filled BY <1>2, <2>3, <2>4 DEF Filled
  <2> QED BY <2>3, <2>5, <2>6
<1> QED BY <1>4, <1>5

(* What the exchange sells while the record waits is one event more.       *)
LEMMA WalletFollows ==
    ASSUME NEW events \in Seq(BooksEvent), NEW entry \in Nat, NEW money \in Int,
           NEW qty \in Int,
           NEW balance, NEW rest, LeadsTo(events, entry, money, qty, balance, rest),
           NEW e \in BooksEvent, NEW balance2, NEW rest2,
           Handling(e, entry, balance, rest.qty, balance2, rest2.qty),
           rest2.qty > 0 => rest2.entry = entry
    PROVE  LeadsTo(Append(events, e), entry, money, qty, balance2, rest2)
<1>1. Leads(Append(events, e), entry, money, qty, balance2, rest2.qty)
  BY LeadsFurther DEF LeadsTo
<1> QED BY <1>1 DEF LeadsTo

LEMMA OpeningType ==
    ASSUME BooksTypes, opening # Books!None
    PROVE  /\ opening.entry \in Nat /\ opening.qty \in Int /\ opening.qty >= 1
           /\ acct_equity - opening.qty * acct_commission \in Int
<1>1. opening \in Filled BY DEF BooksTypes
<1>2. opening.entry \in Nat /\ opening.qty \in Int /\ opening.qty >= 1
  BY <1>1, BooksFacts DEF Filled
<1>3. opening.qty * acct_commission \in Int BY <1>2, BooksFacts
<1> QED BY <1>2, <1>3 DEF BooksTypes

LEMMA PositionType ==
    ASSUME BooksTypes
    PROVE  acct_position.entry \in Nat /\ acct_position.qty \in Nat /\ acct_position.qty <= acct_Qty /\ acct_equity \in Int
BY BooksFacts DEF BooksTypes, Record

LEMMA TriggerInPartKeepsIInv == ASSUME BooksIInv, Books!TriggerInPart PROVE BooksIInv'
<1> USE DEF BooksIInv
<1>1. PICK level \in Fills :
        /\ Books!Sold(1, held.entry + level)
        /\ acct_stream' = Append(acct_stream, Books!Partial("close", 1, held.entry + level))
  BY DEF Books!TriggerInPart
<1> DEFINE price == held.entry + level
           e == Books!Partial("close", 1, price)
<1>2. held.qty > 1 /\ held.qty \in Nat /\ held.entry \in Nat
  BY BooksFacts DEF Books!TriggerInPart, BooksTypes, Books!None, Filled
<1>3. price \in Int /\ 1 \in 1 .. held.qty BY <1>2, BooksFacts
<1>4. e \in BooksEvent /\ Books!Sale(e) /\ e.kind = "partial" /\ e.side = "close" /\ e.last_qty = 1
      /\ e.price = price
  BY <1>3 DEF BooksEvent, Part, Books!Partial, Books!Sale
<1>5. Books!Sold(1, price) /\ acct_stream' = Append(acct_stream, e) BY <1>1
<1> HIDE DEF price, e
<1>6. /\ wallet' \in Int /\ held' \in {Books!None} \cup Filled
      /\ wallet' = wallet + Books!Net(1, held.entry, price)
      /\ held'.qty = held.qty - 1
      /\ held'.qty > 0 => held'.entry = held.entry
  BY <1>3, <1>5, SoldType
<1>7. /\ acct_equity' = acct_equity /\ acct_position' = acct_position /\ opening' = opening
      /\ acct_closing' = acct_closing
      /\ acct_read' = acct_read /\ acct_order' = acct_order /\ acct_opened' = acct_opened
      /\ Books!Closing' = Books!Closing
  BY DEF Books!TriggerInPart, Books!engine, Books!Closing
<1>8. Queue' = Append(Queue, e) /\ Queue \in Seq(BooksEvent)
  BY <1>4, <1>5, <1>7, QueueGrows, QueueType
<1>9. BooksTypes'
  <2>1. acct_stream' \in Seq(BooksEvent) BY <1>4, <1>5 DEF BooksTypes
  <2> QED BY <1>6, <1>7, <2>1 DEF BooksTypes, Books!TriggerInPart, Books!repair
<1>10. Apart' BY <1>2, <1>7 DEF Apart, Books!None
<1>11. InTurn' BY <1>4, <1>7, <1>8, TurnsGrow DEF InTurn, Books!TriggerInPart
<1>12. Balanced'
  <2> SUFFICES ASSUME ~disturbed' PROVE
        /\ opening # Books!None =>
             LeadsTo(Append(Queue, e), opening.entry, acct_equity - opening.qty * acct_commission,
                     opening.qty, wallet', held')
        /\ acct_position # Books!None =>
             LeadsTo(Append(Queue, e), acct_position.entry, acct_equity, acct_position.qty, wallet', held')
        /\ opening # Books!None \/ acct_position # Books!None
        /\ Books!Closing = {}
    BY <1>7, <1>8 DEF Balanced
  <2>1. ~disturbed /\ Books!Closing = {} BY <1>2, <1>7 DEF Books!TriggerInPart
  <2>2. opening # Books!None \/ acct_position # Books!None BY <1>2, <2>1 DEF Balanced
  <2>3. ASSUME NEW entry \in Nat, NEW money \in Int, NEW qty \in Int,
               LeadsTo(Queue, entry, money, qty, wallet, held)
        PROVE  LeadsTo(Append(Queue, e), entry, money, qty, wallet', held')
    <3>1. held.entry = entry BY <1>2, <2>3 DEF LeadsTo
    <3>2. Handling(e, entry, wallet, held.qty, wallet', held'.qty)
      BY <1>2, <1>4, <1>6, <3>1 DEF Handling
    <3>3. held'.qty > 0 => held'.entry = entry BY <1>6, <3>1
    <3> QED BY <1>4, <1>8, <2>3, <3>2, <3>3, WalletFollows
  <2>4. opening # Books!None =>
          LeadsTo(Append(Queue, e), opening.entry, acct_equity - opening.qty * acct_commission,
                  opening.qty, wallet', held')
    BY <2>1, <2>3, OpeningType DEF Balanced
  <2>5. acct_position # Books!None =>
          LeadsTo(Append(Queue, e), acct_position.entry, acct_equity, acct_position.qty, wallet', held')
    <3>1. acct_position.entry \in Nat /\ acct_equity \in Int /\ acct_position.qty \in Int
      BY PositionType
    <3>2. acct_position # Books!None =>
        LeadsTo(Queue, acct_position.entry, acct_equity, acct_position.qty, wallet, held)
      BY <2>1 DEF Balanced
    <3> QED BY <2>3, <3>1, <3>2
  <2> QED BY <2>1, <2>2, <2>4, <2>5
<1> QED BY <1>9, <1>10, <1>11, <1>12

LEMMA TriggerKeepsIInv == ASSUME BooksIInv, Books!Trigger PROVE BooksIInv'
<1> USE DEF BooksIInv
<1>1. PICK level \in Fills :
        /\ Books!Sold(held.qty, held.entry + level)
        /\ disturbed' = (disturbed \/ level # trailing_stop \/ Books!Closing # {})
  BY DEF Books!Trigger
<1> DEFINE price == held.entry + level
<1>2. held.qty > 0 /\ held.qty \in Nat /\ held.entry \in Nat
  BY BooksFacts DEF Books!Trigger, BooksTypes, Books!None, Filled
<1>3. price \in Int /\ held.qty \in 1 .. held.qty BY <1>2, BooksFacts
<1>4. Fill \in BooksEvent /\ Books!Sale(Fill) /\ Fill.kind = "filled"
  BY DEF BooksEvent, Fill, Books!Sale
<1>5. Books!Sold(held.qty, price) /\ acct_stream' = Append(acct_stream, Fill)
  BY <1>1 DEF Books!Trigger, Fill
<1> HIDE DEF price
<1>6. /\ wallet' \in Int /\ held' \in {Books!None} \cup Filled
      /\ wallet' = wallet + Books!Net(held.qty, held.entry, price)
      /\ held'.qty = held.qty - held.qty
      /\ held'.qty > 0 => held'.entry = held.entry
  BY <1>3, <1>5, SoldType
<1>7. /\ acct_equity' = acct_equity /\ acct_position' = acct_position /\ opening' = opening
      /\ acct_closing' = acct_closing
      /\ acct_read' = acct_read /\ acct_order = "working" /\ acct_order' = "none"
      /\ acct_opened' = acct_opened
      /\ Books!Closing' = Books!Closing
  BY DEF Books!Trigger, Books!engine, Books!Closing
<1>8. Queue' = Append(Queue, Fill) /\ Queue \in Seq(BooksEvent)
  BY <1>4, <1>5, <1>7, QueueGrows, QueueType
<1>9. BooksTypes'
  <2>1. acct_stream' \in Seq(BooksEvent) BY <1>4, <1>5 DEF BooksTypes
  <2>2. disturbed' \in BOOLEAN BY <1>1 DEF BooksTypes
  <2> QED BY <1>6, <1>7, <2>1, <2>2 DEF BooksTypes, Books!Trigger, Books!repair
<1>10. Apart' BY <1>2, <1>7 DEF Apart, Books!None
<1>11. InTurn' BY <1>4, <1>7, <1>8, TurnsGrow DEF InTurn
<1>12. Balanced'
  <2> SUFFICES ASSUME ~disturbed' PROVE
        /\ opening # Books!None =>
             LeadsTo(Append(Queue, Fill), opening.entry, acct_equity - opening.qty * acct_commission,
                     opening.qty, wallet', held')
        /\ acct_position # Books!None =>
             LeadsTo(Append(Queue, Fill), acct_position.entry, acct_equity, acct_position.qty, wallet', held')
        /\ opening # Books!None \/ acct_position # Books!None
        /\ Books!Closing = {}
    BY <1>7, <1>8 DEF Balanced
  <2>1. ~disturbed /\ Books!Closing = {} /\ level = trailing_stop BY <1>1
  <2>2. opening # Books!None \/ acct_position # Books!None BY <1>2, <2>1 DEF Balanced
  <2>3. ASSUME NEW entry \in Nat, NEW money \in Int, NEW qty \in Int,
               LeadsTo(Queue, entry, money, qty, wallet, held)
        PROVE  LeadsTo(Append(Queue, Fill), entry, money, qty, wallet', held')
    <3>1. held.entry = entry BY <1>2, <2>3 DEF LeadsTo
    <3>2. price = entry + trailing_stop BY <2>1, <3>1 DEF price
    <3>3. held'.qty = 0 BY <1>2, <1>6
    <3>4. Handling(Fill, entry, wallet, held.qty, wallet', held'.qty)
      BY <1>4, <1>6, <3>1, <3>2, <3>3 DEF Handling
    <3>5. held'.qty > 0 => held'.entry = entry BY <1>6, <3>1
    <3> QED BY <1>4, <1>8, <2>3, <3>4, <3>5, WalletFollows
  <2>4. opening # Books!None =>
          LeadsTo(Append(Queue, Fill), opening.entry, acct_equity - opening.qty * acct_commission,
                  opening.qty, wallet', held')
    BY <2>1, <2>3, OpeningType DEF Balanced
  <2>5. acct_position # Books!None =>
          LeadsTo(Append(Queue, Fill), acct_position.entry, acct_equity, acct_position.qty, wallet', held')
    <3>1. acct_position.entry \in Nat /\ acct_equity \in Int /\ acct_position.qty \in Int
      BY PositionType
    <3>2. acct_position # Books!None =>
        LeadsTo(Queue, acct_position.entry, acct_equity, acct_position.qty, wallet, held)
      BY <2>1 DEF Balanced
    <3> QED BY <2>3, <3>1, <3>2
  <2> QED BY <2>1, <2>2, <2>4, <2>5
<1> QED BY <1>9, <1>10, <1>11, <1>12

LEMMA EntryFillsKeepsIInv == ASSUME BooksIInv, Books!EntryFills PROVE BooksIInv'
<1> USE DEF BooksIInv
<1>1. PICK price \in acct_Prices, parts \in BOOLEAN :
        /\ opening' = [qty |-> acct_Qty, entry |-> price]
        /\ held' = opening'
        /\ acct_stream' = IF parts /\ acct_Qty > 1 THEN Append(acct_stream, Books!Partial("entry", 1, price))
                          ELSE acct_stream
  BY DEF Books!EntryFills
<1> DEFINE e == Books!Partial("entry", 1, price)
<1>2. e \in BooksEvent /\ e.kind = "partial" /\ e.side = "entry"
  BY BooksFacts DEF BooksEvent, Part, Books!Partial
<1>3. acct_stream' = acct_stream \/ acct_stream' = Append(acct_stream, e) BY <1>1
<1> HIDE DEF e
<1>4. /\ opening = Books!None /\ acct_position = Books!None /\ Books!Closing = {}
      /\ held = Books!None
      /\ acct_stream = <<>> /\ acct_read = Books!NoEvent /\ Queue = <<>> /\ acct_opened' = TRUE
  BY DEF Apart, Books!EntryFills, Queue
<1>5. /\ acct_equity' = acct_equity /\ acct_position' = acct_position
      /\ acct_closing' = acct_closing /\ acct_read' = acct_read
      /\ disturbed' = disturbed /\ wallet' = wallet - acct_Qty * acct_commission
      /\ Books!Closing' = Books!Closing
  BY DEF Books!EntryFills, Books!Closing
<1>6. opening' \in Filled /\ opening'.qty = acct_Qty /\ opening'.entry = price /\ opening' # Books!None
  BY <1>1, BooksFacts DEF Filled, Books!None
<1>7. Queue' = <<>> \/ Queue' = <<e>>
  <2>1. CASE acct_stream' = acct_stream BY <1>4, <1>5, <2>1 DEF Queue
  <2>2. CASE acct_stream' = Append(acct_stream, e)
    BY <1>2, <1>4, <1>5, <2>2, QueueGrows
  <2> QED BY <1>3, <2>1, <2>2
<1>8. BooksTypes'
  <2>1. acct_stream' \in Seq(BooksEvent) BY <1>2, <1>3 DEF BooksTypes
  <2>2. acct_Qty * acct_commission \in Int BY BooksFacts
  <2>3. wallet' \in Int BY <1>5, <2>2 DEF BooksTypes
  <2>4. held' \in {Books!None} \cup Filled BY <1>1, <1>6
  <2>5. opening' \in {Books!None} \cup Filled BY <1>6
  <2> QED BY <1>5, <2>1, <2>3, <2>4, <2>5 DEF BooksTypes, Books!EntryFills, Books!repair
<1>9. Apart' BY <1>4, <1>5 DEF Apart
<1>10. InTurn' BY <1>2, <1>7 DEF InTurn, SalesFollow, NoFill, LastOnly
<1>11. Balanced'
  <2> SUFFICES ASSUME ~disturbed' PROVE
        LeadsTo(Queue', opening'.entry, acct_equity - opening'.qty * acct_commission, opening'.qty,
                wallet', held')
    BY <1>4, <1>5, <1>6 DEF Balanced
  <2>1. wallet = acct_equity BY <1>4, <1>5 DEF Balanced
  <2>2. opening'.qty \in Int /\ opening'.qty >= 1 /\ price \in Nat BY <1>6, BooksFacts
  <2> DEFINE money == acct_equity - opening'.qty * acct_commission
  <2>3. wallet' = money BY <1>5, <1>6, <2>1
  <2>4. money \in Int
    <3>1. acct_Qty * acct_commission \in Int BY BooksFacts
    <3> QED BY <1>6, <3>1 DEF BooksTypes
  <2> HIDE DEF money
  <2>5. Leads(<<>>, price, money, opening'.qty, money, opening'.qty)
    BY <2>2, <2>4, LeadsNowhere
  <2>6. LeadsTo(<<>>, price, money, opening'.qty, money, held')
    BY <1>1, <1>6, <2>2, <2>5 DEF LeadsTo
  <2>7. Handling(e, price, money, held'.qty, money, held'.qty) BY <1>2 DEF Handling
  <2>8. LeadsTo(Append(<<>>, e), price, money, opening'.qty, money, held')
    <3>1. held'.qty > 0 => held'.entry = price BY <1>1, <1>6
    <3>2. <<>> \in Seq(BooksEvent) OBVIOUS
    <3> QED BY <1>2, <2>2, <2>4, <2>6, <2>7, <3>1, <3>2, WalletFollows
  <2>9. Append(<<>>, e) = <<e>> OBVIOUS
  <2> QED BY <1>6, <1>7, <2>3, <2>6, <2>8, <2>9 DEF money
<1> QED BY <1>8, <1>9, <1>10, <1>11

LEMMA InsertKeepsIInv == ASSUME BooksIInv, Books!Insert PROVE BooksIInv'
<1> USE DEF BooksIInv
<1>1. /\ opening # Books!None /\ acct_position' = opening /\ opening' = Books!None
      /\ acct_equity' = acct_equity - opening.qty * acct_commission
      /\ acct_closing' = acct_closing /\ acct_read' = acct_read /\ acct_stream' = acct_stream
      /\ wallet' = wallet
      /\ held' = held /\ acct_order' = acct_order /\ acct_opened' = acct_opened
      /\ disturbed' = disturbed
      /\ Books!Closing' = Books!Closing
  BY DEF Books!Insert, Books!exchange, Books!Closing
<1>2. acct_position = Books!None /\ Books!Closing = {} /\ acct_read = Books!NoEvent /\ acct_opened
  BY <1>1 DEF Apart, BooksTypes
<1>3. Queue' = Queue BY <1>1, QueueKeeps
<1>4. BooksTypes'
  <2>1. acct_position' \in Record
    BY <1>1, BooksFacts DEF BooksTypes, Filled, Record, Books!None
  <2>2. acct_equity' \in Int BY <1>1, OpeningType
  <2> QED BY <1>1, <2>1, <2>2 DEF BooksTypes, Books!Insert, Books!repair
<1>5. Apart' BY <1>1, <1>2 DEF Apart
<1>6. InTurn' BY <1>1, <1>3 DEF InTurn
<1>7. Balanced' BY <1>1, <1>2, <1>3 DEF Balanced
<1> QED BY <1>4, <1>5, <1>6, <1>7

-----------------------------------------------------------------------------
(* The stream handler.                                                     *)

(* An event is done with, and the record is what its handling leaves of it. *)
LEMMA RecordFollows ==
    ASSUME NEW events \in Seq(BooksEvent), events # <<>>, NEW entry \in Nat,
           NEW money, NEW qty, NEW balance, NEW rest,
           LeadsTo(events, entry, money, qty, balance, rest)
    PROVE  \E m \in Int, q \in Int :
             /\ Handling(Head(events), entry, money, qty, m, q)
             /\ q >= 1 => LeadsTo(Tail(events), entry, m, q, balance, rest)
             /\ Tail(events) = <<>> => m = balance /\ q = rest.qty
<1>1. PICK m \in Int, q \in Int : /\ Handling(Head(events), entry, money, qty, m, q)
                                  /\ Leads(Tail(events), entry, m, q, balance, rest.qty)
  BY LeadsOn DEF LeadsTo
<1>2. q >= 1 => LeadsTo(Tail(events), entry, m, q, balance, rest) BY <1>1 DEF LeadsTo
<1>3. Tail(events) = <<>> => m = balance /\ q = rest.qty BY <1>1, NothingLeads
<1> QED BY <1>1, <1>2, <1>3

(* An event that tells of the entry changes nothing in the books.          *)
LEMMA EntryPasses ==
    ASSUME NEW events \in Seq(BooksEvent), events # <<>>, NEW entry \in Nat,
           NEW money, NEW qty, NEW balance, NEW rest,
           LeadsTo(events, entry, money, qty, balance, rest),
           Head(events).kind = "partial", Head(events).side = "entry"
    PROVE  LeadsTo(Tail(events), entry, money, qty, balance, rest)
<1>1. PICK m \in Int, q \in Int :
        /\ Handling(Head(events), entry, money, qty, m, q)
        /\ q >= 1 => LeadsTo(Tail(events), entry, m, q, balance, rest)
  BY RecordFollows
<1>2. m = money /\ q = qty BY <1>1 DEF Handling
<1>3. qty >= 1 BY DEF LeadsTo
<1> QED BY <1>1, <1>2, <1>3

LEMMA ReadPartialKeepsIInv == ASSUME BooksIInv, Books!ReadPartial PROVE BooksIInv'
<1> USE DEF BooksIInv
<1>1. /\ acct_read = Books!NoEvent /\ acct_stream # <<>> /\ Head(acct_stream).kind = "partial"
      /\ acct_stream' = Tail(acct_stream)
      /\ acct_read' = IF acct_position = Books!None THEN Books!NoEvent
                      ELSE [kind |-> "partial", event |-> Head(acct_stream),
                             entry |-> acct_position.entry]
      /\ disturbed' = (disturbed \/ (Head(acct_stream).side = "close" /\ opening # Books!None))
      /\ acct_equity' = acct_equity /\ acct_position' = acct_position /\ opening' = opening
      /\ acct_closing' = acct_closing
      /\ wallet' = wallet /\ held' = held /\ acct_order' = acct_order /\ acct_opened' = acct_opened
      /\ Books!Closing' = Books!Closing
  BY DEF Books!ReadPartial, Books!Closing
<1>2. acct_stream \in Seq(BooksEvent) /\ Head(acct_stream) \in Part /\ Tail(acct_stream) \in Seq(BooksEvent)
  <2>1. acct_stream \in Seq(BooksEvent) BY DEF BooksTypes
  <2>2. Head(acct_stream) \in BooksEvent BY <1>1, <2>1
  <2> QED BY <1>1, <2>1, <2>2 DEF BooksEvent, Fill
<1>3. acct_opened BY <1>1 DEF Apart
<1>4. Queue \in Seq(BooksEvent) BY QueueType
<1>5. CASE acct_position = Books!None
  <2>1. acct_read' = Books!NoEvent BY <1>1, <1>5
  <2>2. Queue # <<>> /\ Head(Queue) = Head(acct_stream) /\ Queue' = Tail(Queue)
    BY <1>1, <2>1, QueueDrops
  <2>3. BooksTypes' BY <1>1, <1>2, <2>1 DEF BooksTypes, Books!ReadPartial, Books!repair
  <2>4. Apart' BY <1>1, <1>3, <1>5, <2>1 DEF Apart
  <2>5. InTurn' BY <1>1, <1>4, <1>5, <2>2, TurnsPass DEF InTurn
  <2>6. Balanced'
    <3> SUFFICES ASSUME ~disturbed', opening # Books!None PROVE
          LeadsTo(Tail(Queue), opening.entry, acct_equity - opening.qty * acct_commission, opening.qty,
                  wallet, held)
      BY <1>1, <1>5, <2>2 DEF Balanced, ClosingBooks
    <3>1. Head(acct_stream).side = "entry" /\ ~disturbed BY <1>1, <1>2 DEF Part
    <3>2. LeadsTo(Queue, opening.entry, acct_equity - opening.qty * acct_commission, opening.qty,
                  wallet, held)
      BY <3>1 DEF Balanced
    <3> QED BY <1>1, <1>4, <2>2, <3>1, <3>2, OpeningType, EntryPasses
  <2> QED BY <2>3, <2>4, <2>5, <2>6
<1>6. CASE acct_position # Books!None
  <2>1. acct_read' = [kind |-> "partial", event |-> Head(acct_stream),
                      entry |-> acct_position.entry]
    BY <1>1, <1>6
  <2>2. acct_read' # Books!NoEvent
    <3>1. "event" \in DOMAIN acct_read' /\ "event" \notin DOMAIN Books!NoEvent
      BY <2>1 DEF Books!NoEvent
    <3> QED BY <3>1
  <2>3. Queue' = Queue BY <1>1, <2>1, <2>2, QueueRead
  <2>4. opening = Books!None /\ Books!Closing = {} BY <1>6 DEF Apart
  <2>5. BooksTypes'
    BY <1>1, <1>2, <2>1, PositionType DEF BooksTypes, Books!ReadPartial, Books!repair
  <2>6. Apart' BY <1>1, <1>3, <2>1, <2>4 DEF Apart
  <2>7. InTurn' BY <1>1, <2>3 DEF InTurn
  <2>8. Balanced' BY <1>1, <1>6, <2>3, <2>4 DEF Balanced
  <2> QED BY <2>5, <2>6, <2>7, <2>8
<1> QED BY <1>5, <1>6

LEMMA ApplyPartialKeepsIInv == ASSUME BooksIInv, Books!ApplyPartial PROVE BooksIInv'
<1> USE DEF BooksIInv
<1> DEFINE ev == acct_read.event
           rest == IF acct_position.qty > ev.last_qty THEN acct_position.qty - ev.last_qty ELSE 0
<1>1. /\ acct_read # Books!NoEvent /\ acct_read' = Books!NoEvent
      /\ opening' = opening /\ acct_closing' = acct_closing /\ wallet' = wallet /\ held' = held
      /\ acct_order' = acct_order /\ acct_stream' = acct_stream /\ acct_opened' = acct_opened
      /\ Books!Closing' = Books!Closing
  BY DEF Books!ApplyPartial, Books!exchange, Books!Closing
<1>2. ev \in Part /\ acct_read.entry \in Nat BY <1>1, ReadType
<1>3. acct_opened /\ opening = Books!None BY <1>1 DEF Apart
<1>4. /\ Queue \in Seq(BooksEvent) /\ Queue # <<>> /\ Head(Queue) = ev /\ Queue' = Tail(Queue)
  BY <1>1, QueueType, QueueApplies
<1>5. (acct_position' # Books!None => acct_position # Books!None) => InTurn'
  BY <1>1, <1>3, <1>4, TurnsPass DEF InTurn
<1>6. CASE acct_position = Books!None
  <2>1. acct_position' = acct_position /\ acct_equity' = acct_equity /\ disturbed' = disturbed
    BY <1>6 DEF Books!ApplyPartial
  <2>2. BooksTypes' BY <1>1, <2>1 DEF BooksTypes, Books!ApplyPartial, Books!repair
  <2>3. Apart' BY <1>1, <1>3, <1>6, <2>1 DEF Apart
  <2>4. Balanced' BY <1>1, <1>3, <1>6, <2>1 DEF Balanced, ClosingBooks
  <2> QED BY <1>5, <1>6, <2>1, <2>2, <2>3, <2>4
<1>7. CASE acct_position # Books!None
  <2>1. /\ acct_position' = [acct_position EXCEPT !.qty = IF ev.side = "close" THEN rest ELSE ev.last_qty]
        /\ acct_equity' = acct_equity + (IF ev.side = "close" THEN Books!Net(ev.last_qty, acct_read.entry, ev.price)
                                         ELSE -(ev.last_qty * acct_commission))
        /\ disturbed' = (disturbed \/ ev.side = "entry")
    BY <1>7 DEF Books!ApplyPartial
  <2>2. /\ acct_position = [qty |-> acct_position.qty, entry |-> acct_position.entry]
        /\ acct_position.qty \in 0 .. acct_Qty /\ acct_position.entry \in Nat
    BY DEF BooksTypes, Record
  <2>3. ev.last_qty = 1 /\ ev.price \in Int /\ ev.side \in {"close", "entry"} /\ ev.kind = "partial"
    BY <1>2 DEF Part
  <2>4. rest \in 0 .. acct_Qty /\ 1 \in 0 .. acct_Qty BY <2>2, <2>3, BooksFacts
  <2> DEFINE left == IF ev.side = "close" THEN rest ELSE ev.last_qty
  <2>5. left \in 0 .. acct_Qty BY <2>3, <2>4
  <2>6. acct_position' = [qty |-> left, entry |-> acct_position.entry]
    <3> DEFINE q == acct_position.qty
               f == acct_position.entry
    <3>1. acct_position = [qty |-> q,
                           entry |-> f] /\ acct_position' = [acct_position EXCEPT !.qty = left]
      BY <2>1, <2>2
    <3> HIDE DEF q, f, left
    <3>2. acct_position' = [qty |-> left, entry |-> f] BY <3>1
    <3> QED BY <3>2 DEF f
  <2>7. acct_position' \in Record /\ acct_position'.entry = acct_position.entry /\ acct_position'.qty = left
    BY <2>2, <2>5, <2>6 DEF Record
  <2>8. Books!Net(ev.last_qty, acct_read.entry, ev.price) \in Int
    <3>1. ev.last_qty \in Int /\ acct_read.entry \in Int BY <1>2, <2>3
    <3> QED BY <2>3, <3>1, NetType
  <2>9. acct_equity' \in Int /\ disturbed' \in BOOLEAN
    <3>1. acct_equity \in Int /\ -(ev.last_qty * acct_commission) \in Int
      BY <2>3, BooksFacts DEF BooksTypes
    <3> QED BY <2>1, <2>8, <3>1
  <2>10. BooksTypes' BY <1>1, <2>7, <2>9 DEF BooksTypes, Books!ApplyPartial, Books!repair
  <2>11. Books!Closing = {} BY <1>7 DEF Apart
  <2>12. Apart' BY <1>1, <1>3, <2>11 DEF Apart
  <2>13. Balanced'
    <3> SUFFICES ASSUME ~disturbed'
                 PROVE  /\ acct_position' # Books!None
                        /\ LeadsTo(Tail(Queue), acct_position'.entry, acct_equity', acct_position'.qty,
                                   wallet, held)
      BY <1>1, <1>3, <1>4, <2>11 DEF Balanced
    <3>1. ~disturbed /\ ev.side = "close" BY <2>1, <2>3
    <3>2. LeadsTo(Queue, acct_position.entry, acct_equity, acct_position.qty, wallet, held)
      BY <1>7, <3>1 DEF Balanced
    <3>3. PICK m \in Int, q \in Int :
            /\ Handling(Head(Queue), acct_position.entry, acct_equity, acct_position.qty, m, q)
            /\ q >= 1 => LeadsTo(Tail(Queue), acct_position.entry, m, q, wallet, held)
      BY <1>4, <2>2, <3>2, RecordFollows
    <3>4. acct_read.entry = acct_position.entry BY <1>1, <1>7 DEF Apart
    <3>5. m = acct_equity' /\ q = acct_position.qty - 1 /\ q >= 1
      BY <1>4, <2>1, <2>3, <3>1, <3>3, <3>4 DEF Handling
    <3>6. acct_position'.qty = q BY <2>2, <2>3, <2>7, <3>1, <3>5
    <3>7. acct_position' # Books!None BY <3>5, <3>6 DEF Books!None
    <3> QED BY <2>7, <3>3, <3>5, <3>6, <3>7
  <2> QED BY <1>5, <1>7, <2>10, <2>12, <2>13
<1> QED BY <1>6, <1>7

LEMMA TakenFacts ==
    ASSUME BooksTypes, Apart, NEW c \in Books!Closers, Books!Taken(c)
    PROVE  /\ acct_position # Books!None /\ acct_position' = Books!None
           /\ Books!Closing = {} /\ Books!Closing' = {c}
           /\ acct_closing'[c].at = "taken" /\ acct_closing'[c].pos = acct_position
           /\ acct_closing' \in [Books!Closers -> [at : {"no", "taken", "cancelled", "sold"},
                                                   pos : Record, exit : Int]]
           /\ opening = Books!None /\ acct_opened
<1> DEFINE taken == [at |-> "taken", pos |-> acct_position, exit |-> 0]
<1>1. [Books!NotClosing EXCEPT !.at = "taken", !.pos = acct_position] = taken
  <2> DEFINE p == acct_position
             n == Books!None
             moved == [Books!NotClosing EXCEPT !.at = "taken"]
  <2>1. [Books!NotClosing EXCEPT !.at = "taken", !.pos = p] = [moved EXCEPT !.pos = p] OBVIOUS
  <2> HIDE DEF p, n
  <2>2. Books!NotClosing = [at |-> "no", pos |-> n, exit |-> 0] BY DEF Books!NotClosing, n
  <2>3. moved = [at |-> "taken", pos |-> n, exit |-> 0] BY <2>2
  <2> HIDE DEF moved
  <2>4. [moved EXCEPT !.pos = p] = [at |-> "taken", pos |-> p, exit |-> 0] BY <2>3
  <2> QED BY <2>1, <2>4 DEF p
<1>2. acct_closing' = [acct_closing EXCEPT ![c] = taken] BY <1>1 DEF Books!Taken
<1>3. acct_position # Books!None /\ acct_position' = Books!None BY DEF Books!Taken
<1>4. Books!Closing = {} /\ opening = Books!None /\ acct_opened
  BY <1>3 DEF Apart, BooksTypes
<1>5. taken \in [at : {"no", "taken", "cancelled", "sold"}, pos : Record, exit : Int]
  BY DEF BooksTypes
<1>6. taken.at = "taken" /\ taken.pos = acct_position OBVIOUS
<1> HIDE DEF taken
<1>7. acct_closing'[c] = taken /\ \A d \in Books!Closers : d # c =>
    acct_closing'[d] = acct_closing[d]
  BY <1>2 DEF BooksTypes
<1>8. Books!Closing' = {c} BY <1>4, <1>6, <1>7 DEF Books!Closing
<1> QED BY <1>2, <1>3, <1>4, <1>5, <1>6, <1>7, <1>8 DEF BooksTypes

LEMMA FilledReportKeepsIInv == ASSUME BooksIInv, Books!FilledReport PROVE BooksIInv'
<1> USE DEF BooksIInv
<1>1. /\ acct_read = Books!NoEvent /\ acct_closing["stream"].at = "no"
      /\ acct_stream # <<>> /\ Head(acct_stream).kind = "filled" /\ acct_stream' = Tail(acct_stream)
      /\ disturbed' = (disturbed \/ opening # Books!None)
      /\ acct_equity' = acct_equity /\ opening' = opening /\ acct_read' = acct_read
      /\ wallet' = wallet
      /\ held' = held /\ acct_order' = acct_order /\ acct_opened' = acct_opened
  BY DEF Books!FilledReport
<1>2. acct_stream \in Seq(BooksEvent) /\ Tail(acct_stream) \in Seq(BooksEvent)
  BY <1>1 DEF BooksTypes
<1>3. acct_opened BY <1>1 DEF Apart
<1>4. /\ Queue \in Seq(BooksEvent) /\ Queue # <<>> /\ Head(Queue) = Head(acct_stream)
      /\ Queue' = Tail(Queue)
  BY <1>1, QueueType, QueueDrops
<1>5. disturbed' \in BOOLEAN BY <1>1 DEF BooksTypes
<1>6. CASE acct_position = Books!None
  <2>1. acct_position' = acct_position /\ acct_closing' = acct_closing /\ Books!Closing' = Books!Closing
    BY <1>6 DEF Books!FilledReport, Books!Closing
  <2>2. BooksTypes'
    BY <1>1, <1>2, <1>5, <2>1 DEF BooksTypes, Books!FilledReport, Books!repair
  <2>3. Apart' BY <1>1, <1>3, <1>6, <2>1 DEF Apart
  <2>4. InTurn' BY <1>1, <1>4, <1>6, <2>1, TurnsPass DEF InTurn
  <2>5. Balanced' BY <1>1, <1>6, <2>1 DEF Balanced, ClosingBooks
  <2> QED BY <2>2, <2>3, <2>4, <2>5
<1>7. CASE acct_position # Books!None
  <2>1. Books!Taken("stream") /\ "stream" \in Books!Closers
    BY <1>7 DEF Books!FilledReport, Books!Closers
  <2>2. /\ acct_position' = Books!None /\ Books!Closing' = {"stream"}
        /\ acct_closing'["stream"].at = "taken" /\ acct_closing'["stream"].pos = acct_position
        /\ acct_closing' \in [Books!Closers -> [at : {"no", "taken", "cancelled", "sold"},
                                                pos : Record, exit : Int]]
        /\ opening = Books!None
    BY <2>1, TakenFacts
  <2>3. BooksTypes'
    <3>1. acct_position' \in Record BY <2>2, BooksFacts DEF Books!None, Record
    <3> QED BY <1>1, <1>2, <1>5, <2>2, <3>1
              DEF BooksTypes, Books!FilledReport, Books!repair
  <2>4. Apart' BY <1>1, <1>3, <2>2 DEF Apart
  <2>5. InTurn' BY <1>1, <1>4, <2>2, TurnsPass DEF InTurn
  <2>6. Balanced'
    <3> SUFFICES ASSUME ~disturbed'
                 PROVE  /\ held.qty = 0
                        /\ acct_equity + Books!Net(acct_position.qty, acct_position.entry,
                                                   acct_position.entry + trailing_stop) = wallet
      BY <1>1, <2>2 DEF Balanced, ClosingBooks
    <3>1. LeadsTo(Queue, acct_position.entry, acct_equity, acct_position.qty, wallet, held)
      BY <1>1, <1>7 DEF Balanced
    <3>2. PICK m \in Int, q \in Int :
            /\ Handling(Head(Queue), acct_position.entry, acct_equity, acct_position.qty, m, q)
            /\ Tail(Queue) = <<>> => m = wallet /\ q = held.qty
      BY <1>4, <3>1, PositionType, RecordFollows
    <3>3. Tail(Queue) = <<>>
      <4>1. LastOnly(Queue) BY <1>7 DEF InTurn
      <4>2. 1 \in DOMAIN Queue /\ Queue[1] = Head(Queue) BY <1>4
      <4>3. Len(Queue) = 1 BY <1>1, <1>4, <4>1, <4>2 DEF LastOnly
      <4> QED BY <1>4, <4>3
    <3> QED BY <1>1, <1>4, <3>2, <3>3 DEF Handling
  <2> QED BY <2>3, <2>4, <2>5, <2>6
<1> QED BY <1>6, <1>7

-----------------------------------------------------------------------------
(* The closers.                                                            *)

LEMMA OneEvent ==
    ASSUME NEW events \in Seq(BooksEvent), events # <<>>, Len(events) <= 1
    PROVE  Len(events) = 1 /\ Tail(events) = <<>>
<1> DEFINE n == Len(events)
<1>1. n \in Nat /\ n # 0 /\ n <= 1 OBVIOUS
<1> HIDE DEF n
<1>2. n = 1 BY <1>1
<1>3. Len(Tail(events)) = 0 /\ Tail(events) \in Seq(BooksEvent) BY <1>2 DEF n
<1>4. Tail(events) = <<>> BY <1>3, EmptySeq
<1> QED BY <1>2, <1>4 DEF n

(* With no sale under way the books are what the exchange has.             *)
LEMMA NothingUnbooked ==
    ASSUME BooksTypes, SalesFollow(Queue), ~Books!Unbooked,
           NEW entry \in Nat, NEW money \in Int, NEW qty \in Int,
           LeadsTo(Queue, entry, money, qty, wallet, held)
    PROVE  money = wallet /\ qty = held.qty
<1>1. Queue \in Seq(BooksEvent) BY QueueType
<1>2. CASE Queue = <<>> BY <1>2, NothingLeads DEF LeadsTo
<1>3. CASE Queue # <<>>
  <2>1. /\ 1 \in DOMAIN Queue /\ Queue[1] = Head(Queue) /\ Head(Queue) \in BooksEvent
        /\ Len(Queue) > 1 => 2 \in DOMAIN Queue
    BY <1>1, <1>3
  <2>2. \A i \in DOMAIN Queue : ~Books!Sale(Queue[i])
    <3>1. acct_stream \in Seq(BooksEvent) BY DEF BooksTypes
    <3>2. CASE acct_read = Books!NoEvent
      <4>1. Queue = acct_stream BY <3>2 DEF Queue
      <4> QED BY <4>1 DEF Books!Unbooked
    <3>3. CASE acct_read # Books!NoEvent
      <4> DEFINE e == acct_read.event
      <4>1. ~Books!Sale(e) BY <3>3 DEF Books!Unbooked
      <4>2. Queue = <<e>> \o acct_stream BY <3>3 DEF Queue
      <4> HIDE DEF e
      <4>3. ASSUME NEW i \in DOMAIN Queue
            PROVE  \/ i = 1 /\ Queue[i] = e
                   \/ i - 1 \in DOMAIN acct_stream /\ Queue[i] = acct_stream[i - 1]
        BY <3>1, <4>2
      <4> QED BY <4>1, <4>3 DEF Books!Unbooked
    <3> QED BY <3>2, <3>3
  <2>3. Len(Queue) = 1
    <3>1. Len(Queue) <= 1 BY <1>1, <2>1, <2>2 DEF SalesFollow
    <3> QED BY <1>1, <1>3, <3>1, OneEvent
  <2>4. Tail(Queue) = <<>>
    <3>1. Len(Queue) <= 1 BY <2>3
    <3> QED BY <1>1, <1>3, <3>1, OneEvent
  <2>5. Head(Queue).kind = "partial" /\ Head(Queue).side = "entry"
    BY <2>1, <2>2 DEF BooksEvent, Part, Fill, Books!Sale
  <2>6. LeadsTo(Tail(Queue), entry, money, qty, wallet, held)
    BY <1>1, <1>3, <2>5, EntryPasses
  <2> QED BY <2>4, <2>6, NothingLeads DEF LeadsTo
<1> QED BY <1>2, <1>3

LEMMA TaskClosesKeepsIInv == ASSUME BooksIInv, Books!TaskCloses PROVE BooksIInv'
<1> USE DEF BooksIInv
<1>1. /\ Books!Taken("task") /\ "task" \in Books!Closers
      /\ disturbed' = (disturbed \/ Books!Unbooked)
      /\ acct_equity' = acct_equity /\ opening' = opening /\ acct_read' = acct_read
      /\ wallet' = wallet
      /\ held' = held /\ acct_order' = acct_order /\ acct_stream' = acct_stream
      /\ acct_opened' = acct_opened
  BY DEF Books!TaskCloses, Books!exchange, Books!Closers
<1>2. /\ acct_position # Books!None /\ acct_position' = Books!None /\ Books!Closing' = {"task"}
      /\ acct_closing'["task"].at = "taken" /\ acct_closing'["task"].pos = acct_position
      /\ acct_closing' \in [Books!Closers -> [at : {"no", "taken", "cancelled", "sold"},
                                              pos : Record, exit : Int]]
      /\ opening = Books!None /\ acct_opened
  BY <1>1, TakenFacts
<1>3. Queue' = Queue BY <1>1, QueueKeeps
<1>4. BooksTypes'
  <2>1. acct_position' \in Record BY <1>2, BooksFacts DEF Books!None, Record
  <2>2. disturbed' \in BOOLEAN BY <1>1 DEF BooksTypes, Books!Unbooked
  <2> QED BY <1>1, <1>2, <2>1, <2>2 DEF BooksTypes, Books!TaskCloses, Books!repair
<1>5. Apart' BY <1>1, <1>2 DEF Apart
<1>6. InTurn' BY <1>1, <1>2, <1>3 DEF InTurn
<1>7. Balanced'
  <2> SUFFICES ASSUME ~disturbed'
               PROVE  acct_equity = wallet /\ held = acct_position /\ acct_position.qty >= 1
    BY <1>1, <1>2 DEF Balanced, ClosingBooks
  <2>1. ~disturbed /\ ~Books!Unbooked BY <1>1
  <2>2. LeadsTo(Queue, acct_position.entry, acct_equity, acct_position.qty, wallet, held)
    BY <1>2, <2>1 DEF Balanced
  <2>3. acct_position.entry \in Nat /\ acct_position.qty \in Int BY PositionType
  <2>4. acct_equity = wallet /\ acct_position.qty = held.qty
    BY <2>1, <2>2, <2>3, PositionType, NothingUnbooked DEF InTurn
  <2>5. acct_position.qty >= 1 /\ held.entry = acct_position.entry
    BY <2>2, <2>3, <2>4 DEF LeadsTo
  <2>6. held \in Record
    BY BooksFacts DEF BooksTypes, Record, Filled, Books!None
  <2>7. held = [qty |-> held.qty, entry |-> held.entry]
        /\ acct_position = [qty |-> acct_position.qty, entry |-> acct_position.entry]
    BY <2>6 DEF BooksTypes, Record
  <2> QED BY <2>4, <2>5, <2>7
<1> QED BY <1>4, <1>5, <1>6, <1>7

(* There is one closer at most, so what it does to its record is all that changes. *)
LEMMA CloserFacts ==
    ASSUME BooksTypes, Apart, NEW c \in Books!Closers, acct_closing[c].at # "no"
    PROVE  /\ Books!Closing = {c} /\ opening = Books!None /\ acct_position = Books!None
           /\ acct_opened
           /\ acct_closing[c].pos \in Record /\ acct_closing[c].pos.entry \in Nat
           /\ acct_closing[c].pos.qty \in Nat
<1>1. c \in Books!Closing BY DEF Books!Closing
<1>2. acct_closing[c].pos \in Record BY DEF BooksTypes
<1>3. acct_closing[c].pos.entry \in Nat /\ acct_closing[c].pos.qty \in Nat
  BY <1>2, BooksFacts DEF Record
<1> QED BY <1>1, <1>2, <1>3 DEF Apart, BooksTypes

LEMMA CancelKeepsIInv ==
    ASSUME BooksIInv, NEW c \in Books!Closers, Books!Cancel(c)
    PROVE  BooksIInv'
<1> USE DEF BooksIInv
<1>1. /\ acct_closing[c].at = "taken" /\ acct_order' = "none"
      /\ acct_closing' = [acct_closing EXCEPT ![c].at = "cancelled"]
      /\ acct_equity' = acct_equity /\ acct_position' = acct_position /\ opening' = opening
      /\ acct_read' = acct_read
      /\ wallet' = wallet /\ held' = held /\ acct_stream' = acct_stream
      /\ acct_opened' = acct_opened
      /\ disturbed' = disturbed
  BY DEF Books!Cancel
<1>2. Books!Closing = {c} /\ opening = Books!None /\ acct_position = Books!None /\ acct_opened
  BY <1>1, CloserFacts
<1>3. /\ acct_closing'[c].at = "cancelled" /\ acct_closing'[c].pos = acct_closing[c].pos
      /\ \A d \in Books!Closers : d # c => acct_closing'[d] = acct_closing[d]
      /\ acct_closing' \in [Books!Closers -> [at : {"no", "taken", "cancelled", "sold"},
                                              pos : Record, exit : Int]]
  BY <1>1 DEF BooksTypes
<1>4. Books!Closing' = {c} BY <1>2, <1>3 DEF Books!Closing
<1>5. Queue' = Queue BY <1>1, QueueKeeps
<1>6. BooksTypes' BY <1>1, <1>3 DEF BooksTypes, Books!Cancel, Books!repair
<1>7. Apart' BY <1>1, <1>2, <1>4 DEF Apart
<1>8. InTurn' BY <1>1, <1>5 DEF InTurn
<1>9. Balanced' BY <1>1, <1>2, <1>3, <1>4 DEF Balanced, ClosingBooks
<1> QED BY <1>6, <1>7, <1>8, <1>9

LEMMA MarketCloseKeepsIInv ==
    ASSUME BooksIInv, NEW c \in Books!Closers, Books!MarketClose(c)
    PROVE  BooksIInv'
<1> USE DEF BooksIInv
<1> DEFINE pos == acct_closing[c].pos
<1>1. /\ acct_closing[c].at = "cancelled"
      /\ acct_equity' = acct_equity /\ acct_position' = acct_position /\ opening' = opening
      /\ acct_read' = acct_read
      /\ acct_order' = acct_order /\ acct_opened' = acct_opened /\ disturbed' = disturbed
  BY DEF Books!MarketClose
<1>2. PICK price \in acct_Prices, parts \in BOOLEAN :
        /\ acct_closing' = [acct_closing EXCEPT
                         ![c].at = "sold",
                         ![c].exit = IF held.qty > 0 \/ c = "task" THEN price
                                     ELSE pos.entry + trailing_stop]
        /\ IF held.qty > 0 THEN Books!Sold(held.qty, price) ELSE UNCHANGED <<wallet, held>>
        /\ acct_stream' = IF parts /\ held.qty > 1
                          THEN Append(acct_stream, Books!Partial("close", 1, price))
                          ELSE acct_stream
  BY DEF Books!MarketClose
<1> DEFINE e == Books!Partial("close", 1, price)
           exit == IF held.qty > 0 \/ c = "task" THEN price ELSE pos.entry + trailing_stop
<1>3. /\ Books!Closing = {c} /\ opening = Books!None /\ acct_position = Books!None /\ acct_opened
      /\ pos \in Record /\ pos.entry \in Nat /\ pos.qty \in Nat
  BY <1>1, CloserFacts
<1>4. held.qty \in Nat /\ price \in Int BY BooksFacts DEF BooksTypes, Books!None, Filled
<1>5. /\ e \in BooksEvent /\ Books!Sale(e) /\ e.kind # "filled"
      /\ acct_stream' = acct_stream \/ acct_stream' = Append(acct_stream, e)
  BY <1>2, <1>4 DEF BooksEvent, Part, Books!Partial, Books!Sale
<1>6. acct_closing' = [acct_closing EXCEPT ![c].at = "sold", ![c].exit = exit] BY <1>2
<1>7. exit \in Int BY <1>3, <1>4, BooksFacts
<1> HIDE DEF e, exit
<1>8. /\ acct_closing'[c].at = "sold" /\ acct_closing'[c].pos = pos /\ acct_closing'[c].exit = exit
      /\ \A d \in Books!Closers : d # c => acct_closing'[d] = acct_closing[d]
      /\ acct_closing' \in [Books!Closers -> [at : {"no", "taken", "cancelled", "sold"},
                                              pos : Record, exit : Int]]
  BY <1>6, <1>7 DEF BooksTypes
<1>9. Books!Closing' = {c} BY <1>3, <1>8 DEF Books!Closing
<1>10. /\ wallet' \in Int /\ held' \in {Books!None} \cup Filled
       /\ held'.qty = 0
       /\ held.qty > 0 => wallet' = wallet + Books!Net(held.qty, held.entry, price)
       /\ held.qty = 0 => wallet' = wallet
  <2>1. CASE held.qty > 0
    <3>1. held.qty \in 1 .. held.qty BY <1>4, <2>1
    <3>2. /\ wallet' \in Int /\ held' \in {Books!None} \cup Filled
          /\ wallet' = wallet + Books!Net(held.qty, held.entry, price)
          /\ held'.qty = held.qty - held.qty
      BY <1>2, <1>4, <2>1, <3>1, SoldType
    <3> QED BY <1>4, <2>1, <3>2
  <2>2. CASE ~(held.qty > 0) BY <1>2, <1>4, <2>2 DEF BooksTypes
  <2> QED BY <2>1, <2>2
<1>11. BooksTypes'
  <2>1. acct_stream' \in Seq(BooksEvent) BY <1>5 DEF BooksTypes
  <2> QED BY <1>1, <1>8, <1>10, <2>1 DEF BooksTypes, Books!MarketClose, Books!repair
<1>12. Apart' BY <1>1, <1>3, <1>9 DEF Apart
<1>13. InTurn'
  <2>1. Queue' = Queue \/ Queue' = Append(Queue, e)
    BY <1>1, <1>5, QueueGrows, QueueKeeps
  <2> QED BY <1>1, <1>3, <1>5, <2>1, QueueType, TurnsGrow DEF InTurn
<1>14. Balanced'
  <2> SUFFICES ASSUME ~disturbed'
               PROVE  acct_equity + Books!Net(pos.qty, pos.entry, exit) = wallet'
    BY <1>1, <1>3, <1>8, <1>9, <1>10 DEF Balanced, ClosingBooks
  <2>1. ClosingBooks(c) BY <1>1, <1>3 DEF Balanced
  <2>2. CASE c = "task"
    <3>1. acct_equity = wallet /\ held = pos /\ pos.qty >= 1
      BY <1>1, <2>1, <2>2 DEF ClosingBooks
    <3>2. held.qty > 0 BY <1>4, <3>1
    <3>3. exit = price BY <3>2 DEF exit
    <3> QED BY <1>10, <3>1, <3>2, <3>3
  <2>3. CASE c = "stream"
    <3>1. held.qty = 0 /\ acct_equity + Books!Net(pos.qty, pos.entry, pos.entry + trailing_stop) = wallet
      BY <1>1, <2>1, <2>3 DEF ClosingBooks
    <3>2. exit = pos.entry + trailing_stop BY <2>3, <3>1 DEF exit
    <3> QED BY <1>10, <3>1, <3>2
  <2> QED BY <2>2, <2>3 DEF Books!Closers
<1> QED BY <1>11, <1>12, <1>13, <1>14

LEMMA ArchiveKeepsIInv ==
    ASSUME BooksIInv, NEW c \in Books!Closers, Books!Archive(c)
    PROVE  BooksIInv'
<1> USE DEF BooksIInv
<1> DEFINE pos == acct_closing[c].pos
<1>1. /\ acct_closing[c].at = "sold"
      /\ acct_closing' = [acct_closing EXCEPT ![c] = Books!NotClosing]
      /\ acct_equity' = acct_equity + Books!Net(pos.qty, pos.entry, acct_closing[c].exit)
      /\ acct_position' = acct_position /\ opening' = opening /\ acct_read' = acct_read
      /\ wallet' = wallet /\ held' = held /\ acct_order' = acct_order /\ acct_stream' = acct_stream
      /\ acct_opened' = acct_opened /\ disturbed' = disturbed
  BY DEF Books!Archive, Books!exchange
<1>2. /\ Books!Closing = {c} /\ opening = Books!None /\ acct_position = Books!None /\ acct_opened
      /\ pos.entry \in Nat /\ pos.qty \in Nat
  BY <1>1, CloserFacts
<1>3. Books!NotClosing \in [at : {"no", "taken", "cancelled", "sold"}, pos : Record, exit : Int]
  BY BooksFacts DEF Books!NotClosing, Books!None, Record
<1>4. /\ acct_closing'[c] = Books!NotClosing
      /\ \A d \in Books!Closers : d # c => acct_closing'[d] = acct_closing[d]
      /\ acct_closing' \in [Books!Closers -> [at : {"no", "taken", "cancelled", "sold"},
                                              pos : Record, exit : Int]]
  BY <1>1, <1>3 DEF BooksTypes
<1>5. Books!Closing' = {}
  <2>1. Books!NotClosing.at = "no" BY DEF Books!NotClosing
  <2> QED BY <1>2, <1>4, <2>1 DEF Books!Closing
<1>6. acct_equity' \in Int
  <2>1. pos.qty \in Int /\ pos.entry \in Int /\ acct_closing[c].exit \in Int
    BY <1>2 DEF BooksTypes
  <2>2. Books!Net(pos.qty, pos.entry, acct_closing[c].exit) \in Int BY <2>1, NetType
  <2> QED BY <1>1, <2>2 DEF BooksTypes
<1>7. Queue' = Queue BY <1>1, QueueKeeps
<1>8. BooksTypes' BY <1>1, <1>4, <1>6 DEF BooksTypes, Books!Archive, Books!repair
<1>9. Apart' BY <1>1, <1>2, <1>5 DEF Apart
<1>10. InTurn' BY <1>1, <1>7 DEF InTurn
<1>11. Balanced' BY <1>1, <1>2, <1>5 DEF Balanced, ClosingBooks
<1> QED BY <1>8, <1>9, <1>10, <1>11

LEMMA DelistKeepsIInv == ASSUME BooksIInv, Books!Delist PROVE BooksIInv'
<1> USE DEF BooksIInv
<1>1. /\ acct_position' = Books!None /\ disturbed' = (disturbed \/ acct_position # Books!None)
      /\ acct_equity' = acct_equity /\ opening' = opening /\ acct_closing' = acct_closing
      /\ acct_read' = acct_read
      /\ wallet' = wallet /\ held' = held /\ acct_order' = acct_order /\ acct_stream' = acct_stream
      /\ acct_opened' = acct_opened /\ acct_delisted' = TRUE
      /\ Books!Closing' = Books!Closing
  BY DEF Books!Delist, Books!exchange, Books!Closing
<1>2. Queue' = Queue BY <1>1, QueueKeeps
<1>3. BooksTypes'
  <2>1. acct_position' \in Record /\ disturbed' \in BOOLEAN
    BY <1>1, BooksFacts DEF Books!None, Record, BooksTypes
  <2> QED BY <1>1, <2>1 DEF BooksTypes, Books!Delist, Books!repair
<1>4. Apart' BY <1>1 DEF Apart
<1>5. InTurn' BY <1>1, <1>2 DEF InTurn
<1>6. Balanced' BY <1>1, <1>2 DEF Balanced, ClosingBooks
<1> QED BY <1>3, <1>4, <1>5, <1>6

-----------------------------------------------------------------------------
(* The balance sync.                                                       *)

(* A step that leaves the books, the exchange and the history alone.       *)
LEMMA BooksUntouched ==
    ASSUME BooksIInv, UNCHANGED <<Books!engine, Books!exchange, acct_opened, disturbed>>,
             BooksTypes'
    PROVE BooksIInv'
<1> USE DEF BooksIInv
<1>1. /\ acct_equity' = acct_equity /\ acct_position' = acct_position /\ opening' = opening
      /\ acct_closing' = acct_closing
      /\ acct_read' = acct_read /\ wallet' = wallet /\ held' = held /\ acct_order' = acct_order
      /\ acct_stream' = acct_stream /\ acct_opened' = acct_opened /\ disturbed' = disturbed
      /\ Books!Closing' = Books!Closing
  BY DEF Books!engine, Books!exchange, Books!Closing
<1>2. Queue' = Queue BY <1>1, QueueKeeps
<1>3. Apart' /\ InTurn' BY <1>1, <1>2 DEF Apart, InTurn
<1>4. Balanced' BY <1>1, <1>2 DEF Balanced, ClosingBooks
<1> QED BY <1>3, <1>4

LEMMA BalanceAnsweredKeepsIInv == ASSUME BooksIInv, Books!BalanceAnswered PROVE BooksIInv'
<1>1. PICK balance \in {wallet} \cup (IF Misread THEN {0} ELSE {}) :
        sync' = [at |-> "answered", balance |-> balance]
  BY DEF Books!BalanceAnswered
<1>2. balance \in Int BY DEF BooksIInv, BooksTypes
<1>3. sync' \in [at : {"idle", "answered", "fix"}, balance : Int] BY <1>1, <1>2
<1>4. BooksTypes'
  BY <1>3 DEF BooksIInv, BooksTypes, Books!BalanceAnswered, Books!engine, Books!exchange
<1> QED BY <1>4, BooksUntouched DEF Books!BalanceAnswered

LEMMA CompareKeepsIInv == ASSUME BooksIInv, Books!Compare PROVE BooksIInv'
<1>1. /\ sync' \in [at : {"idle", "answered", "fix"}, balance : Int]
      /\ consecutive_mismatch' \in 0 .. autofix_after_n
  <2>1. /\ consecutive_mismatch \in Nat /\ consecutive_mismatch <= autofix_after_n
        /\ sync \in [at : {"idle", "answered", "fix"}, balance : Int]
        /\ Books!NoBalance \in [at : {"idle", "answered", "fix"}, balance : Int]
        /\ autofix_after_n \in Nat
    BY BooksFacts DEF BooksIInv, BooksTypes, Books!NoBalance
  <2>2. CASE ~Books!Mismatch BY <2>1, <2>2 DEF Books!Compare
  <2>3. CASE Books!Mismatch
    <3> DEFINE count == consecutive_mismatch + 1
    <3>1. \/ /\ sync' = [sync EXCEPT !.at = "fix"]
             /\ consecutive_mismatch' = consecutive_mismatch
          \/ /\ ~(autofix_after_n > 0 /\ count >= autofix_after_n)
             /\ sync' = Books!NoBalance
             /\ consecutive_mismatch' = IF autofix_after_n = 0 THEN 0 ELSE count
      BY <2>3 DEF Books!Compare
    <3> QED BY <2>1, <3>1
  <2> QED BY <2>2, <2>3
<1>2. BooksTypes'
  BY <1>1 DEF BooksIInv, BooksTypes, Books!Compare, Books!engine, Books!exchange
<1> QED BY <1>2, BooksUntouched DEF Books!Compare

LEMMA AutofixKeepsIInv == ASSUME BooksIInv, Books!Autofix PROVE BooksIInv'
<1> USE DEF BooksIInv
<1>1. /\ acct_equity' = sync.balance /\ sync' = Books!NoBalance /\ consecutive_mismatch' = 0
      /\ disturbed' = ~(Books!Settled /\ sync.balance = wallet /\ acct_position = held)
      /\ acct_position' = acct_position /\ opening' = opening /\ acct_closing' = acct_closing
      /\ acct_read' = acct_read
      /\ wallet' = wallet /\ held' = held /\ acct_order' = acct_order /\ acct_stream' = acct_stream
      /\ acct_opened' = acct_opened /\ acct_delisted' = acct_delisted
      /\ Books!Closing' = Books!Closing
  BY DEF Books!Autofix, Books!exchange, Books!Closing
<1>2. Queue' = Queue BY <1>1, QueueKeeps
<1>3. BooksTypes'
  <2>1. acct_equity' \in Int BY <1>1 DEF BooksTypes
  <2>2. disturbed' \in BOOLEAN BY <1>1 DEF Books!Settled
  <2>3. /\ sync' \in [at : {"idle", "answered", "fix"}, balance : Int]
        /\ consecutive_mismatch' \in 0 .. autofix_after_n
    BY <1>1, BooksFacts DEF Books!NoBalance
  <2> QED BY <1>1, <2>1, <2>2, <2>3 DEF BooksTypes
<1>4. Apart' BY <1>1 DEF Apart
<1>5. InTurn' BY <1>1, <1>2 DEF InTurn
<1>6. Balanced'
  <2> SUFFICES ASSUME ~disturbed'
               PROVE  /\ acct_equity' = wallet /\ opening = Books!None /\ Books!Closing = {}
                      /\ acct_position = Books!None => held.qty = 0
                      /\ acct_position # Books!None =>
                           LeadsTo(Queue, acct_position.entry, acct_equity', acct_position.qty, wallet, held)
    BY <1>1, <1>2 DEF Balanced
  <2>1. Books!Settled /\ acct_equity' = wallet /\ acct_position = held BY <1>1
  <2>2. Queue = <<>> BY <2>1 DEF Books!Settled, Queue
  <2>3. acct_position = Books!None => held.qty = 0 BY <2>1 DEF Books!None
  <2>4. ASSUME acct_position # Books!None
        PROVE  LeadsTo(<<>>, acct_position.entry, wallet, acct_position.qty, wallet, held)
    <3>1. acct_position \in Filled BY <2>1, <2>4 DEF BooksTypes
    <3>2. acct_position.qty \in Int /\ acct_position.qty >= 1
      BY <3>1, BooksFacts DEF Filled
    <3>3. wallet \in Int BY DEF BooksTypes
    <3>4. Leads(<<>>, acct_position.entry, wallet, acct_position.qty, wallet, acct_position.qty)
      BY <3>2, <3>3, LeadsNowhere
    <3> QED BY <2>1, <3>2, <3>4 DEF LeadsTo
  <2> QED BY <2>1, <2>2, <2>3, <2>4 DEF Books!Settled
<1> QED BY <1>3, <1>4, <1>5, <1>6

-----------------------------------------------------------------------------
(* The whole.                                                              *)

LEMMA BooksNextKeepsIInv == BooksIInv /\ [Books!Next]_Books!bookVars => BooksIInv'
<1> SUFFICES ASSUME BooksIInv, [Books!Next]_Books!bookVars PROVE BooksIInv' OBVIOUS
<1>1. CASE Books!TriggerInPart BY <1>1, TriggerInPartKeepsIInv
<1>2. CASE Books!Trigger BY <1>2, TriggerKeepsIInv
<1>3. CASE Books!EntryFills BY <1>3, EntryFillsKeepsIInv
<1>4. CASE Books!Insert BY <1>4, InsertKeepsIInv
<1>5. CASE Books!ReadPartial BY <1>5, ReadPartialKeepsIInv
<1>6. CASE Books!ApplyPartial BY <1>6, ApplyPartialKeepsIInv
<1>7. CASE Books!FilledReport BY <1>7, FilledReportKeepsIInv
<1>8. CASE Books!TaskCloses BY <1>8, TaskClosesKeepsIInv
<1>9. ASSUME NEW c \in Books!Closers, Books!Cancel(c) PROVE BooksIInv'
  BY <1>9, CancelKeepsIInv
<1>10. ASSUME NEW c \in Books!Closers, Books!MarketClose(c) PROVE BooksIInv'
  BY <1>10, MarketCloseKeepsIInv
<1>11. ASSUME NEW c \in Books!Closers, Books!Archive(c) PROVE BooksIInv'
  BY <1>11, ArchiveKeepsIInv
<1>12. CASE Books!Delist BY <1>12, DelistKeepsIInv
<1>13. CASE Books!BalanceAnswered BY <1>13, BalanceAnsweredKeepsIInv
<1>14. CASE Books!Compare BY <1>14, CompareKeepsIInv
<1>15. CASE Books!Autofix BY <1>15, AutofixKeepsIInv
<1>16. CASE UNCHANGED Books!bookVars
  <2>1. BooksTypes'
    BY <1>16
      DEF BooksIInv, BooksTypes, Books!bookVars, Books!engine, Books!exchange,
          Books!repair
  <2> QED BY <1>16, <2>1, BooksUntouched DEF Books!bookVars
<1> QED
  BY <1>1, <1>2, <1>3, <1>4, <1>5, <1>6, <1>7, <1>8, <1>9, <1>10, <1>11, <1>12, <1>13,
     <1>14, <1>15, <1>16
  DEF Books!Next

LEMMA IInvInvariant == Books!Spec => []BooksIInv
BY BooksInitIInv, BooksNextKeepsIInv, PTL DEF Books!Spec

(* The quantities never go below nothing or beyond what the entry bought,  *)
(* whatever the stream reports and in whatever order.                      *)
THEOREM BooksTypeCorrect == Books!Spec => []Books!TypeOK
<1>1. BooksIInv => Books!TypeOK
  <2> SUFFICES ASSUME BooksIInv PROVE Books!TypeOK OBVIOUS
  <2>1. BooksTypes BY DEF BooksIInv
  <2>2. {acct_position.qty, held.qty, opening.qty} \subseteq 0 .. acct_Qty
    BY <2>1, BooksFacts DEF BooksTypes, Record, Filled, Books!None
  <2> QED BY <2>1, <2>2 DEF Books!TypeOK, BooksTypes
<1> QED BY <1>1, IInvInvariant, PTL

(* Nothing in flight and nothing the books cannot see: the equity the      *)
(* engine trades with is the exchange's wallet, for any prices, quantities *)
(* and number of partial fills.                                            *)
THEOREM EquityFollowsWallet == Books!Spec => []EquityIsWallet
<1>1. BooksIInv => Books!EquityIsWallet
  <2> SUFFICES ASSUME BooksIInv, Books!Settled, ~disturbed PROVE acct_equity = wallet
    BY DEF Books!EquityIsWallet
  <2>1. opening = Books!None /\ Books!Closing = {} /\ Queue = <<>>
    BY DEF Books!Settled, Queue
  <2>2. CASE acct_position = Books!None BY <2>1, <2>2 DEF BooksIInv, Balanced
  <2>3. CASE acct_position # Books!None
    <3>1. LeadsTo(<<>>, acct_position.entry, acct_equity, acct_position.qty, wallet, held)
      BY <2>1, <2>3 DEF BooksIInv, Balanced
    <3> QED BY <3>1, NothingLeads DEF LeadsTo
  <2> QED BY <2>2, <2>3
<1> QED BY <1>1, IInvInvariant, PTL DEF EquityIsWallet

=============================================================================
