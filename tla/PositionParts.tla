---------------------------- MODULE PositionParts -----------------------------
(***************************************************************************)
(* What sizes a position and what its life books: the components of the    *)
(* live engine that look at one symbol.                                    *)
(* Each is an instance with parameters and state of its own; names that    *)
(* several components have carry the instance they belong to.              *)
(***************************************************************************)
EXTENDS Integers, Sequences, FiniteSets

-----------------------------------------------------------------------------
CONSTANTS tranche_count, enabled, EntryQty, InParts, MaxOpenings

VARIABLES size_position, graded, size_stage, size_read, partial, size_closing,
          removed, archived, size_opened, size_delisted, exchange, size_stream

Size == INSTANCE PositionSize WITH
          position <- size_position, stage <- size_stage, read <- size_read,
          closing <- size_closing, opened <- size_opened, delisted <- size_delisted,
          stream <- size_stream

ASSUME SizeAssumed == Size!SizeAssumption

\* Whatever closers, purge and late fills do between the two locks of a tranche, a
\* position is made of the first tranches of its own target, each of them once.
OwnTranchesInOrder == Size!OwnTranchesInOrder

\* What four writers, two looks of the stream handler and the purge do to the map is, for
\* each position, one life: recorded once, moved on from place to place and never back, so
\* that no late fill or tranche revives what a closer has taken.
PositionsMoveOn == Size!PositionsMoveOn

\* A graded state without a position belongs to a close still under way, which will
\* drop it: it never sizes the tranches of a later position (a delisted symbol, whose
\* state stays, is not opened again).
StateHasOwner == Size!StateHasOwner

-----------------------------------------------------------------------------
CONSTANTS capital, acct_Prices, Fills, trailing_stop, acct_commission, acct_Qty,
          autofix_after_n, Misread

VARIABLES acct_equity, acct_position, opening, acct_closing, acct_read, sync,
          consecutive_mismatch, acct_delisted, acct_opened, wallet, held,
          acct_order, acct_stream, disturbed

Books == INSTANCE EquityBook WITH
          Prices <- acct_Prices, commission <- acct_commission, Qty <- acct_Qty,
          equity <- acct_equity, position <- acct_position, closing <- acct_closing,
          read <- acct_read, delisted <- acct_delisted, opened <- acct_opened,
          order <- acct_order, stream <- acct_stream

ASSUME BooksAssumed == Books!BookingAssumption

\* Once nothing is in flight the equity is what the exchange's wallet holds, partial
\* fills, closers racing for one record and repairs included, unless something happened
\* that the books cannot see: a protection order beside the trailing stop, an entry reported in
\* parts, a close overtaken by a fill, a fill or a purge without a record, or a repair
\* in the middle of it; and a repair at rest makes them equal again.
EquityIsWallet == Books!EquityIsWallet

=============================================================================
