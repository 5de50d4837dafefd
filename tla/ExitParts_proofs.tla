--------------------------- MODULE ExitParts_proofs ---------------------------
(***************************************************************************)
(* What is proved of the basket book and the exit rules, for every value   *)
(* of their parameters.                                                    *)
(***************************************************************************)
EXTENDS ExitParts, FiniteSetTheorems, WellFoundedInduction, TLAPS

-----------------------------------------------------------------------------
(***************************************************************************)
(* The basket book, for every set of symbols, size of book, buffer and     *)
(* cadence.  The choice with hysteresis is idempotent, because the places  *)
(* left are filled from an end the symbols kept come from; the legs know   *)
(* when they were opened (Dated), which the cadence is about; and a book   *)
(* that was to be emptied has nothing left to open (Emptied).              *)
(***************************************************************************)

(* The count the instance takes is the one the library speaks of.           *)
LEMMA BookSameFinite == ASSUME NEW S PROVE Book!IsFiniteSet(S) <=> IsFiniteSet(S)
BY DEF Book!IsFiniteSet, IsFiniteSet

LEMMA BookSameCount == ASSUME NEW S PROVE Book!Cardinality(S) = Cardinality(S)
BY DEF Book!Cardinality, Cardinality

Before(S, f, s) == {t \in S : f[t] < f[s]}

LEMMA FirstByIs ==
    ASSUME NEW S, NEW n, NEW f
    PROVE  Book!FirstBy(S, n, f) = {s \in S : Cardinality(Before(S, f, s)) < n}
BY BookSameCount DEF Book!FirstBy, Before

\* Positions of finitely many symbols, no two at the same place.
BookPlaced(S, f) ==
    /\ IsFiniteSet(S)
    /\ \A s \in S : f[s] \in Nat
    /\ \A s, t \in S : f[s] = f[t] => s = t

LEMMA SomeLast ==
    ASSUME NEW S, S # {}, NEW f, BookPlaced(S, f), NEW m \in Nat, \A s \in S : f[s] <= m
    PROVE  \E last \in S : \A s \in S : f[s] <= f[last]
<1> DEFINE T == {m - f[s] : s \in S}
<1>1. T \subseteq Nat /\ T # {} BY DEF BookPlaced
<1>2. PICK x \in T : \A y \in T : ~(<<y, x>> \in OpToRel(<, Nat))
  <2> HIDE DEF T
  <2> QED BY <1>1, WFMin, NatLessThanWellFounded
<1>3. \A y \in T : x <= y
  <2> SUFFICES ASSUME NEW y \in T PROVE x <= y OBVIOUS
  <2>1. x \in Nat /\ y \in Nat BY <1>1
  <2>2. ~(<<y, x>> \in OpToRel(<, Nat)) BY <1>2
  <2> QED BY <2>1, <2>2 DEF OpToRel
<1>4. PICK last \in S : x = m - f[last] OBVIOUS
<1>5. \A s \in S : m - f[last] <= m - f[s] BY <1>3, <1>4
<1> QED BY <1>5 DEF BookPlaced

LEMMA BeforeFinite ==
    ASSUME NEW S, NEW f, BookPlaced(S, f), NEW s
    PROVE  IsFiniteSet(Before(S, f, s)) /\ Cardinality(Before(S, f, s)) \in Nat
<1>1. Before(S, f, s) \subseteq S BY DEF Before
<1> QED BY <1>1, FS_Subset, FS_CardinalityType DEF BookPlaced

\* There are no more than n first ones, and none when n is not positive.
LEMMA FirstByCount ==
    ASSUME NEW S, NEW n \in Int, NEW f, BookPlaced(S, f), NEW m \in Nat,
           \A s \in S : f[s] <= m
    PROVE  /\ Book!FirstBy(S, n, f) \subseteq S
           /\ IsFiniteSet(Book!FirstBy(S, n, f)) /\ Cardinality(Book!FirstBy(S, n, f)) \in Nat
           /\ Cardinality(Book!FirstBy(S, n, f)) <= IF n < 0 THEN 0 ELSE n
<1> DEFINE A == Book!FirstBy(S, n, f)
<1>1. A = {s \in S : Cardinality(Before(S, f, s)) < n} BY FirstByIs
<1>2. A \subseteq S BY <1>1
<1> HIDE DEF A
<1>3. IsFiniteSet(A) /\ Cardinality(A) \in Nat
  BY <1>2, FS_Subset, FS_CardinalityType DEF BookPlaced
<1>4. CASE A = {} BY <1>2, <1>3, <1>4, FS_EmptySet DEF A
<1>5. CASE A # {}
  <2>1. BookPlaced(A, f) /\ \A s \in A : f[s] <= m BY <1>2, <1>3 DEF BookPlaced
  <2>2. PICK last \in A : \A s \in A : f[s] <= f[last] BY <1>5, <2>1, SomeLast
  <2> DEFINE B == Before(S, f, last)
  <2>3. A \subseteq B \cup {last} BY <1>2, <2>2 DEF Before, BookPlaced
  <2>4. IsFiniteSet(B) /\ Cardinality(B) \in Nat BY BeforeFinite
  <2>5. last \notin B BY <1>2, <2>2 DEF Before, BookPlaced
  <2>6. Cardinality(B) < n BY <1>1, <2>2
  <2> HIDE DEF B
  <2>7. IsFiniteSet(B \cup {last}) /\ Cardinality(B \cup {last}) = Cardinality(B) + 1
    BY <2>4, <2>5, FS_AddElement
  <2>8. Cardinality(A) <= Cardinality(B) + 1 BY <2>3, <2>7, FS_Subset
  <2> QED BY <1>2, <1>3, <2>4, <2>6, <2>8 DEF A
<1> QED BY <1>4, <1>5

\* Of no more than n, all are first.
LEMMA AllFirst ==
    ASSUME NEW S, NEW n \in Int, NEW f, BookPlaced(S, f), Cardinality(S) <= n
    PROVE  Book!FirstBy(S, n, f) = S
<1> SUFFICES ASSUME NEW s \in S PROVE Cardinality(Before(S, f, s)) < n BY FirstByIs
<1>1. Before(S, f, s) \subseteq S \ {s} BY DEF Before, BookPlaced
<1>2. IsFiniteSet(S \ {s}) /\ Cardinality(S \ {s}) = Cardinality(S) - 1
  BY FS_RemoveElement DEF BookPlaced
<1>3. Cardinality(Before(S, f, s)) <= Cardinality(S) - 1 BY <1>1, <1>2, FS_Subset
<1>4. Cardinality(S) \in Nat /\ Cardinality(Before(S, f, s)) \in Nat
  BY BeforeFinite, FS_CardinalityType DEF BookPlaced
<1> QED BY <1>3, <1>4

\* Taking some of the first ones away leaves the others the first of the rest, when
\* those taken come before those left.
LEMMA FirstOfRest ==
    ASSUME NEW S, NEW n \in Int, NEW f, BookPlaced(S, f), NEW taken,
           taken \subseteq Book!FirstBy(S, n, f),
           \A t \in taken : \A s \in Book!FirstBy(S, n, f) \ taken : f[t] < f[s]
    PROVE  Book!FirstBy(S \ taken, n - Cardinality(taken), f) = Book!FirstBy(S, n, f) \ taken
<1> DEFINE rest == S \ taken
<1>1. taken \subseteq S /\ IsFiniteSet(taken) /\ Cardinality(taken) \in Nat
  <2>1. taken \subseteq S BY FirstByIs
  <2> QED BY <2>1, FS_Subset, FS_CardinalityType DEF BookPlaced
<1>2. \A s \in rest :
        /\ Before(rest, f, s) = Before(S, f, s) \ taken
        /\ Cardinality(Before(S, f, s)) \in Nat
        /\ Cardinality(Before(rest, f, s)) =
             Cardinality(Before(S, f, s)) - Cardinality(Before(S, f, s) \cap taken)
  <2> SUFFICES ASSUME NEW s \in rest
               PROVE  /\ Before(rest, f, s) = Before(S, f, s) \ taken
                      /\ Cardinality(Before(S, f, s)) \in Nat
                      /\ Cardinality(Before(rest, f, s)) =
                           Cardinality(Before(S, f, s))
                             - Cardinality(Before(S, f, s) \cap taken)
    OBVIOUS
  <2>1. Before(rest, f, s) = Before(S, f, s) \ taken BY DEF Before
  <2>2. IsFiniteSet(Before(S, f, s)) /\ Cardinality(Before(S, f,
                                                                                s)) \in Nat
                                                                                  BY BeforeFinite
  <2> QED BY <2>1, <2>2, FS_Difference
<1>3. \A s \in rest : /\ Cardinality(Before(S, f, s) \cap taken) \in Nat
                      /\ Cardinality(Before(S, f, s) \cap taken) <= Cardinality(taken)
  <2> SUFFICES ASSUME NEW s \in rest
               PROVE  /\ Cardinality(Before(S, f, s) \cap taken) \in Nat
                      /\ Cardinality(Before(S, f, s) \cap taken) <= Cardinality(taken)
    OBVIOUS
  <2> QED BY <1>1, FS_Intersection, FS_CardinalityType
<1>4. Book!FirstBy(rest, n - Cardinality(taken), f) =
        {s \in rest : Cardinality(Before(rest, f, s)) < n - Cardinality(taken)}
  BY FirstByIs
<1>5. Book!FirstBy(S, n, f) = {s \in S : Cardinality(Before(S, f, s)) < n} BY FirstByIs
<1> HIDE DEF rest
<1>6. ASSUME NEW s \in rest, Cardinality(Before(rest, f, s)) < n - Cardinality(taken)
      PROVE  s \in Book!FirstBy(S, n, f)
  <2>1. Cardinality(Before(S, f, s)) - Cardinality(Before(S, f, s) \cap taken)
          < n - Cardinality(taken)
    BY <1>2, <1>6
  <2>2. Cardinality(Before(S, f, s)) < n BY <1>1, <1>2, <1>3, <2>1
  <2> QED BY <1>5, <2>2 DEF rest
<1>7. ASSUME NEW s \in Book!FirstBy(S, n, f) \ taken
      PROVE  Cardinality(Before(rest, f, s)) < n - Cardinality(taken)
  <2>1. s \in rest /\ Cardinality(Before(S, f, s)) < n BY <1>5 DEF rest
  <2>2. Before(S, f, s) \cap taken = taken BY <1>1 DEF Before
  <2>3. Cardinality(Before(rest, f, s)) = Cardinality(Before(S, f, s)) - Cardinality(taken)
    BY <1>2, <2>1, <2>2
  <2>4. Cardinality(Before(S, f, s)) \in Nat BY <1>2, <2>1
  <2> QED BY <1>1, <2>1, <2>3, <2>4
<1>8. Book!FirstBy(S, n, f) \ taken \subseteq rest BY <1>5 DEF rest
<1>9. rest \cap taken = {} BY DEF rest
<1> QED BY <1>4, <1>6, <1>7, <1>8, <1>9 DEF rest

(* Choosing a side again, from the book just chosen, chooses the same: the *)
(* members within the buffer are kept, and the others were the first of    *)
(* those left and are so again.                                            *)
LEMMA SideStable ==
    ASSUME NEW others, NEW f, BookPlaced(others, f), NEW m \in Nat,
           \A s \in others : f[s] <= m,
           NEW k \in Nat, NEW buffer \in Nat, NEW prev
    PROVE  /\ Book!Side(prev, f, others, k, buffer) \subseteq others
           /\ Book!Side(Book!Side(prev, f, others, k, buffer), f, others, k, buffer) =
                Book!Side(prev, f, others, k, buffer)
<1> DEFINE near == {s \in prev \cap others : f[s] <= k + buffer}
           kept == Book!FirstBy(near, k, f)
           left == others \ kept
           places == k - Cardinality(kept)
           filled == Book!FirstBy(left, places, f)
           book == kept \cup filled
           again == {s \in book \cap others : f[s] <= k + buffer}
           taken == {s \in filled : f[s] <= k + buffer}
<1>1. Book!Side(prev, f, others, k, buffer) = book BY BookSameCount DEF Book!Side
<1>2. BookPlaced(near, f) /\ near \subseteq others
  <2>1. near \subseteq others OBVIOUS
  <2>2. IsFiniteSet(near) BY <2>1, FS_Subset DEF BookPlaced
  <2> HIDE DEF near
  <2> QED BY <2>1, <2>2 DEF BookPlaced
<1>3. /\ kept \subseteq near /\ IsFiniteSet(kept) /\ Cardinality(kept) \in Nat
      /\ Cardinality(kept) <= k
  <2> HIDE DEF near
  <2>1. \A s \in near : f[s] <= m BY <1>2
  <2> QED BY <1>2, <2>1, FirstByCount
<1>4. BookPlaced(left, f) /\ left \subseteq others /\ places \in Nat
  <2>1. left \subseteq others OBVIOUS
  <2>2. IsFiniteSet(left) BY <2>1, FS_Subset DEF BookPlaced
  <2> HIDE DEF left
  <2> QED BY <1>3, <2>1, <2>2 DEF BookPlaced
<1>5. /\ filled \subseteq left /\ IsFiniteSet(filled) /\ Cardinality(filled) \in Nat
      /\ Cardinality(filled) <= places
  <2> HIDE DEF left, places
  <2>1. \A s \in left : f[s] <= m BY <1>4
  <2> QED BY <1>4, <2>1, FirstByCount
<1>6. book \subseteq others BY <1>2, <1>3, <1>4, <1>5
<1>7. again = kept \cup taken
  <2>1. \A s \in kept : s \in others /\ f[s] <= k + buffer BY <1>2, <1>3
  <2> HIDE DEF kept, filled
  <2> QED BY <1>6, <2>1
<1>8. kept \cap filled = {} BY <1>5
<1>9. taken \subseteq filled /\ IsFiniteSet(taken) /\ Cardinality(taken) \in Nat
  <2>1. taken \subseteq filled OBVIOUS
  <2> HIDE DEF taken, filled
  <2> QED BY <1>5, <2>1, FS_Subset, FS_CardinalityType
<1> HIDE DEF near, kept, places, filled
<1>10. IsFiniteSet(again) /\ Cardinality(again) = Cardinality(kept) + Cardinality(taken)
  <2>1. kept \cap taken = {} BY <1>8
  <2>2. Cardinality(kept \cap taken) = 0 BY <2>1, FS_EmptySet
  <2> HIDE DEF taken, again
  <2>3. /\ IsFiniteSet(kept \cup taken)
        /\ Cardinality(kept \cup taken) =
             Cardinality(kept) + Cardinality(taken) - Cardinality(kept \cap taken)
    BY <1>3, <1>9, FS_Union
  <2>4. Cardinality(kept \cup taken) = Cardinality(kept) + Cardinality(taken)
    BY <1>3, <1>9, <2>2, <2>3
  <2> QED BY <1>7, <2>3, <2>4
<1>11. Cardinality(again) <= k
  <2>1. Cardinality(taken) <= Cardinality(filled) BY <1>5, <1>9, FS_Subset
  <2> HIDE DEF taken, again
  <2> QED BY <1>3, <1>5, <1>9, <1>10, <2>1 DEF places
<1>12. Book!FirstBy(again, k, f) = again
  <2>1. again \subseteq others OBVIOUS
  <2> HIDE DEF again
  <2>2. BookPlaced(again, f) BY <1>10, <2>1 DEF BookPlaced
  <2> QED BY <1>11, <2>2, AllFirst
<1>13. Book!FirstBy(left \ taken, places - Cardinality(taken), f) = filled \ taken
  <2>1. \A t \in taken : \A s \in filled \ taken : f[t] < f[s]
    <3> SUFFICES ASSUME NEW t \in taken,
                        NEW s \in filled \ taken PROVE f[t] < f[s] OBVIOUS
    <3>1. s \in others /\ t \in others BY <1>4, <1>5
    <3>2. f[s] \in Nat /\ f[t] \in Nat BY <3>1 DEF BookPlaced
    <3>3. f[t] <= k + buffer /\ ~(f[s] <= k + buffer) OBVIOUS
    <3> QED BY <3>2, <3>3
  <2> HIDE DEF left, taken
  <2> QED BY <1>4, <1>9, <2>1, FirstOfRest DEF filled
<1>14. others \ again = left \ taken BY <1>7
<1>15. k - Cardinality(again) = places - Cardinality(taken)
  <2> HIDE DEF taken, again
  <2> QED BY <1>3, <1>9, <1>10 DEF places
<1>16. Book!Side(book, f, others, k, buffer) =
         Book!FirstBy(again, k, f)
           \cup Book!FirstBy(others \ Book!FirstBy(again, k, f), k - Cardinality(Book!FirstBy(again, k, f)), f)
  BY BookSameCount DEF Book!Side
<1>17. Book!Side(book, f, others, k, buffer) = again \cup (filled \ taken)
  BY <1>12, <1>13, <1>14, <1>15, <1>16
<1>18. again \cup (filled \ taken) = book BY <1>7, <1>9
<1> QED BY <1>1, <1>6, <1>17, <1>18

-----------------------------------------------------------------------------
(* Rankings: places counted from either end. *)

\* A sequence of some of the symbols, each once.
LEMMA RankingFact ==
    ASSUME NEW sig \in Book!Rankings
    PROVE  /\ Len(sig) \in Nat /\ DOMAIN sig = 1 .. Len(sig)
           /\ Book!Range(sig) \subseteq BookSymbols /\ IsFiniteSet(Book!Range(sig))
<1>1. PICK m \in 0 .. Cardinality(BookSymbols) : sig \in [1 .. m -> BookSymbols]
  BY BookSameCount DEF Book!Rankings, Book!SeqOf
<1>2. m \in Nat OBVIOUS
<1>3. Len(sig) = m /\ DOMAIN sig = 1 .. m BY <1>1, <1>2
<1>4. Book!Range(sig) = {sig[i] : i \in 1 .. m} BY <1>3 DEF Book!Range
<1>5. Book!Range(sig) \subseteq BookSymbols BY <1>1, <1>4
<1>6. IsFiniteSet(BookSymbols) BY BookAssumed, BookSameFinite DEF Book!BookAssumption
<1> QED BY <1>2, <1>3, <1>5, <1>6, FS_Subset

LEMMA RanksPlace ==
    ASSUME NEW sig \in Book!Rankings
    PROVE  /\ BookPlaced(Book!Range(sig), Book!Rank(sig))
           /\ BookPlaced(Book!Range(sig), Book!BackRank(sig))
           /\ \A s \in Book!Range(sig) :
                Book!Rank(sig)[s] <= Len(sig) /\ Book!BackRank(sig)[s] <= Len(sig)
<1>1. /\ Len(sig) \in Nat /\ DOMAIN sig = 1 .. Len(sig) /\ IsFiniteSet(Book!Range(sig))
  BY RankingFact
<1>2. \A s \in Book!Range(sig) : Book!Rank(sig)[s] \in 1 .. Len(sig) /\ sig[Book!Rank(sig)[s]] = s
  BY <1>1 DEF Book!Rank, Book!Range
<1>3. \A s \in Book!Range(sig) : Book!BackRank(sig)[s] = Len(sig) + 1 - Book!Rank(sig)[s]
  BY DEF Book!BackRank
<1>4. \A s \in Book!Range(sig) : /\ Book!Rank(sig)[s] \in Nat /\ Book!Rank(sig)[s] <= Len(sig)
                                 /\ Book!BackRank(sig)[s] \in Nat
                                 /\ Book!BackRank(sig)[s] <= Len(sig)
  BY <1>1, <1>2, <1>3
<1>5. \A s, t \in Book!Range(sig) : /\ Book!Rank(sig)[s] = Book!Rank(sig)[t] => s = t
                                    /\ Book!BackRank(sig)[s] = Book!BackRank(sig)[t] => s = t
  <2> SUFFICES ASSUME NEW s \in Book!Range(sig), NEW t \in Book!Range(sig)
               PROVE  /\ Book!Rank(sig)[s] = Book!Rank(sig)[t] => s = t
                      /\ Book!BackRank(sig)[s] = Book!BackRank(sig)[t] => s = t
    OBVIOUS
  <2>1. Book!BackRank(sig)[s] = Book!BackRank(sig)[t] => Book!Rank(sig)[s] = Book!Rank(sig)[t]
    BY <1>1, <1>3, <1>4
  <2> QED BY <1>2, <2>1
<1> QED BY <1>1, <1>4, <1>5 DEF BookPlaced

\* select_books, of any books held, is not changed by selecting again.
LEMMA SelectStable ==
    ASSUME NEW sig \in Book!Rankings, NEW k \in Nat, NEW buffer \in Nat, NEW long,
           NEW short,
           NEW book, book = Book!SelectBooks(sig, k, buffer, long, short)
    PROVE  /\ book[1] \subseteq BookSymbols /\ book[2] \subseteq BookSymbols
           /\ Book!SelectBooks(sig, k, buffer, book[1], book[2]) = <<book[1], book[2]>>
<1> DEFINE L == Book!Side(long, Book!Rank(sig), Book!Range(sig), k, buffer)
           others == Book!Range(sig) \ L
           S == Book!Side(short, Book!BackRank(sig), others, k, buffer)
<1>1. book = <<L, S>> BY DEF Book!SelectBooks
<1>2. Len(sig) \in Nat /\ Book!Range(sig) \subseteq BookSymbols BY RankingFact
<1>3. L \subseteq Book!Range(sig) /\ Book!Side(L, Book!Rank(sig), Book!Range(sig), k, buffer) = L
  BY <1>2, RanksPlace, SideStable
<1> HIDE DEF L
<1>4. /\ BookPlaced(others, Book!BackRank(sig)) /\ others \subseteq Book!Range(sig)
      /\ \A s \in others : Book!BackRank(sig)[s] <= Len(sig)
  <2>1. IsFiniteSet(others) BY RanksPlace, FS_Difference DEF BookPlaced
  <2> QED BY <2>1, RanksPlace DEF BookPlaced
<1> HIDE DEF others
<1>5. S \subseteq others /\ Book!Side(S, Book!BackRank(sig), others, k, buffer) = S
  BY SMTT(20), <1>2, <1>4, SideStable
<1> HIDE DEF S
<1>6. Book!SelectBooks(sig, k, buffer, L, S) = <<L, S>>
  <2>1. Book!SelectBooks(sig, k, buffer, L, S) =
          <<Book!Side(L, Book!Rank(sig), Book!Range(sig), k, buffer),
            Book!Side(S, Book!BackRank(sig), Book!Range(sig) \ Book!Side(L, Book!Rank(sig), Book!Range(sig), k, buffer),
                      k, buffer)>>
    BY DEF Book!SelectBooks
  <2> QED BY <1>3, <1>5, <2>1 DEF others
<1> QED BY <1>1, <1>2, <1>3, <1>4, <1>5, <1>6

-----------------------------------------------------------------------------
(* The book. *)

\* A leg held was opened in the bar of a rebalance no later than the last one; there is
\* none, and none to open, before the first.
Dated ==
    /\ \A s \in BookSymbols :
         legs[s] # "none" => opened_at[s] >= 1 /\ opened_at[s] <= last_bar
    /\ book_open # {} => last_bar >= 1

\* A book to be emptied has nothing to open, and each leg it can judge is on the way out.
Emptied ==
    (ranking # <<>> /\ longs \cup shorts = {}) =>
        /\ book_open = {}
        /\ \A s \in Book!Fresh : legs[s] = "none" \/ s \in close

BookIInv == Book!TypeOK /\ Book!TargetIsStable /\ Dated /\ Book!ChurnNeedsBars /\ Emptied

LEMMA BarFacts ==
    ASSUME Book!TypeOK
    PROVE  /\ last_bar \in Nat /\ book_bar \in Nat /\ book_bar >= 1 /\ last_bar <= book_bar
           /\ book_bar <= MaxBar
           /\ MaxBar \in Nat /\ rebalance_min_bars \in Nat /\ top_k \in Nat /\ exit_buffer \in Nat
           /\ Book!Fresh \subseteq BookSymbols
           /\ \A s \in BookSymbols : opened_at[s] \in Nat
<1>1. Book!Fresh \subseteq BookSymbols BY RankingFact DEF Book!TypeOK, Book!Fresh
<1> QED BY <1>1, BookAssumed DEF Book!TypeOK, Book!BookAssumption

LEMMA BookInitIInv == ASSUME Book!Init PROVE BookIInv
<1>1. <<>> \in Book!Rankings
  <2>1. Cardinality(BookSymbols) \in Nat
    BY BookAssumed, BookSameFinite, FS_CardinalityType DEF Book!BookAssumption
  <2>2. <<>> \in [1 .. 0 -> BookSymbols] OBVIOUS
  <2>3. <<>> \in Book!SeqOf(BookSymbols, Cardinality(BookSymbols))
    BY <2>1, <2>2 DEF Book!SeqOf
  <2> QED BY <2>3, BookSameCount DEF Book!Rankings, Book!IsInjective
<1>2. MaxBar \in Nat /\ 1 <= MaxBar BY BookAssumed DEF Book!BookAssumption
<1>3. last_bar \in 0 .. book_bar /\ book_bar \in 1 .. MaxBar
  BY <1>2 DEF Book!Init, Book!None
<1>4. opened_at \in [BookSymbols -> 0 .. MaxBar] BY <1>2 DEF Book!Init, Book!None
<1>5. Book!TypeOK BY <1>1, <1>3, <1>4 DEF Book!Init, Book!TypeOK
<1> QED BY <1>5
          DEF Book!Init, BookIInv, Book!TargetIsStable, Dated, Book!ChurnNeedsBars,
              Emptied

\* The one order that stands for all of a ranking's symbols (ForceFlat) is a ranking.
LEMMA AnyOrder ==
    ASSUME NEW sig \in Book!Rankings
    PROVE  Book!SetToSeq(Book!Range(sig)) \in Book!Rankings
<1> DEFINE S == Book!Range(sig)
           n == Cardinality(S)
<1>1. S \subseteq BookSymbols /\ IsFiniteSet(S) BY RankingFact
<1> HIDE DEF S
<1>2. n \in Nat /\ ExistsBijection(1 .. n, S) BY <1>1, FS_CardinalityType
<1>3. \E f \in [1 .. n -> S] : Book!IsInjective(f)
  BY <1>2 DEF ExistsBijection, Bijection, Injection, IsInjective, Book!IsInjective
<1>4. Book!SetToSeq(S) \in [1 .. n -> S] /\ Book!IsInjective(Book!SetToSeq(S))
  BY <1>3, BookSameCount DEF Book!SetToSeq
<1>5. IsFiniteSet(BookSymbols) BY BookAssumed, BookSameFinite DEF Book!BookAssumption
<1>6. n <= Cardinality(BookSymbols) /\ Cardinality(BookSymbols) \in Nat
  BY <1>1, <1>5, FS_Subset, FS_CardinalityType
<1>7. Book!SetToSeq(S) \in [1 .. n -> BookSymbols] BY <1>1, <1>4
<1> HIDE DEF n
<1>8. Book!SetToSeq(S) \in Book!SeqOf(BookSymbols, Cardinality(BookSymbols))
  BY <1>2, <1>6, <1>7 DEF Book!SeqOf
<1> QED BY <1>4, <1>8, BookSameCount DEF Book!Rankings, S

(* Planning a book leaves nothing to open when the book is empty, and      *)
(* every leg that is not wanted among those to close.                      *)
LEMMA PlanFact ==
    ASSUME Book!TypeOK, NEW long, NEW short, long \subseteq BookSymbols,
           short \subseteq BookSymbols,
           Book!Plan(long, short)
    PROVE  /\ close' \subseteq BookSymbols /\ book_open' \subseteq BookSymbols
           /\ longs' = long /\ shorts' = short
           /\ long \cup short = {} =>
                book_open' = {} /\ \A s \in BookSymbols : legs[s] = "none" \/ s \in close'
BY DEF Book!TypeOK, Book!Plan

LEMMA FlatKeepsIInv ==
    ASSUME BookIInv, NEW sig \in Book!Rankings, Book!ForceFlat(sig),
           cooldown' \in BOOLEAN,
           UNCHANGED <<legs, book_bar, opened_at>>
    PROVE  BookIInv'
<1>1. Book!TypeOK /\ Book!Plan({}, {}) /\ last_bar' = last_bar
  BY DEF BookIInv, Book!ForceFlat
<1>2. /\ close' \subseteq BookSymbols /\ book_open' = {} /\ longs' = {} /\ shorts' = {}
      /\ \A s \in BookSymbols : legs[s] = "none" \/ s \in close'
  BY <1>1, PlanFact
<1>3. ranking' \in Book!Rankings BY DEF Book!ForceFlat
<1>4. Book!Range(ranking') \subseteq BookSymbols BY <1>3, RankingFact
<1> QED BY <1>1, <1>2, <1>3, <1>4
    DEF BookIInv, Book!TypeOK, Book!TargetIsStable, Dated, Book!ChurnNeedsBars, Emptied,
        Book!Fresh

LEMMA RebalanceKeepsIInv ==
    ASSUME BookIInv, NEW sig \in Book!Rankings, NEW cur_bar \in {book_bar - 1,
           book_bar} \ {0},
           Book!Rebalance(sig, cur_bar), UNCHANGED <<legs, book_bar, opened_at>>
    PROVE  BookIInv'
<1> DEFINE book == Book!SelectBooks(sig, top_k, exit_buffer, Book!Held("long"), Book!Held("short"))
<1>1. /\ Book!TypeOK /\ Book!Plan(book[1], book[2]) /\ Book!Due(cur_bar)
      /\ ranking' = sig /\ last_bar' = cur_bar /\ cooldown' = cooldown
  BY DEF BookIInv, Book!Rebalance
<1>2. /\ top_k \in Nat /\ exit_buffer \in Nat /\ rebalance_min_bars \in Nat
      /\ last_bar \in Nat /\ book_bar \in Nat /\ book_bar >= 1
  BY <1>1, BarFacts
<1>3. /\ book[1] \subseteq BookSymbols /\ book[2] \subseteq BookSymbols
      /\ Book!SelectBooks(sig, top_k, exit_buffer, book[1], book[2]) = <<book[1], book[2]>>
  BY <1>2, SelectStable
<1> HIDE DEF book
<1>4. /\ close' \subseteq BookSymbols /\ book_open' \subseteq BookSymbols
      /\ longs' = book[1] /\ shorts' = book[2]
      /\ longs' \cup shorts' = {} =>
           book_open' = {} /\ \A s \in BookSymbols : legs[s] = "none" \/ s \in close'
  BY <1>1, <1>3, PlanFact
<1>5. cur_bar \in 1 .. book_bar BY <1>2
<1>6. Book!TypeOK'
  <2>1. last_bar' \in 0 .. book_bar' BY <1>1, <1>2, <1>5
  <2> QED BY <1>1, <1>3, <1>4, <2>1 DEF Book!TypeOK
<1>7. Book!TargetIsStable' BY <1>1, <1>3, <1>4 DEF Book!TargetIsStable
<1>8. \A s \in BookSymbols : legs[s] # "none" =>
        /\ opened_at[s] >= 1 /\ opened_at[s] <= last_bar /\ opened_at[s] \in Nat
        /\ cur_bar - last_bar >= rebalance_min_bars
  BY <1>1, <1>2, BarFacts DEF BookIInv, Dated, Book!Due, Book!None
<1>9. \A s \in BookSymbols : legs[s] # "none" => cur_bar - opened_at[s] >= rebalance_min_bars
  BY <1>2, <1>5, <1>8
<1>10. Dated' BY <1>1, <1>2, <1>5, <1>8 DEF Dated
<1>11. Book!ChurnNeedsBars' BY <1>1, <1>4, <1>9 DEF Book!ChurnNeedsBars
<1>12. Emptied'
  <2>1. Book!Range(sig) \subseteq BookSymbols BY RankingFact
  <2> QED BY <1>1, <1>4, <2>1 DEF Emptied, Book!Fresh
<1> QED BY <1>6, <1>7, <1>10, <1>11, <1>12 DEF BookIInv

LEMMA EvaluateStep == ASSUME BookIInv, Book!Evaluate PROVE BookIInv'
<1>1. PICK sig \in Book!Rankings :
        \/ Book!Breaker(sig) \/ Book!TakeProfit(sig) \/ Book!HoldFlat(sig)
        \/ \E cur_bar \in {book_bar - 1, book_bar} \ {0} : Book!Rebalance(sig, cur_bar)
  BY DEF Book!Evaluate
<1>2. UNCHANGED <<legs, book_bar, opened_at>> BY DEF Book!Evaluate
<1>3. CASE Book!Breaker(sig) \/ Book!TakeProfit(sig) \/ Book!HoldFlat(sig)
  <2>1. Book!ForceFlat(sig) /\ cooldown' \in BOOLEAN
    BY <1>3 DEF Book!Breaker, Book!TakeProfit, Book!HoldFlat, BookIInv, Book!TypeOK
  <2> QED BY <1>2, <2>1, FlatKeepsIInv
<1>4. CASE \E cur_bar \in {book_bar - 1, book_bar} \ {0} : Book!Rebalance(sig, cur_bar)
  BY <1>2, <1>4, RebalanceKeepsIInv
<1> QED BY <1>1, <1>3, <1>4

LEMMA BookNextKeepsIInv == ASSUME BookIInv, [Book!Next]_Book!bookVars PROVE BookIInv'
<1>1. Book!TypeOK BY DEF BookIInv
<1>2. CASE Book!Evaluate BY <1>2, EvaluateStep
<1>3. ASSUME NEW s \in BookSymbols, Book!CloseLeg(s) PROVE BookIInv'
  <2>1. /\ close' = close \ {s} /\ book_open' = book_open
        /\ UNCHANGED <<ranking, longs, shorts, last_bar, cooldown, book_bar>>
    BY <1>3 DEF Book!CloseLeg
  <2>2. CASE s \in Book!Fresh
    <3>1. Book!Closed(s) BY <1>3, <2>2 DEF Book!CloseLeg
    <3>2. /\ legs' \in [BookSymbols -> {"none", "long", "short"}] /\ legs'[s] = "none"
          /\ opened_at' \in [BookSymbols -> 0 .. MaxBar]
          /\ \A t \in BookSymbols \ {s} : legs'[t] = legs[t] /\ opened_at'[t] = opened_at[t]
      BY <1>1, <3>1, BarFacts DEF Book!Closed, Book!TypeOK, Book!None
    <3> QED BY <1>1, <2>1, <3>2, BarFacts
        DEF BookIInv, Book!TypeOK, Book!TargetIsStable, Dated, Book!ChurnNeedsBars,
            Emptied, Book!Fresh
  <2>3. CASE s \notin Book!Fresh
    <3>1. UNCHANGED <<legs, opened_at>> BY <1>3, <2>3 DEF Book!CloseLeg
    <3> QED BY <2>1, <2>3, <3>1
        DEF BookIInv, Book!TypeOK, Book!TargetIsStable, Dated, Book!ChurnNeedsBars,
            Emptied, Book!Fresh
  <2> QED BY <2>2, <2>3
<1>4. ASSUME NEW s \in BookSymbols, Book!OpenLeg(s) PROVE BookIInv'
  <2>1. /\ book_open' = book_open \ {s} /\ close = {} /\ close' = close /\ s \in book_open
        /\ UNCHANGED <<ranking, longs, shorts, last_bar, cooldown, book_bar>>
    BY <1>4 DEF Book!OpenLeg
  <2>2. last_bar >= 1 /\ last_bar \in 0 .. MaxBar
    BY <1>1, <2>1, BarFacts DEF BookIInv, Dated
  <2>3. CASE /\ legs[s] = "none"
             /\ legs' = [legs EXCEPT ![s] = IF s \in longs THEN "long" ELSE "short"]
             /\ opened_at' = [opened_at EXCEPT ![s] = last_bar]
    <3>1. /\ legs' \in [BookSymbols -> {"none", "long", "short"}]
          /\ opened_at' \in [BookSymbols -> 0 .. MaxBar] /\ opened_at'[s] = last_bar
          /\ \A t \in BookSymbols \ {s} : legs'[t] = legs[t] /\ opened_at'[t] = opened_at[t]
      BY <1>1, <2>2, <2>3 DEF Book!TypeOK
    <3>2. Book!TypeOK' BY <1>1, <2>1, <3>1 DEF Book!TypeOK
    <3>3. Dated' BY <2>1, <2>2, <3>1, <1>1, BarFacts DEF BookIInv, Dated
    <3>4. ~(ranking # <<>> /\ longs \cup shorts = {}) BY <2>1 DEF BookIInv, Emptied
    <3> QED BY <2>1, <3>2, <3>3, <3>4
              DEF BookIInv, Book!TargetIsStable, Book!ChurnNeedsBars, Emptied
  <2>4. CASE UNCHANGED <<legs, opened_at>>
    BY <2>1, <2>4
      DEF BookIInv, Book!TypeOK, Book!TargetIsStable, Dated, Book!ChurnNeedsBars,
          Emptied, Book!Fresh
  <2> QED BY <1>4, <2>3, <2>4 DEF Book!OpenLeg
<1>5. ASSUME NEW s \in BookSymbols, Book!OtherCloses(s) PROVE BookIInv'
  <2>1. Book!Closed(s) /\ UNCHANGED <<Book!plan, last_bar, cooldown, book_bar>>
    BY <1>5 DEF Book!OtherCloses
  <2>2. /\ legs' \in [BookSymbols -> {"none", "long", "short"}] /\ legs'[s] = "none"
        /\ opened_at' \in [BookSymbols -> 0 .. MaxBar]
        /\ \A t \in BookSymbols \ {s} : legs'[t] = legs[t] /\ opened_at'[t] = opened_at[t]
    BY <1>1, <2>1, BarFacts DEF Book!Closed, Book!TypeOK, Book!None
  <2> QED BY <1>1, <2>1, <2>2, BarFacts
      DEF Book!plan, BookIInv, Book!TypeOK, Book!TargetIsStable, Dated,
          Book!ChurnNeedsBars, Emptied, Book!Fresh
<1>6. CASE Book!NextBar
  <2>1. book_bar' \in 1 .. MaxBar /\ last_bar \in 0 .. book_bar'
    BY <1>1, <1>6, BarFacts DEF Book!NextBar
  <2> QED BY <1>6, <2>1
      DEF Book!NextBar, Book!plan, BookIInv, Book!TypeOK, Book!TargetIsStable, Dated,
          Book!ChurnNeedsBars, Emptied, Book!Fresh
<1>7. CASE Book!CooldownElapses
  BY <1>7
    DEF Book!CooldownElapses, Book!plan, BookIInv, Book!TypeOK, Book!TargetIsStable,
        Dated, Book!ChurnNeedsBars,
              Emptied, Book!Fresh
<1>8. CASE UNCHANGED Book!bookVars
  BY <1>8
    DEF Book!bookVars, Book!plan, BookIInv, Book!TypeOK, Book!TargetIsStable, Dated,
        Book!ChurnNeedsBars, Emptied, Book!Fresh
<1> QED BY <1>2, <1>3, <1>4, <1>5, <1>6, <1>7, <1>8 DEF Book!Next

LEMMA BookInvariant == Book!Spec => []BookIInv
<1>1. Book!Init => BookIInv BY BookInitIInv
<1>2. BookIInv /\ [Book!Next]_Book!bookVars => BookIInv' BY BookNextKeepsIInv
<1> QED BY <1>1, <1>2, PTL DEF Book!Spec

(* Legs, ranking and plan stay what they are, in every cycle.               *)
THEOREM BookTypeCorrect == Book!Spec => []Book!TypeOK
<1>1. BookIInv => Book!TypeOK BY DEF BookIInv
<1> QED BY <1>1, BookInvariant, PTL

(* select_books has come to rest after one call: with the same ranks the   *)
(* target it chose is the target it would choose.                          *)
THEOREM TargetRests == Book!Spec => []TargetIsStable
<1>1. BookIInv => Book!TargetIsStable BY DEF BookIInv
<1> QED BY <1>1, BookInvariant, PTL DEF TargetIsStable

(* The cadence gate of process_book, for the legs and not only the clock:  *)
(* no leg is closed by rank before it was held for the cadence.            *)
THEOREM LegsAreHeld == Book!Spec => []ChurnNeedsBars
<1>1. BookIInv => Book!ChurnNeedsBars BY DEF BookIInv
<1> QED BY <1>1, BookInvariant, PTL DEF ChurnNeedsBars

(* A forced flat leaves only the legs it had no candles of.                 *)
THEOREM FlatIsFlat == Book!Spec => []FlatButStale
<1>1. BookIInv => Book!FlatButStale BY DEF BookIInv, Emptied, Book!FlatButStale, Book!Idle
<1> QED BY <1>1, BookInvariant, PTL DEF FlatButStale

-----------------------------------------------------------------------------
(***************************************************************************)
(* What a trade can lose, for every set of prices, every distance of stop, *)
(* target and trail, and any number of candles.  A position held is sound: *)
(* its stop is positive, is no further from the entry than it was placed,  *)
(* and is at the entry once break-even was armed.  Every exit of a sound   *)
(* position, the trailing one and the one at the close among them, is at a *)
(* price no worse than its stop: the stop is looked at first.              *)
(***************************************************************************)

PathPositions ==
    [is_long : BOOLEAN, entry_price : Nat \ {0}, entry_bar : Nat \ {0},
     stop_loss : Nat \ {0}, take_profit : Nat, trailing_stop : Int,
     max_favorable_price : Int, breakeven_activated : BOOLEAN]

Gain(pos, price) == IF pos.is_long THEN price - pos.entry_price ELSE pos.entry_price - price

SoundStop(pos) ==
    /\ pos \in PathPositions
    /\ Gain(pos, pos.stop_loss) \in -path_Sl .. 0 /\ Gain(pos, pos.take_profit) >= 0
    /\ pos.breakeven_activated => pos.stop_loss = pos.entry_price

PathIInv ==
    /\ candle \in 0 .. path_Bars /\ path_equity \in Int
    /\ last_trade \in [gross : Int, armed : BOOLEAN]
    /\ Path!LossIsBounded /\ Path!ArmedNeverLoses
    /\ Path!Holding => SoundStop(path_open) /\ path_open.entry_bar <= candle

SamePosition(pos, other) ==
    /\ other.is_long = pos.is_long /\ other.entry_price = pos.entry_price
    /\ other.entry_bar = pos.entry_bar

\* An order of prices, or the opposite one.
LEMMA UpIsSign ==
    ASSUME NEW pos, NEW x \in Int, NEW y \in Int
    PROVE  /\ pos.is_long => (Path!Up(pos) * x <= Path!Up(pos) * y <=> x <= y)
           /\ ~pos.is_long => (Path!Up(pos) * x <= Path!Up(pos) * y <=> y <= x)
           /\ Path!Up(pos) * x \in Int
BY DEF Path!Up

LEMMA BarPrices ==
    ASSUME Path!PathAssumption, NEW bar \in Path!CandleOf
    PROVE  /\ bar.high \in Nat \ {0} /\ bar.low \in Nat \ {0} /\ bar.close \in Nat \ {0}
           /\ bar.low <= bar.close /\ bar.close <= bar.high
BY DEF Path!PathAssumption, Path!CandleOf

(* The best price seen, break-even and the trail change only their own     *)
(* fields, and keep a position sound.                                      *)
LEMMA WatchedSound ==
    ASSUME Path!PathAssumption, NEW pos, SoundStop(pos), NEW bar \in Path!CandleOf
    PROVE  /\ SoundStop(Path!Watched(pos, bar)) /\ SamePosition(pos, Path!Watched(pos, bar))
           /\ Path!Watched(pos, bar).stop_loss = pos.stop_loss
           /\ Path!Watched(pos, bar).breakeven_activated = pos.breakeven_activated
           /\ Path!Watched(pos, bar).take_profit = pos.take_profit
<1>1. Path!Favorable(pos, bar) \in Int BY BarPrices DEF Path!Favorable
<1> QED BY <1>1 DEF Path!Watched, SoundStop, PathPositions, SamePosition, Gain

LEMMA PathArmedSound ==
    ASSUME Path!PathAssumption, NEW pos, SoundStop(pos), NEW bar
    PROVE  /\ SoundStop(Path!Armed(pos, bar)) /\ SamePosition(pos, Path!Armed(pos, bar))
<1>1. CASE Path!Armed(pos, bar) = pos BY <1>1 DEF SamePosition
<1>2. CASE Path!Armed(pos, bar) = [pos EXCEPT !.breakeven_activated = TRUE,
                                   !.stop_loss = pos.entry_price]
  <2> DEFINE reached == [pos EXCEPT !.breakeven_activated = TRUE]
  <2>1. /\ reached \in PathPositions /\ SamePosition(pos, reached)
        /\ reached.take_profit = pos.take_profit /\ reached.breakeven_activated
    BY DEF SoundStop, PathPositions, SamePosition
  <2>2. Path!Armed(pos, bar) = [reached EXCEPT !.stop_loss = pos.entry_price] BY <1>2
  <2> HIDE DEF reached
  <2>3. /\ Path!Armed(pos, bar) \in PathPositions /\ SamePosition(pos, Path!Armed(pos, bar))
        /\ Path!Armed(pos, bar).take_profit = pos.take_profit
        /\ Path!Armed(pos, bar).stop_loss = pos.entry_price
    BY <2>1, <2>2 DEF SoundStop, PathPositions, SamePosition
  <2>4. pos.entry_price - pos.entry_price = 0 /\ 0 \in -path_Sl .. 0
    BY DEF Path!PathAssumption, SoundStop, PathPositions
  <2> QED BY <2>3, <2>4 DEF SoundStop, SamePosition, Gain
<1> QED BY <1>1, <1>2 DEF Path!Armed

LEMMA PathTrailedSound ==
    ASSUME Path!PathAssumption, NEW pos, SoundStop(pos), NEW trail \in path_Trails
    PROVE  /\ SoundStop(Path!Trailed(pos, trail)) /\ SamePosition(pos, Path!Trailed(pos, trail))
<1>1. CASE Path!Trailed(pos, trail) = pos BY <1>1 DEF SamePosition
<1>2. CASE Path!Trailed(pos, trail) =
             [pos EXCEPT !.trailing_stop = pos.max_favorable_price - Path!Up(pos) * trail]
  <2>1. trail \in Int /\ pos.is_long \in BOOLEAN /\ pos.max_favorable_price \in Int
    BY DEF Path!PathAssumption, SoundStop, PathPositions
  <2>2. pos.max_favorable_price - Path!Up(pos) * trail \in Int BY <2>1, UpIsSign
  <2> QED BY <1>2, <2>2 DEF SoundStop, PathPositions, SamePosition, Gain
<1> QED BY <1>1, <1>2 DEF Path!Trailed

(* A price that does not cost a sound position its stop is no worse than   *)
(* the stop, and the close of a bar is no worse than the bar's worst.      *)
LEMMA NotLost ==
    ASSUME NEW pos, SoundStop(pos), NEW x \in Int, ~Path!Lost(pos, x, pos.stop_loss)
    PROVE  Gain(pos, x) >= Gain(pos, pos.stop_loss)
<1>1. pos.is_long \in BOOLEAN /\ pos.stop_loss \in Int /\ pos.stop_loss > 0
      /\ pos.entry_price \in Int
  BY DEF SoundStop, PathPositions
<1>2. ~(Path!Up(pos) * x <= Path!Up(pos) * pos.stop_loss) BY <1>1 DEF Path!Lost
<1>3. IF pos.is_long THEN x > pos.stop_loss ELSE x < pos.stop_loss
  BY <1>1, <1>2, UpIsSign
<1> QED BY <1>1, <1>3 DEF Gain

LEMMA CloseInside ==
    ASSUME Path!PathAssumption, NEW pos, SoundStop(pos), NEW bar \in Path!CandleOf
    PROVE  Gain(pos, bar.close) >= Gain(pos, Path!Adverse(pos, bar)) /\ Path!Adverse(pos, bar) \in Int
<1>1. pos.is_long \in BOOLEAN /\ pos.entry_price \in Int BY DEF SoundStop, PathPositions
<1> QED BY <1>1, BarPrices DEF Gain, Path!Adverse

\* A level that is reached on the way to the bar's worst price is no worse than it.
LEMMA LostAt ==
    ASSUME NEW pos, SoundStop(pos), NEW x \in Int, NEW level \in Int, Path!Lost(pos, x,
           level)
    PROVE  Gain(pos, level) >= Gain(pos, x) /\ level > 0
<1>1. pos.is_long \in BOOLEAN /\ pos.entry_price \in Int BY DEF SoundStop, PathPositions
<1>2. Path!Up(pos) * x <= Path!Up(pos) * level /\ level > 0 BY DEF Path!Lost
<1>3. IF pos.is_long THEN x <= level ELSE level <= x BY <1>1, <1>2, UpIsSign
<1> QED BY <1>1, <1>2, <1>3 DEF Gain

(* check_exit_conditions_ohlc: whatever the reason, the price it leaves at *)
(* is no worse than the stop the position had, and the close is not, when  *)
(* there is no reason to leave.                                            *)
LEMMA ExitIsSound ==
    ASSUME Path!PathAssumption, NEW pos, SoundStop(pos), NEW bar \in Path!CandleOf,
           NEW trail \in path_Trails,
           NEW price,
           price = IF Path!CheckExit(pos, bar, trail).price > 0
                   THEN Path!CheckExit(pos, bar, trail).price ELSE bar.close
    PROVE  /\ price \in Nat
           /\ SoundStop(Path!CheckExit(pos, bar, trail).pos)
           /\ SamePosition(pos, Path!CheckExit(pos, bar, trail).pos)
           /\ Gain(pos, price) >= Gain(pos, pos.stop_loss)
           /\ Path!CheckExit(pos, bar, trail).reason = "None" => price = bar.close
<1> DEFINE seen == Path!Watched(pos, bar)
           trailed == Path!Trailed(Path!Armed(seen, bar), trail)
           worst == Path!Adverse(pos, bar)
<1>1. /\ SoundStop(seen) /\ SamePosition(pos, seen) /\ seen.stop_loss = pos.stop_loss
      /\ seen.take_profit = pos.take_profit
  BY WatchedSound
<1>2. SoundStop(Path!Armed(seen, bar)) /\ SamePosition(seen, Path!Armed(seen, bar))
  BY <1>1, PathArmedSound
<1>3. SoundStop(trailed) /\ SamePosition(pos, trailed)
  BY <1>1, <1>2, PathTrailedSound DEF SamePosition
<1>4. /\ Path!Adverse(seen, bar) = worst /\ Path!Adverse(trailed, bar) = worst
      /\ Path!Favorable(seen, bar) = Path!Favorable(pos, bar)
      /\ \A x, y : Path!Lost(seen, x, y) = Path!Lost(pos, x, y) /\ Path!Lost(trailed, x, y) = Path!Lost(pos, x, y)
      /\ \A x : Path!Reached(seen, x, seen.take_profit) = Path!Reached(pos, x, pos.take_profit)
  BY <1>1, <1>3
    DEF Path!Adverse, Path!Favorable, Path!Lost, Path!Reached, Path!Up, SamePosition
<1>5. /\ worst \in Int /\ Gain(pos, bar.close) >= Gain(pos, worst)
      /\ bar.close \in Nat \ {0} /\ Gain(pos, bar.close) \in Int /\ Gain(pos, worst) \in Int
  BY CloseInside, BarPrices DEF Gain, SoundStop, PathPositions
<1>6. pos.stop_loss \in Nat \ {0} /\ trailed.trailing_stop \in Int /\ pos.take_profit \in Nat
      /\ Gain(pos, pos.stop_loss) \in Int
  BY <1>3 DEF SoundStop, PathPositions, Gain
<1> HIDE DEF seen, trailed, worst
<1>7. Path!CheckExit(pos, bar, trail) =
        IF Path!Lost(seen, Path!Adverse(seen, bar), seen.stop_loss)
        THEN [pos |-> seen, reason |-> "StopLoss", price |-> seen.stop_loss]
        ELSE IF Path!Reached(seen, Path!Favorable(seen, bar), seen.take_profit)
        THEN [pos |-> seen, reason |-> "TakeProfit", price |-> seen.take_profit]
        ELSE IF trail > 0 /\ Path!Lost(trailed, Path!Adverse(trailed, bar), trailed.trailing_stop)
        THEN [pos |-> trailed, reason |-> "TrailingStop", price |-> trailed.trailing_stop]
        ELSE [pos |-> trailed, reason |-> "None", price |-> bar.close]
  BY DEF Path!CheckExit, seen, trailed
<1>8. CASE Path!Lost(pos, worst, pos.stop_loss)
  <2>1. Path!CheckExit(pos, bar, trail) = [pos |-> seen, reason |-> "StopLoss",
                                           price |-> pos.stop_loss]
    BY <1>1, <1>4, <1>7, <1>8
  <2>2. price = pos.stop_loss BY <1>6, <2>1
  <2> QED BY <1>1, <1>6, <2>1, <2>2
<1>9. CASE ~Path!Lost(pos, worst, pos.stop_loss)
  <2>1. Gain(pos, worst) >= Gain(pos, pos.stop_loss) BY <1>5, <1>9, NotLost
  <2>2. CASE Path!Reached(pos, Path!Favorable(pos, bar), pos.take_profit)
    <3>1. Path!CheckExit(pos, bar, trail) =
            [pos |-> seen, reason |-> "TakeProfit", price |-> pos.take_profit]
      BY <1>1, <1>4, <1>7, <1>9, <2>2
    <3>2. price = pos.take_profit BY <1>6, <2>2, <3>1 DEF Path!Reached
    <3>3. Gain(pos, pos.take_profit) >= Gain(pos, pos.stop_loss)
      BY DEF SoundStop, PathPositions, Gain, Path!PathAssumption
    <3> QED BY <1>1, <1>6, <3>1, <3>2, <3>3
  <2>3. CASE /\ ~Path!Reached(pos, Path!Favorable(pos, bar), pos.take_profit)
             /\ trail > 0 /\ Path!Lost(pos, worst, trailed.trailing_stop)
    <3>1. Path!CheckExit(pos, bar, trail) =
            [pos |-> trailed, reason |-> "TrailingStop", price |-> trailed.trailing_stop]
      BY <1>1, <1>4, <1>7, <1>9, <2>3
    <3>2. Gain(pos, trailed.trailing_stop) >= Gain(pos, worst) /\ trailed.trailing_stop > 0
      BY <1>5, <1>6, <2>3, LostAt
    <3>3. price = trailed.trailing_stop BY <1>6, <3>1, <3>2
    <3>4. Gain(pos, price) \in Int BY <1>6, <3>3 DEF Gain, SoundStop, PathPositions
    <3> QED BY <1>3, <1>5, <1>6, <2>1, <3>1, <3>2, <3>3, <3>4
  <2>4. CASE /\ ~Path!Reached(pos, Path!Favorable(pos, bar), pos.take_profit)
             /\ ~(trail > 0 /\ Path!Lost(pos, worst, trailed.trailing_stop))
    <3>1. Path!CheckExit(pos, bar, trail) = [pos |-> trailed, reason |-> "None",
                                             price |-> bar.close]
      BY <1>1, <1>4, <1>7, <1>9, <2>4
    <3>2. price = bar.close BY <1>5, <3>1
    <3> QED BY <1>3, <1>5, <1>6, <2>1, <3>1, <3>2
  <2> QED BY <2>2, <2>3, <2>4
<1> QED BY <1>8, <1>9

(* A position is sound when it is entered, and whatever is left with no     *)
(* less than the stop's gain keeps the invariant.                          *)
LEMMA EnteredSound ==
    ASSUME Path!PathAssumption, NEW is_long \in BOOLEAN, NEW price \in Path!Levels,
           NEW trail \in path_Trails,
           candle \in Nat
    PROVE  /\ SoundStop(Path!Entered(is_long, price, trail))
           /\ Path!Entered(is_long, price, trail).entry_bar = candle + 1
<1>1. /\ price \in Nat \ {0} /\ price > path_Tp /\ price > path_Sl /\ path_Sl \in Nat
      /\ path_Tp \in Nat
      /\ trail \in Nat
  BY DEF Path!PathAssumption, Path!Levels
<1> DEFINE up == IF is_long THEN 1 ELSE -1
           new == Path!Entered(is_long, price, trail)
<1>2. \A x \in Nat : up * x \in Int /\ up * x = IF is_long THEN x ELSE -x OBVIOUS
<1>3. new = [is_long |-> is_long, entry_price |-> price, entry_bar |-> candle + 1,
             stop_loss |-> price - up * path_Sl, take_profit |-> price + up * path_Tp,
             trailing_stop |-> price - up * trail, max_favorable_price |-> price,
             breakeven_activated |-> FALSE]
  BY DEF Path!Entered
<1> HIDE DEF up, new
<1>4. /\ new.is_long = is_long /\ new.entry_price = price /\ new.entry_bar = candle + 1
      /\ new.stop_loss = (IF is_long THEN price - path_Sl ELSE price + path_Sl)
      /\ new.take_profit = (IF is_long THEN price + path_Tp ELSE price - path_Tp)
      /\ new.breakeven_activated = FALSE
  BY <1>1, <1>2, <1>3
<1>5. new.stop_loss \in Nat \ {0} /\ new.take_profit \in Nat BY <1>1, <1>4
<1>6. new \in PathPositions
  <2>1. price - up * trail \in Int BY <1>1, <1>2
  <2> QED BY <1>1, <1>3, <1>4, <1>5, <2>1 DEF PathPositions
<1>7. Gain(new, new.stop_loss) = -path_Sl /\ Gain(new, new.take_profit) = path_Tp
  BY <1>1, <1>4 DEF Gain
<1> QED BY <1>1, <1>4, <1>6, <1>7 DEF SoundStop, new

LEMMA MayEnterSound ==
    ASSUME Path!PathAssumption, candle \in Nat, NEW bar \in Path!CandleOf,
           NEW trail \in path_Trails,
           NEW balance \in Int, Path!MayEnter(bar, trail, balance)
    PROVE  path_equity' \in Int /\ (path_open' # Path!Flat => SoundStop(path_open') /\ path_open'.entry_bar <= candle + 1)
<1>1. Path!Fee(bar.close) \in Int BY BarPrices DEF Path!Fee, Path!PathAssumption
<1>2. CASE path_open' = Path!Flat /\ path_equity' = balance BY <1>2
<1>3. CASE /\ bar.close \in Path!Levels
           /\ \E is_long \in BOOLEAN : path_open' = Path!Entered(is_long, bar.close, trail)
           /\ path_equity' = balance - Path!Fee(bar.close)
  <2>1. SoundStop(path_open') /\ path_open'.entry_bar = candle + 1 BY <1>3, EnteredSound
  <2> QED BY <1>1, <1>3, <2>1
<1> QED BY <1>2, <1>3 DEF Path!MayEnter

LEMMA LeaveSound ==
    ASSUME Path!PathAssumption, PathIInv, Path!Holding, NEW pos, SamePosition(path_open,
           pos), NEW price \in Nat,
           NEW bar \in Path!CandleOf, NEW trail \in path_Trails, Path!Leave(pos, price, bar, trail),
           Gain(path_open, price) >= Gain(path_open, path_open.stop_loss)
    PROVE  /\ path_equity' \in Int
           /\ (path_open' # Path!Flat => SoundStop(path_open') /\ path_open'.entry_bar <= candle + 1)
           /\ last_trade' \in [gross : Int, armed : BOOLEAN]
           /\ Path!LossIsBounded' /\ Path!ArmedNeverLoses'
<1>1. SoundStop(path_open) /\ path_equity \in Int /\ candle \in Nat
  BY DEF PathIInv, Path!PathAssumption
<1>2. /\ path_open.entry_price \in Nat /\ path_open.is_long \in BOOLEAN
      /\ path_open.breakeven_activated \in BOOLEAN
      /\ path_open.stop_loss \in Nat
  BY <1>1 DEF SoundStop, PathPositions
<1> DEFINE gross == Path!Up(pos) * (price - pos.entry_price)
<1>3. gross = Gain(path_open, price) /\ gross \in Int
  BY <1>2 DEF Gain, Path!Up, SamePosition
<1> HIDE DEF gross
<1>4. last_trade' = [gross |-> gross, armed |-> path_open.breakeven_activated]
  BY DEF Path!Leave, gross
<1>5. gross >= -path_Sl BY <1>1, <1>2, <1>3 DEF SoundStop, Path!PathAssumption, Gain
<1>6. path_open.breakeven_activated => gross >= 0
  BY <1>1, <1>2, <1>3 DEF SoundStop, Gain
<1>7. Path!Fee(price) \in Int BY DEF Path!Fee, Path!PathAssumption
<1>8. Path!MayEnter(bar, trail, path_equity + gross - Path!Fee(price)) /\ path_equity + gross - Path!Fee(price) \in Int
  BY <1>1, <1>3, <1>7 DEF Path!Leave, gross
<1>9. path_equity' \in Int /\ (path_open' # Path!Flat => SoundStop(path_open') /\ path_open'.entry_bar <= candle + 1)
  BY <1>1, <1>8, MayEnterSound
<1> QED BY <1>2, <1>3, <1>4, <1>5, <1>6, <1>9 DEF Path!LossIsBounded, Path!ArmedNeverLoses

LEMMA HeldBarSound ==
    ASSUME Path!PathAssumption, PathIInv, Path!Holding, NEW bar \in Path!CandleOf,
           NEW trail \in path_Trails,
           Path!HeldBar(bar, trail)
    PROVE  /\ path_equity' \in Int
           /\ (path_open' # Path!Flat => SoundStop(path_open') /\ path_open'.entry_bar <= candle + 1)
           /\ last_trade' \in [gross : Int, armed : BOOLEAN]
           /\ Path!LossIsBounded' /\ Path!ArmedNeverLoses'
<1>1. SoundStop(path_open) /\ candle \in Nat /\ path_open.entry_bar <= candle /\ path_open.entry_bar \in Nat
  BY DEF PathIInv, Path!PathAssumption, SoundStop, PathPositions
<1> DEFINE check == Path!CheckExit(path_open, bar, trail)
           price == IF check.price > 0 THEN check.price ELSE bar.close
<1>2. /\ price \in Nat /\ SoundStop(check.pos) /\ SamePosition(path_open, check.pos)
      /\ Gain(path_open, price) >= Gain(path_open, path_open.stop_loss)
      /\ check.reason = "None" => price = bar.close
  BY <1>1, ExitIsSound
<1>3. \/ check.reason # "None" /\ Path!Leave(check.pos, price, bar, trail)
      \/ check.reason = "None" /\ Path!Leave(check.pos, bar.close, bar, trail)
      \/ check.reason = "None" /\ path_open' = check.pos /\ UNCHANGED <<path_equity, last_trade>>
  BY DEF Path!HeldBar
<1> HIDE DEF check, price
<1>4. CASE Path!Leave(check.pos, price, bar, trail) BY <1>2, <1>4, LeaveSound
<1>5. CASE path_open' = check.pos /\ UNCHANGED <<path_equity, last_trade>>
  BY <1>1, <1>2, <1>5 DEF PathIInv, SamePosition, Path!LossIsBounded, Path!ArmedNeverLoses
<1> QED BY <1>2, <1>3, <1>4, <1>5

LEMMA PathInitIInv == ASSUME Path!PathAssumption, Path!Init PROVE PathIInv
BY DEF Path!Init, PathIInv, Path!PathAssumption, Path!LossIsBounded,
   Path!ArmedNeverLoses, Path!Holding

LEMMA PathNextKeepsIInv ==
    ASSUME Path!PathAssumption, PathIInv, [Path!Next]_Path!pathVars
    PROVE  PathIInv'
<1>1. CASE Path!Bar
  <2>1. PICK bar \in Path!CandleOf, trail \in path_Trails :
          \/ Path!Holding /\ Path!HeldBar(bar, trail)
          \/ ~Path!Holding /\ Path!MayEnter(bar, trail, path_equity) /\ UNCHANGED last_trade
    BY <1>1 DEF Path!Bar
  <2>2. candle' \in 0 .. path_Bars /\ candle' = candle + 1 /\ candle \in Nat /\ path_equity \in Int
    BY <1>1 DEF Path!Bar, PathIInv, Path!PathAssumption
  <2>3. /\ path_equity' \in Int
        /\ (path_open' # Path!Flat => SoundStop(path_open') /\ path_open'.entry_bar <= candle + 1)
        /\ last_trade' \in [gross : Int, armed : BOOLEAN] /\ Path!LossIsBounded'
        /\ Path!ArmedNeverLoses'
    <3>1. CASE Path!Holding /\ Path!HeldBar(bar, trail) BY <3>1, HeldBarSound
    <3>2. CASE ~Path!Holding /\ Path!MayEnter(bar, trail, path_equity) /\ UNCHANGED last_trade
      BY <2>2, <3>2, MayEnterSound DEF PathIInv, Path!LossIsBounded, Path!ArmedNeverLoses
    <3> QED BY <2>1, <3>1, <3>2
  <2> QED BY <2>2, <2>3 DEF PathIInv, Path!Holding
<1>2. CASE Path!EmptyBar
  <2>1. path_open.entry_bar <= candle /\ SoundStop(path_open) => path_open.entry_bar <= candle'
    BY <1>2 DEF Path!EmptyBar, SoundStop, PathPositions, PathIInv, Path!PathAssumption
  <2> QED BY <1>2, <2>1
    DEF Path!EmptyBar, PathIInv, Path!Holding, SoundStop, Path!LossIsBounded,
        Path!ArmedNeverLoses, Path!PathAssumption
<1>3. CASE UNCHANGED Path!pathVars
  BY <1>3
    DEF Path!pathVars, PathIInv, Path!Holding, SoundStop, Path!LossIsBounded,
        Path!ArmedNeverLoses
<1> QED BY <1>1, <1>2, <1>3 DEF Path!Next

LEMMA PathInvariant == Path!Spec => []PathIInv
<1> USE PathAssumed
<1>1. Path!Init => PathIInv BY PathInitIInv
<1>2. PathIInv /\ [Path!Next]_Path!pathVars => PathIInv' BY PathNextKeepsIInv
<1> QED BY <1>1, <1>2, PTL DEF Path!Spec

(* Every position's levels and its age stay in their ranges.                *)
THEOREM PathTypeCorrect == Path!Spec => []Path!TypeOK
<1>1. PathIInv => Path!TypeOK BY DEF PathIInv, Path!TypeOK, SoundStop, PathPositions
<1> QED BY <1>1, PathInvariant, PTL

(* The exit rules, shared by the replay and the live engine, give up no     *)
(* more than the distance the first stop was placed at.                     *)
THEOREM StopBoundsLoss == Path!Spec => []LossIsBounded
<1>1. PathIInv => Path!LossIsBounded BY DEF PathIInv
<1> QED BY <1>1, PathInvariant, PTL DEF LossIsBounded

(* A position held at break-even ends at the entry or better.               *)
THEOREM BreakevenNeverLoses == Path!Spec => []ArmedNeverLoses
<1>1. PathIInv => Path!ArmedNeverLoses BY DEF PathIInv
<1> QED BY <1>1, PathInvariant, PTL DEF ArmedNeverLoses

-----------------------------------------------------------------------------
(***************************************************************************)
(* What the simulation sells and how it leaves, for every set of prices,   *)
(* distances, quantities and slips.  The quantity of a position held and   *)
(* what it has sold are tied by its partial flag (Owned); its stop is at   *)
(* its entry once break-even was armed, and the trail can only tighten it. *)
(***************************************************************************)

BtPositions ==
    [entry_idx : Int, is_long : BOOLEAN, entry : Int, qty : Int, sl_price : Int, tp_price : Int,
     best : Int, trail : Int, trailing_sl : Int,
     breakeven_triggered : BOOLEAN, partial_tp_triggered : BOOLEAN]

Ahead(p, x) == IF p.is_long THEN x - p.entry ELSE p.entry - x

\* A position and what it has sold.
Owned(p, sold) ==
    IF p.partial_tp_triggered THEN p.qty = engine_Qty - PartialQty /\ sold = PartialQty
    ELSE p.qty = engine_Qty /\ sold = 0

BtSound(p) ==
    /\ p \in BtPositions
    /\ Ahead(p, p.tp_price) >= 0
    /\ p.breakeven_triggered => p.sl_price = p.entry

BtIInv ==
    /\ Bt!TypeOK
    /\ engine_last.gross \in Int /\ Bt!BreakevenHolds
    /\ IF engine_pos = Bt!Flat THEN traded \in {0, engine_Qty} ELSE BtSound(engine_pos) /\ Owned(engine_pos, traded)

LEMMA NumberFacts ==
    ASSUME Bt!EngineAssumption
    PROVE  /\ engine_Sl \in Nat /\ engine_Tp \in Nat /\ engine_Bars \in Nat /\ engine_Qty \in Nat
           /\ PartialQty \in Nat
           /\ 0 < PartialQty /\ PartialQty < engine_Qty /\ breakeven_at_rr \in Nat
           /\ engine_commission \in Nat
           /\ engine_Trails \subseteq Int /\ Slips \subseteq Int /\ engine_Prices \subseteq Int
BY DEF Bt!EngineAssumption

LEMMA CandlePrices ==
    ASSUME Bt!EngineAssumption, NEW c \in Bt!Candles
    PROVE  c.low \in Int /\ c.high \in Int /\ c.close \in Int
BY DEF Bt!EngineAssumption, Bt!Candles

\* The tighter of two stops is one of them, and as far ahead as either.
LEMMA TighterFact ==
    ASSUME NEW p, BtSound(p), NEW x \in Int, NEW y \in Int
    PROVE  Bt!Tighter(p, x, y) \in {x, y} /\ Ahead(p, Bt!Tighter(p, x, y)) >= Ahead(p, x)
<1>1. p.is_long \in BOOLEAN /\ p.entry \in Int BY DEF BtSound, BtPositions
<1> QED BY <1>1 DEF Bt!Tighter, Bt!Sign, Ahead

LEMMA SignFact ==
    ASSUME NEW p, BtSound(p), NEW x \in Int
    PROVE  /\ Bt!Sign(p) * x \in Int
           /\ Bt!Sign(p) * (x - p.entry) = Ahead(p, x)
<1>1. p.is_long \in BOOLEAN /\ p.entry \in Int BY DEF BtSound, BtPositions
<1> QED BY <1>1 DEF Bt!Sign, Ahead

LEMMA BtTrailedSound ==
    ASSUME Bt!EngineAssumption, NEW p, BtSound(p), NEW c \in Bt!Candles
    PROVE  /\ BtSound(Bt!Trailed(p, c)) /\ Bt!Trailed(p, c).qty = p.qty
           /\ Bt!Trailed(p, c).sl_price = p.sl_price /\ Bt!Trailed(p, c).entry = p.entry
           /\ Bt!Trailed(p, c).is_long = p.is_long
           /\ Bt!Trailed(p, c).partial_tp_triggered = p.partial_tp_triggered
<1> DEFINE best == Bt!Tighter(p, p.best, Bt!Favorable(p, c))
           stop == Bt!Tighter(p, p.trailing_sl, best - Bt!Sign(p) * p.trail)
<1>1. p \in BtPositions /\ Bt!Favorable(p, c) \in Int
  BY CandlePrices DEF Bt!Favorable, BtSound
<1>2. best \in Int BY <1>1, TighterFact DEF BtPositions
<1>3. Bt!Sign(p) * p.trail \in Int BY <1>1, SignFact DEF BtPositions
<1>4. stop \in Int
  <2>1. best - Bt!Sign(p) * p.trail \in Int BY <1>2, <1>3
  <2> HIDE DEF best
  <2> QED BY <1>1, <2>1, TighterFact DEF BtPositions
<1>5. Bt!Trailed(p, c) = IF p.trail = 0 THEN p ELSE [[p EXCEPT !.best = best] EXCEPT !.trailing_sl = stop]
  BY <1>1 DEF Bt!Trailed, BtPositions
<1> HIDE DEF best, stop
<1> DEFINE moved == [p EXCEPT !.best = best]
<1>6. /\ moved \in BtPositions /\ moved.sl_price = p.sl_price /\ moved.entry = p.entry
      /\ moved.is_long = p.is_long /\ moved.tp_price = p.tp_price /\ moved.qty = p.qty
      /\ moved.breakeven_triggered = p.breakeven_triggered
      /\ moved.partial_tp_triggered = p.partial_tp_triggered
  BY <1>1, <1>2 DEF BtPositions
<1>7. Bt!Trailed(p,
                                                                                           c) = IF p.trail = 0 THEN p ELSE [moved EXCEPT !.trailing_sl = stop]
                                                                                             BY <1>5
<1> HIDE DEF moved
<1>8. /\ Bt!Trailed(p, c) \in BtPositions /\ Bt!Trailed(p, c).sl_price = p.sl_price
      /\ Bt!Trailed(p, c).entry = p.entry /\ Bt!Trailed(p, c).is_long = p.is_long
      /\ Bt!Trailed(p, c).tp_price = p.tp_price /\ Bt!Trailed(p, c).qty = p.qty
      /\ Bt!Trailed(p, c).breakeven_triggered = p.breakeven_triggered
      /\ Bt!Trailed(p, c).partial_tp_triggered = p.partial_tp_triggered
  BY <1>1, <1>4, <1>6, <1>7 DEF BtPositions
<1> QED BY <1>8 DEF BtSound, Ahead

LEMMA BtArmedSound ==
    ASSUME NEW p, BtSound(p), NEW c
    PROVE  /\ BtSound(Bt!Armed(p, c)) /\ Bt!Armed(p, c).qty = p.qty
           /\ Bt!Armed(p, c).partial_tp_triggered = p.partial_tp_triggered
<1>1. CASE Bt!Armed(p, c) = p BY <1>1
<1>2. CASE Bt!Armed(p, c) = [[p EXCEPT !.sl_price = p.entry] EXCEPT !.breakeven_triggered = TRUE]
  <2> DEFINE moved == [p EXCEPT !.sl_price = p.entry]
  <2>1. /\ moved \in BtPositions /\ moved.sl_price = p.entry /\ moved.entry = p.entry
        /\ moved.is_long = p.is_long /\ moved.tp_price = p.tp_price /\ moved.qty = p.qty
        /\ moved.partial_tp_triggered = p.partial_tp_triggered
    BY DEF BtSound, BtPositions
  <2>2. Bt!Armed(p, c) = [moved EXCEPT !.breakeven_triggered = TRUE] BY <1>2
  <2> HIDE DEF moved
  <2>3. /\ Bt!Armed(p, c) \in BtPositions /\ Bt!Armed(p, c).sl_price = p.entry
        /\ Bt!Armed(p, c).entry = p.entry /\ Bt!Armed(p, c).is_long = p.is_long
        /\ Bt!Armed(p, c).tp_price = p.tp_price /\ Bt!Armed(p, c).qty = p.qty
        /\ Bt!Armed(p, c).partial_tp_triggered = p.partial_tp_triggered
    BY <2>1, <2>2 DEF BtPositions
  <2> QED BY <2>3 DEF BtSound, Ahead
<1> QED BY <1>1, <1>2 DEF Bt!Armed

LEMMA HalfSold ==
    ASSUME Bt!EngineAssumption, NEW p, BtSound(p), ~p.partial_tp_triggered
    PROVE  /\ BtSound(Bt!AfterPartial(p)) /\ Bt!AfterPartial(p).partial_tp_triggered
           /\ Bt!AfterPartial(p).qty = p.qty - PartialQty
<1> DEFINE less == [p EXCEPT !.qty = p.qty - PartialQty]
<1>1. p \in BtPositions /\ p.qty - PartialQty \in Int
  BY NumberFacts DEF BtSound, BtPositions
<1>2. /\ less \in BtPositions /\ less.sl_price = p.sl_price /\ less.entry = p.entry
      /\ less.is_long = p.is_long /\ less.tp_price = p.tp_price /\ less.qty = p.qty - PartialQty
      /\ less.breakeven_triggered = p.breakeven_triggered
  BY <1>1 DEF BtPositions
<1>3. Bt!AfterPartial(p) = [less EXCEPT !.partial_tp_triggered = TRUE]
  BY <1>1 DEF Bt!AfterPartial, BtPositions
<1> HIDE DEF less
<1>4. /\ Bt!AfterPartial(p) \in BtPositions /\ Bt!AfterPartial(p).sl_price = p.sl_price
      /\ Bt!AfterPartial(p).entry = p.entry /\ Bt!AfterPartial(p).is_long = p.is_long
      /\ Bt!AfterPartial(p).tp_price = p.tp_price /\ Bt!AfterPartial(p).qty = p.qty - PartialQty
      /\ Bt!AfterPartial(p).breakeven_triggered = p.breakeven_triggered
      /\ Bt!AfterPartial(p).partial_tp_triggered
  BY <1>2, <1>3 DEF BtPositions
<1> QED BY <1>4 DEF BtSound, Ahead

LEMMA NetInt ==
    ASSUME Bt!EngineAssumption, NEW p, BtSound(p), NEW price \in Int, NEW qty \in Int,
           NEW slip \in Slips
    PROVE  Bt!Net(p, price, qty, slip) \in Int
<1> DEFINE fill == price - Bt!Sign(p) * slip
<1>1. slip \in Int /\ engine_commission \in Int BY NumberFacts
<1>2. fill \in Int /\ p.entry \in Int BY <1>1, SignFact DEF BtSound, BtPositions
<1> HIDE DEF fill
<1>3. Bt!Sign(p) * (fill - p.entry) \in Int BY <1>2, SignFact
<1>4. \A x, y \in Int : x * y \in Int OBVIOUS
<1>5. /\ Bt!Sign(p) * (fill - p.entry) * qty \in Int
      /\ qty * (p.entry + fill) * engine_commission \in Int
  <2>1. qty * (p.entry + fill) \in Int BY <1>2, <1>4
  <2> QED BY <1>1, <1>3, <1>4, <2>1
<1> QED BY <1>5 DEF Bt!Net, fill

(* A candle that meets a position, as a whole: the part sold at the half-  *)
(* way target and the rest, in one candle or in two, are what was bought;  *)
(* and a position that was at break-even leaves at its entry or better,    *)
(* since no trail takes its stop back.                                     *)
LEMMA ManageFact ==
    ASSUME Bt!EngineAssumption, NEW p, BtSound(p), NEW sold \in Int, Owned(p, sold),
           NEW c \in Bt!Candles, NEW slip \in Slips
    PROVE  LET m == Bt!Manage(p, c, slip)
           IN  /\ m.net \in Int /\ m.sold \in Int
               /\ \/ /\ m.pos = Bt!Flat /\ sold + m.sold = engine_Qty
                     /\ m.last.gross \in Int /\ m.last.armed \in BOOLEAN
                     /\ m.last.armed => m.last.gross >= 0
                  \/ BtSound(m.pos) /\ Owned(m.pos, sold + m.sold) /\ m.last = engine_last
<1> DEFINE trailed == Bt!Trailed(p, c)
           stop    == Bt!EffSl(trailed)
           armed   == Bt!Armed(trailed, c)
           halved  == Bt!Halved(armed, c)
           rest    == IF halved THEN Bt!AfterPartial(armed) ELSE armed
           out     == \/ Bt!Sign(p) * (Bt!Adverse(p, c) - stop) <= 0
                      \/ Bt!Sign(p) * (Bt!Favorable(p, c) - p.tp_price) >= 0
           level   == IF Bt!Sign(p) * (Bt!Adverse(p, c) - stop) <= 0 THEN stop ELSE p.tp_price
           partial == IF halved THEN Bt!Net(p, Bt!Half(p), PartialQty, slip) ELSE 0
<1>1. /\ BtSound(trailed) /\ trailed.sl_price = p.sl_price /\ trailed.entry = p.entry
      /\ trailed.is_long = p.is_long
      /\ trailed.qty = p.qty /\ trailed.partial_tp_triggered = p.partial_tp_triggered
  BY BtTrailedSound
<1>2. /\ BtSound(armed) /\ armed.qty = p.qty
      /\ armed.partial_tp_triggered = p.partial_tp_triggered
  BY <1>1, BtArmedSound
<1>3. stop \in Int /\ Ahead(p, stop) >= Ahead(p, p.sl_price)
  <2>1. /\ trailed.sl_price \in Int /\ trailed.trailing_sl \in Int
    BY <1>1 DEF BtSound, BtPositions
  <2>2. /\ stop \in {trailed.sl_price, trailed.trailing_sl}
        /\ Ahead(trailed, stop) >= Ahead(trailed, trailed.sl_price)
    BY <1>1, <2>1, TighterFact DEF Bt!EffSl
  <2> QED BY <1>1, <2>1, <2>2 DEF Ahead
<1>4. /\ p \in BtPositions /\ p.tp_price \in Int /\ p.entry \in Int /\ Ahead(p, p.tp_price) >= 0
      /\ p.breakeven_triggered \in BOOLEAN /\ p.is_long \in BOOLEAN
      /\ p.breakeven_triggered => Ahead(p, p.sl_price) = 0
  BY DEF BtSound, BtPositions, Ahead
<1>5. Bt!Half(p) \in Int
  <2>1. engine_Tp \div 2 \in Int BY NumberFacts
  <2> QED BY <1>4, <2>1, SignFact DEF Bt!Half
<1> HIDE DEF trailed, stop, armed
<1>6. BtSound(rest) /\ Owned(rest, sold + (IF halved THEN PartialQty ELSE 0))
  <2>1. CASE halved
    <3>1. ~armed.partial_tp_triggered BY <2>1 DEF Bt!Halved
    <3>2. /\ BtSound(Bt!AfterPartial(armed)) /\ Bt!AfterPartial(armed).partial_tp_triggered
          /\ Bt!AfterPartial(armed).qty = armed.qty - PartialQty
      BY <1>2, <3>1, HalfSold
    <3> QED BY <1>2, <2>1, <3>1, <3>2, NumberFacts DEF Owned
  <2>2. CASE ~halved BY <1>2, <2>2 DEF Owned
  <2> QED BY <2>1, <2>2
<1>7. rest.qty \in Int /\ (IF halved THEN PartialQty ELSE 0) \in Int
  BY <1>6, NumberFacts DEF BtSound, BtPositions
<1>8. level \in Int /\ (p.breakeven_triggered => Ahead(p, level) >= 0)
  BY <1>3, <1>4 DEF Ahead
<1>9. partial \in Int /\ Bt!Net(p, level, rest.qty, slip) \in Int
  BY <1>5, <1>7, <1>8, NetInt, NumberFacts
<1>10. Bt!Manage(p, c, slip) =
         [pos  |-> IF out THEN Bt!Flat ELSE rest,
          net  |-> partial + (IF out THEN Bt!Net(p, level, rest.qty, slip) ELSE 0),
          sold |-> (IF halved THEN PartialQty ELSE 0) + (IF out THEN rest.qty ELSE 0),
          last |-> IF out THEN [gross |-> Bt!Sign(p) * (level - p.entry),
                                armed |-> p.breakeven_triggered]
                   ELSE engine_last]
  BY DEF Bt!Manage, trailed, stop, armed
<1>11. Bt!Sign(p) * (level - p.entry) = Ahead(p, level) BY <1>8, SignFact
<1> DEFINE first == IF halved THEN PartialQty ELSE 0
           m == Bt!Manage(p, c, slip)
<1>12. sold + first + rest.qty = engine_Qty BY <1>6, <1>7, NumberFacts DEF Owned
<1> HIDE DEF halved, rest, level, partial, out
<1>13. CASE out
  <2>1. m = [pos |-> Bt!Flat, net |-> partial + Bt!Net(p, level, rest.qty, slip),
             sold |-> first + rest.qty,
             last |-> [gross |-> Ahead(p, level), armed |-> p.breakeven_triggered]]
    BY <1>10, <1>11, <1>13
  <2>2. partial + Bt!Net(p, level, rest.qty, slip) \in Int /\ first + rest.qty \in Int
    BY <1>7, <1>9
  <2>3. sold + (first + rest.qty) = engine_Qty BY <1>7, <1>12
  <2>4. Ahead(p, level) \in Int BY <1>4, <1>8 DEF Ahead
  <2> HIDE DEF m
  <2> QED BY <1>4, <1>8, <2>1, <2>2, <2>3, <2>4 DEF m
<1>14. CASE ~out
  <2>1. m = [pos |-> rest, net |-> partial + 0, sold |-> first + 0, last |-> engine_last]
    BY <1>10, <1>14
  <2>2. partial + 0 \in Int /\ first + 0 = first /\ first \in Int BY <1>7, <1>9
  <2> HIDE DEF m, first
  <2> QED BY <1>6, <2>1, <2>2 DEF m, first
<1> QED BY <1>13, <1>14

LEMMA OpenedSound ==
    ASSUME Bt!EngineAssumption, engine_bar \in Int, NEW c \in Bt!Candles,
           NEW is_long \in BOOLEAN,
           NEW trail \in Int, NEW slip \in Slips
    PROVE  BtSound(Bt!Opened(c, is_long, trail, slip)) /\ Owned(Bt!Opened(c, is_long, trail, slip), 0)
<1> DEFINE s == IF is_long THEN 1 ELSE -1
           entry == c.close + s * slip
           new == Bt!Opened(c, is_long, trail, slip)
<1>1. \A x \in Int : s * x \in Int /\ s * x = IF is_long THEN x ELSE -x OBVIOUS
<1>2. slip \in Int /\ c.close \in Int /\ engine_Sl \in Int /\ engine_Tp \in Nat /\ engine_Qty \in Int
  BY NumberFacts, CandlePrices
<1>3. entry \in Int BY <1>1, <1>2
<1>4. new = [entry_idx |-> engine_bar, is_long |-> is_long, entry |-> entry, qty |-> engine_Qty,
             sl_price |-> entry - s * engine_Sl, tp_price |-> entry + s * engine_Tp, best |-> entry,
             trail |-> trail, trailing_sl |-> entry - s * engine_Sl,
             breakeven_triggered |-> FALSE, partial_tp_triggered |-> FALSE]
  BY DEF Bt!Opened
<1> HIDE DEF s, entry, new
<1>5. entry - s * engine_Sl \in Int /\ entry + s * engine_Tp \in Int BY <1>1, <1>2, <1>3
<1>6. new \in BtPositions BY <1>2, <1>3, <1>4, <1>5 DEF BtPositions
<1>7. Ahead(new, new.tp_price) >= 0 BY <1>1, <1>2, <1>3, <1>4 DEF Ahead
<1> QED BY <1>4, <1>6, <1>7 DEF BtSound, Owned, new

\* A position has something to sell, so the empty record is none.
LEMMA SoundNotFlat ==
    ASSUME Bt!EngineAssumption, NEW p, NEW sold \in Int, BtSound(p), Owned(p, sold)
    PROVE  /\ p # Bt!Flat /\ p.qty \in {engine_Qty - PartialQty, engine_Qty} /\ p.qty \in Int
           /\ sold + p.qty = engine_Qty
<1>1. p.qty \in {engine_Qty - PartialQty, engine_Qty} /\ sold + p.qty = engine_Qty
  BY NumberFacts DEF Owned
<1>2. Bt!Flat.qty = 0 BY DEF Bt!Flat
<1> QED BY <1>1, <1>2, NumberFacts

LEMMA BtInitIInv == ASSUME Bt!EngineAssumption, Bt!Init PROVE BtIInv
<1>1. 0 \in 0 .. engine_Bars BY NumberFacts
<1> QED BY <1>1 DEF Bt!Init, BtIInv, Bt!TypeOK, Bt!BreakevenHolds, Bt!Flat

LEMMA TrackedInt ==
    ASSUME BtIInv, NEW after \in Int, NEW p, p = Bt!Flat \/ BtSound(p),
           Bt!EngineAssumption,
           NEW c \in Bt!Candles, Bt!Tracked(after, p, c)
    PROVE  max_balance' \in Int /\ max_drawdown' \in Int
<1>1. max_balance \in Int /\ max_drawdown \in Int BY DEF BtIInv, Bt!TypeOK
<1>2. \A x, y \in Int : Bt!Higher(x, y) \in Int BY DEF Bt!Higher
<1>3. Bt!Unrealized(p, c) \in Int
  <2>1. CASE p = Bt!Flat BY <2>1 DEF Bt!Unrealized
  <2>2. CASE p # Bt!Flat
    <3>1. p.entry \in Int /\ p.qty \in Int /\ c.close \in Int /\ BtSound(p)
      BY <2>2, CandlePrices DEF BtSound, BtPositions
    <3>2. Bt!Sign(p) * (c.close - p.entry) \in Int BY <3>1, SignFact
    <3>3. \A x, y \in Int : x * y \in Int OBVIOUS
    <3> QED BY <2>2, <3>1, <3>2, <3>3 DEF Bt!Unrealized
  <2> QED BY <2>1, <2>2
<1>4. max_balance' \in Int BY <1>1, <1>2 DEF Bt!Tracked
<1>5. max_balance' - after - Bt!Unrealized(p, c) \in Int BY <1>3, <1>4
<1> QED BY <1>1, <1>2, <1>4, <1>5 DEF Bt!Tracked

LEMMA CandleStep == ASSUME Bt!EngineAssumption, BtIInv, Bt!Candle PROVE BtIInv'
<1>1. PICK c \in Bt!Candles, slip \in Slips :
        LET managed == IF engine_pos = Bt!Flat THEN [pos |-> Bt!Flat, net |-> 0, sold |-> 0, last |-> engine_last]
                       ELSE Bt!Manage(engine_pos, c, slip)
        IN  \E signal \in Bt!EntrySignals(managed.pos) :
            \E trail \in IF signal = "none" THEN {0} ELSE engine_Trails :
              LET held == IF signal = "none" THEN managed.pos
                          ELSE Bt!Opened(c, signal = "long", trail, slip)
              IN  /\ engine_pos' = held
                  /\ engine_balance' = engine_balance + managed.net
                  /\ traded' = IF signal = "none" THEN traded + managed.sold ELSE 0
                  /\ engine_last' = managed.last
                  /\ Bt!Tracked(engine_balance + managed.net, held, c)
  BY DEF Bt!Candle
<1> DEFINE managed == IF engine_pos = Bt!Flat THEN [pos |-> Bt!Flat, net |-> 0, sold |-> 0, last |-> engine_last]
                      ELSE Bt!Manage(engine_pos, c, slip)
<1>2. /\ engine_bar \in Int /\ engine_bar' \in 0 .. engine_Bars /\ engine_balance \in Int
      /\ traded \in Int
      /\ engine_last.gross \in Int /\ engine_last.armed \in BOOLEAN
      /\ (engine_last.armed => engine_last.gross >= 0)
  BY NumberFacts DEF BtIInv, Bt!TypeOK, Bt!Candle, Owned, Bt!BreakevenHolds
<1>3. /\ managed.net \in Int /\ managed.sold \in Int
      /\ managed.last.gross \in Int /\ managed.last.armed \in BOOLEAN
      /\ managed.last.armed => managed.last.gross >= 0
      /\ \/ managed.pos = Bt!Flat /\ traded + managed.sold \in {0, engine_Qty}
         \/ BtSound(managed.pos) /\ Owned(managed.pos, traded + managed.sold)
  <2>1. CASE engine_pos = Bt!Flat
    <3>1. managed = [pos |-> Bt!Flat, net |-> 0, sold |-> 0, last |-> engine_last] BY <2>1
    <3>2. traded \in {0, engine_Qty} BY <2>1 DEF BtIInv
    <3> HIDE DEF managed
    <3> QED BY <1>2, <3>1, <3>2
  <2>2. CASE engine_pos # Bt!Flat
    <3>1. managed = Bt!Manage(engine_pos, c, slip) BY <2>2
    <3>2. BtSound(engine_pos) /\ Owned(engine_pos, traded) BY <2>2 DEF BtIInv
    <3> HIDE DEF managed
    <3> QED BY <1>2, <3>1, <3>2, ManageFact
  <2> QED BY <2>1, <2>2
<1>4. PICK signal \in Bt!EntrySignals(managed.pos), trail \in Int :
        LET held == IF signal = "none" THEN managed.pos
                    ELSE Bt!Opened(c, signal = "long", trail, slip)
        IN  /\ engine_pos' = held
            /\ engine_balance' = engine_balance + managed.net
            /\ traded' = IF signal = "none" THEN traded + managed.sold ELSE 0
            /\ engine_last' = managed.last
            /\ Bt!Tracked(engine_balance + managed.net, held, c)
  <2>1. \A signal : (IF signal = "none" THEN {0} ELSE engine_Trails) \subseteq Int BY NumberFacts
  <2> QED BY <1>1, <2>1
<1> HIDE DEF managed
<1>5. \/ engine_pos' = Bt!Flat /\ traded' \in {0, engine_Qty}
      \/ BtSound(engine_pos') /\ Owned(engine_pos', traded')
  <2>1. CASE signal = "none" BY <1>3, <1>4, <2>1
  <2>2. CASE signal # "none" BY <1>2, <1>4, <2>2, OpenedSound
  <2> QED BY <2>1, <2>2
<1>6. traded' \in Int BY <1>2, <1>3, <1>4
<1>7. IF engine_pos' = Bt!Flat THEN traded' \in {0, engine_Qty} ELSE BtSound(engine_pos') /\ Owned(engine_pos', traded')
  BY <1>5, <1>6, SoundNotFlat
<1>8. engine_pos'.qty \in {0, engine_Qty - PartialQty, engine_Qty}
  BY <1>5, <1>6, SoundNotFlat DEF Bt!Flat
<1>9. engine_balance' \in Int BY <1>2, <1>3, <1>4
<1>10. max_balance' \in Int /\ max_drawdown' \in Int
  <2>1. Bt!Tracked(engine_balance', engine_pos', c) BY <1>4
  <2> QED BY <1>5, <1>9, <2>1, TrackedInt
<1>11. engine_last'.gross \in Int /\ engine_last'.armed \in BOOLEAN /\ (engine_last'.armed => engine_last'.gross >= 0)
  BY <1>3, <1>4
<1> QED BY <1>2, <1>7, <1>8, <1>9, <1>10, <1>11 DEF BtIInv, Bt!TypeOK, Bt!BreakevenHolds

LEMMA EngineInvariant == Bt!Spec => []BtIInv
<1> USE BtAssumed
<1>1. Bt!Init => BtIInv BY BtInitIInv
<1>2. ASSUME BtIInv, [Bt!Next]_Bt!engineVars PROVE BtIInv'
  <2>1. CASE Bt!Candle BY <2>1, <1>2, CandleStep
  <2>2. CASE UNCHANGED Bt!engineVars
    BY <1>2, <2>2
      DEF Bt!engineVars, BtIInv, Bt!TypeOK, Bt!BreakevenHolds, BtSound, Owned, Ahead
  <2> QED BY <1>2, <2>1, <2>2 DEF Bt!Next
<1> QED BY <1>1, <1>2, PTL DEF Bt!Spec

(* The account and the quantities of the simulation stay what they are.     *)
THEOREM EngineTypeCorrect == Bt!Spec => []Bt!TypeOK
<1>1. BtIInv => Bt!TypeOK BY DEF BtIInv
<1> QED BY <1>1, EngineInvariant, PTL

(* Backtester::run trades what it bought, each part once.                   *)
THEOREM PartsSoldOnce == Bt!Spec => []SoldOnce
<1> USE BtAssumed
<1>1. BtIInv => Bt!SoldOnce
  <2> SUFFICES ASSUME BtIInv PROVE Bt!SoldOnce OBVIOUS
  <2>1. CASE engine_pos = Bt!Flat BY <2>1, NumberFacts DEF BtIInv, Bt!Flat, Bt!SoldOnce
  <2>2. CASE engine_pos # Bt!Flat
    <3>1. BtSound(engine_pos) /\ Owned(engine_pos, traded) /\ traded \in Int
      BY <2>2, NumberFacts DEF BtIInv, Owned
    <3> QED BY <3>1, SoundNotFlat DEF Bt!SoldOnce
  <2> QED BY <2>1, <2>2
<1> QED BY <1>1, EngineInvariant, PTL DEF SoldOnce

(* Break-even holds against every trail and in every order of the bars.     *)
THEOREM BreakevenIsKept == Bt!Spec => []BreakevenHolds
<1>1. BtIInv => Bt!BreakevenHolds BY DEF BtIInv
<1> QED BY <1>1, EngineInvariant, PTL DEF BreakevenHolds

=============================================================================
