-------------------------- MODULE AuditPagesProofs --------------------------
(***************************************************************************)
(* Theorems about the pages of the audit log, for any page size, int and   *)
(* length of the log.                                                      *)
(*                                                                         *)
(* An entry moves towards the end of the log only, as newer ones come      *)
(* before it; so what the walk has not shown yet is behind the page it is  *)
(* on, and while something is, the right arrow leads on. Where an offset   *)
(* overflows, it does so to a number that is not greater than zero.        *)
(***************************************************************************)
EXTENDS AuditPages, SequenceTheorems, FiniteSetTheorems, TLAPS

\* Entries are numbered as they come, each is in the log once.
LogOK ==
  /\ log \in Seq(Entries) /\ Len(log) <= MaxEntries
  /\ IsInjective(log)
  /\ ToSet(log) \subseteq 1 .. Len(log)

\* The right arrow was drawn for the length that the log had then, or for none.
ArrowOK ==
  /\ curr \in PageNumbers
  /\ prev \in 1 .. MaxInt
  /\ \E count \in 0 .. Len(log) : next = NextPage(curr, MaxPage(count))

\* What the walk has still to show is behind the page, and the right arrow leads
\* on.
Ahead ==
  \A i \in 1 .. Len(log) : log[i] \in started \ walked =>
    curr >= 1 /\ next = curr + 1 /\ PageSize * curr < i

PagesInv ==
  /\ LogOK
  /\ shown \subseteq ToSet(log) /\ Cardinality(shown) <= PageSize
  /\ ArrowOK
  /\ started \subseteq ToSet(log) /\ walked \subseteq ToSet(log)
  /\ Ahead

-----------------------------------------------------------------------------
\* An int of any value overflows to an int; one that fits is as it is, and whole
\* turns do not matter.
LEMMA WrapValue ==
  ASSUME NEW n \in Int
  PROVE  /\ Wrap(n) \in PageNumbers
         /\ n \in PageNumbers => Wrap(n) = n
         /\ \A k \in Int : n \in PageNumbers => Wrap(n + (2 * MaxInt + 2) * k) = n
<1> DEFINE m == 2 * MaxInt + 2
<1>1. m \in Nat \ {0} /\ MaxInt - MinInt + 1 = m /\ MinInt \in Int /\ MaxInt \in Int
      /\ MinInt + m = MaxInt + 1
  BY MaxIntAssumption DEF MinInt
<1>2. \A j \in Int : Wrap(j) = ((j - MinInt) % m) + MinInt
  BY <1>1 DEF Wrap
<1> HIDE DEF m
<1>3. Wrap(n) \in PageNumbers
  <2>1. (n - MinInt) % m \in 0 .. m - 1
    BY <1>1
  <2> QED
    BY <1>1, <1>2, <2>1 DEF PageNumbers
<1>4. ASSUME n \in PageNumbers, NEW k \in Int
      PROVE  Wrap(n + m * k) = n
  <2>1. n - MinInt \in 0 .. m - 1
    BY <1>1, <1>4 DEF PageNumbers
  <2>2. m * k \in Int
    BY <1>1
  <2>3. n + m * k - MinInt = (n - MinInt) + m * k
    BY <1>1, <2>2
  <2>4. ((n - MinInt) + m * k) % m = n - MinInt
    BY <1>1, <2>1
  <2> QED
    BY <1>1, <1>2, <2>2, <2>3, <2>4
<1>5. n \in PageNumbers => Wrap(n) = n
  <2>1. n + m * 0 = n
    BY <1>1
  <2> QED
    BY <1>4, <2>1
<1> QED
  BY <1>3, <1>4, <1>5 DEF m

\* More pages, more entries.
LEMMA PagesOrder ==
  ASSUME NEW a \in Int, NEW b \in Int
  PROVE  /\ PageSize * a \in Int
         /\ PageSize * (a + 1) = PageSize * a + PageSize
         /\ PageSize * a < PageSize * b => a < b
         /\ a <= b => PageSize * a <= PageSize * b
         /\ 0 <= a => a <= PageSize * a
<1>1. PageSize \in Nat \ {0}
  BY PageSizeAssumption
<1>2. a <= b => PageSize * a <= PageSize * b
  BY <1>1
<1>3. b <= a => PageSize * b <= PageSize * a
  BY <1>1
<1>4. 0 <= a => a <= PageSize * a
  BY <1>1
<1>5. PageSize * (a + 1) = PageSize * a + PageSize
  BY <1>1
<1>6. PageSize * a \in Int /\ PageSize * b \in Int
  BY <1>1
<1> QED
  BY <1>2, <1>3, <1>4, <1>5, <1>6

\* The last page is the one that the last entry is on.
LEMMA LastPage ==
  ASSUME NEW count \in 0 .. MaxEntries
  PROVE  /\ MaxPage(count) \in 0 .. MaxInt
         /\ count = 0 => MaxPage(count) = 0
         /\ count > 0 => MaxPage(count) > 0 /\ PageSize * (MaxPage(count) - 1) < count
         /\ count <= PageSize * MaxPage(count)
<1> DEFINE q == MaxPage(count)
           r == (count + PageSize - 1) % PageSize
<1>1. PageSize \in Nat \ {0} /\ count \in Nat /\ count <= MaxInt /\ MaxInt \in Nat
  BY PageSizeAssumption, MaxIntAssumption, MaxEntriesAssumption
<1>2. /\ q \in Int /\ r \in 0 .. PageSize - 1
      /\ count + PageSize - 1 = PageSize * q + r
  BY <1>1 DEF MaxPage
<1> HIDE DEF q, r
<1>3. PageSize * q \in Int /\ PageSize * (q - 1) = PageSize * q - PageSize
  BY <1>1, <1>2
<1>4. count <= PageSize * q /\ PageSize * q <= count + PageSize - 1
  BY <1>1, <1>2, <1>3
<1>5. PageSize * 0 = 0 /\ PageSize * 1 = PageSize /\ PageSize * (-1) = -PageSize
  BY <1>1
<1>6. -1 < q
  <2>1. PageSize * (-1) < PageSize * q
    BY <1>1, <1>3, <1>4, <1>5
  <2> QED
    BY <1>2, <2>1, PagesOrder
<1>7. count = 0 => q < 1
  BY <1>1, <1>2, <1>3, <1>4, <1>5, PagesOrder
<1>8. count > 0 => 0 < q
  <2>1. count > 0 => PageSize * 0 < PageSize * q
    BY <1>1, <1>3, <1>4, <1>5
  <2> QED
    BY <1>2, <2>1, PagesOrder
<1>9. PageSize * (q - 1) < count
  BY <1>1, <1>3, <1>4
<1>10. q <= MaxInt
  <2>1. q - 1 >= 0 => q - 1 <= PageSize * (q - 1)
    BY <1>2, PagesOrder
  <2>2. PageSize * (q - 1) \in Int
    BY <1>1, <1>3
  <2> QED
    BY <1>1, <1>2, <1>9, <2>1, <2>2
<1> QED
  BY <1>1, <1>2, <1>4, <1>6, <1>7, <1>8, <1>9, <1>10 DEF q

\* Where the rows of a page begin: PageSize * (page - 1), if that fits; before the
\* first page nothing is skipped, nor where the offset overflows from the smallest
\* page number.
LEMMA PageOffset ==
  ASSUME NEW page \in PageNumbers
  PROVE  /\ page >= 1 /\ PageSize * (page - 1) <= MaxInt
              => Skipped(Offset(page)) = PageSize * (page - 1)
         /\ page \in {0, MinInt} => Skipped(Offset(page)) = 0
<1>1. /\ PageSize \in Nat \ {0} /\ MaxInt \in Nat /\ MinInt = -MaxInt - 1
      /\ page \in Int /\ MinInt <= page /\ page <= MaxInt
      /\ 2 * PageSize <= MaxInt
  BY PageSizeAssumption, MaxIntAssumption DEF PageNumbers, MinInt
<1>2. ASSUME page >= 1, PageSize * (page - 1) <= MaxInt
      PROVE  Skipped(Offset(page)) = PageSize * (page - 1)
  <2>1. Wrap(page - 1) = page - 1
    BY <1>1, <1>2, WrapValue DEF PageNumbers
  <2>2. PageSize * (page - 1) \in Int /\ PageSize * (page - 1) >= 0
    BY <1>1, <1>2
  <2>3. Offset(page) = PageSize * (page - 1)
    BY <1>1, <1>2, <2>1, <2>2, WrapValue DEF PageNumbers, Offset
  <2> QED
    BY <2>2, <2>3 DEF Skipped
<1>3. -PageSize \in PageNumbers
  BY <1>1 DEF PageNumbers
<1>4. CASE page = 0
  <2>1. Wrap(page - 1) = -1
    BY <1>1, <1>4, WrapValue DEF PageNumbers
  <2>2. PageSize * (-1) = -PageSize
    BY <1>1
  <2>3. Offset(page) = -PageSize
    BY <1>1, <1>3, <2>1, <2>2, WrapValue DEF Offset
  <2> QED
    BY <1>1, <1>4, <2>3 DEF Skipped
<1>5. CASE page = MinInt
  <2>1. page - 1 = MaxInt + (2 * MaxInt + 2) * (-1)
    BY <1>1, <1>5
  <2>2. Wrap(page - 1) = MaxInt
    BY <1>1, <2>1, WrapValue DEF PageNumbers
  <2>3. PICK half \in Nat : PageSize = 2 * half
    BY PageSizeAssumption
  <2>4. PageSize * MaxInt = -PageSize + (2 * MaxInt + 2) * half
    BY <1>1, <2>3
  <2>5. Wrap(-PageSize + (2 * MaxInt + 2) * half) = -PageSize
    <3>1. -PageSize \in Int /\ half \in Int
      BY <1>1
    <3> QED
      BY <1>3, <3>1, WrapValue, Zenon
  <2>6. Offset(page) = -PageSize
    BY <2>2, <2>4, <2>5 DEF Offset
  <2> QED
    BY <1>1, <1>5, <2>6 DEF Skipped
<1> QED
  BY <1>2, <1>4, <1>5

\* A page that begins before the end of the log has entries.
LEMMA RowsThere ==
  ASSUME LogOK, NEW offset \in Int, Skipped(offset) < Len(log)
  PROVE  Rows(PageSize, offset) # {}
<1> DEFINE i == Skipped(offset) + 1
<1>1. PageSize \in Nat \ {0} /\ Skipped(offset) \in Nat
  BY PageSizeAssumption DEF Skipped
<1>2. Len(log) \in Nat /\ DOMAIN log = 1 .. Len(log)
  BY LenProperties DEF LogOK
<1>3. i \in DOMAIN log /\ Skipped(offset) < i /\ i <= Skipped(offset) + PageSize
  BY <1>1, <1>2
<1> QED
  BY <1>3 DEF Rows

LEMMA OffsetType == \A page \in Int : Offset(page) \in Int
<1> SUFFICES ASSUME NEW page \in Int PROVE Offset(page) \in Int
  OBVIOUS
<1>1. Wrap(page - 1) \in Int
  BY WrapValue DEF PageNumbers
<1>2. PageSize * Wrap(page - 1) \in Int
  BY <1>1, PageSizeAssumption
<1> QED
  BY <1>2, WrapValue DEF Offset, PageNumbers

\* Where the right arrow leads from a page that is not negative.
LEMMA RightArrow ==
  ASSUME NEW page \in PageNumbers, NEW count \in 0 .. MaxEntries
  PROVE  LET right == NextPage(page, MaxPage(count))
         IN /\ right \in PageNumbers
            /\ page >= 0 => \/ right \in {0, MinInt}
                            \/ right >= 1 /\ PageSize * (right - 1) < count
            /\ page >= 0 /\ page < MaxPage(count) => right = page + 1
            /\ right <= MaxPage(count)
<1> DEFINE max == MaxPage(count)
           right == NextPage(page, max)
<1>1. /\ PageSize \in Nat \ {0} /\ MaxInt \in Nat /\ MinInt = -MaxInt - 1
      /\ page \in Int /\ MinInt <= page /\ page <= MaxInt
  BY PageSizeAssumption, MaxIntAssumption DEF PageNumbers, MinInt
<1>2. /\ max \in 0 .. MaxInt
      /\ count = 0 => max = 0
      /\ count > 0 => max > 0 /\ PageSize * (max - 1) < count
  BY LastPage
<1> HIDE DEF max
<1>3. Wrap(page + 1) \in PageNumbers
  BY <1>1, WrapValue
<1>4. right \in PageNumbers /\ right <= max
  BY <1>1, <1>2, <1>3 DEF PageNumbers, NextPage
<1>5. page < MaxInt => Wrap(page + 1) = page + 1
  BY <1>1, WrapValue DEF PageNumbers
<1>6. ASSUME page >= 0
      PROVE  \/ right \in {0, MinInt}
             \/ right >= 1 /\ PageSize * (right - 1) < count
  <2>1. CASE page = MaxInt
    <3>1. page + 1 = MinInt + (2 * MaxInt + 2) * 1
      BY <1>1, <2>1
    <3>2. MinInt \in PageNumbers /\ MinInt \in Int /\ 1 \in Int
      BY <1>1 DEF PageNumbers
    <3>3. Wrap(page + 1) = MinInt
      BY <3>1, <3>2, WrapValue, Zenon
    <3> QED
      BY <1>1, <1>2, <3>3 DEF NextPage
  <2>2. CASE page < MaxInt /\ count = 0
    BY <1>1, <1>2, <1>5, <1>6, <2>2 DEF NextPage
  <2>3. CASE page < MaxInt /\ count > 0
    <3>1. right >= 1 /\ right <= max /\ right \in Int
      BY <1>1, <1>2, <1>5, <1>6, <2>3 DEF NextPage
    <3>2. PageSize * (right - 1) <= PageSize * (max - 1)
      BY <1>2, <3>1, PagesOrder
    <3>3. PageSize * (right - 1) \in Int /\ PageSize * (max - 1) \in Int
      BY <1>1, <1>2, <3>1
    <3> HIDE DEF right
    <3> QED
      BY <1>2, <2>3, <3>1, <3>2, <3>3
  <2> QED
    BY <1>1, <2>1, <2>2, <2>3
<1>7. page >= 0 /\ page < max => right = page + 1
  BY <1>1, <1>2, <1>5 DEF NextPage
<1> QED
  BY <1>4, <1>6, <1>7 DEF max

LEMMA InvShowsEntries == PagesInv => RightShowsEntries
<1> SUFFICES ASSUME PagesInv, curr >= 0, log # <<>>
             PROVE  Rows(PageSize, Offset(next)) # {}
  BY DEF RightShowsEntries
<1>1. Len(log) \in Nat \ {0} /\ Len(log) <= MaxEntries /\ MaxEntries <= MaxInt
  BY EmptySeq, MaxEntriesAssumption DEF PagesInv, LogOK
<1>2. PICK count \in 0 .. Len(log) : next = NextPage(curr, MaxPage(count))
  BY DEF PagesInv, ArrowOK
<1>3. count \in 0 .. MaxEntries /\ curr \in PageNumbers
  BY <1>1, MaxEntriesAssumption DEF PagesInv, ArrowOK
<1>4. /\ next \in PageNumbers
      /\ \/ next \in {0, MinInt}
         \/ next >= 1 /\ PageSize * (next - 1) < count
  BY <1>2, <1>3, RightArrow
<1>5. next \in Int /\ PageSize * (next - 1) \in Int /\ MaxInt \in Int /\ MaxEntries \in Int
  BY <1>4, PageSizeAssumption, MaxIntAssumption, MaxEntriesAssumption DEF PageNumbers, MinInt
<1>6. Skipped(Offset(next)) < Len(log)
  <2>1. CASE next \in {0, MinInt}
    BY <1>1, <1>4, <2>1, PageOffset
  <2>2. CASE next >= 1 /\ PageSize * (next - 1) < count
    <3>1. PageSize * (next - 1) < Len(log) /\ PageSize * (next - 1) <= MaxInt
      BY <1>1, <1>2, <1>5, <2>2
    <3> QED
      BY <1>4, <2>2, <3>1, PageOffset
  <2> QED
    BY <1>4, <2>1, <2>2
<1> QED
  BY <1>5, <1>6, OffsetType, RowsThere DEF PagesInv

-----------------------------------------------------------------------------
\* A page has at most PageSize entries of the log.
LEMMA RowsBound ==
  ASSUME LogOK, NEW offset \in Int
  PROVE  /\ Rows(PageSize, offset) \subseteq ToSet(log)
         /\ Cardinality(Rows(PageSize, offset)) <= PageSize
<1> DEFINE skip == Skipped(offset)
           S == {j \in DOMAIN log : skip < j /\ j <= skip + PageSize}
           T == Rows(PageSize, offset)
           I == (skip + 1) .. (skip + PageSize)
           f == [i \in S |-> log[i]]
<1>1. PageSize \in Nat \ {0} /\ skip \in Nat
  BY PageSizeAssumption DEF Skipped
<1>2. T = {log[i] : i \in S}
  BY DEF Rows
<1>3. S \subseteq I
  <2>1. DOMAIN log \subseteq Int
    BY LenProperties DEF LogOK
  <2> HIDE DEF skip
  <2> QED
    BY <1>1, <2>1
<1>4. IsFiniteSet(I) /\ Cardinality(I) = PageSize
  <2> HIDE DEF skip
  <2> QED
    BY <1>1, FS_Interval
<1>5. IsFiniteSet(S) /\ Cardinality(S) <= PageSize
  <2> HIDE DEF S, I
  <2> QED
    BY <1>3, <1>4, FS_Subset
<1> HIDE DEF S
<1>6. f \in Surjection(S, T)
  BY <1>2 DEF Surjection
<1>7. Cardinality(T) <= Cardinality(S) /\ Cardinality(T) \in Nat /\ Cardinality(S) \in Nat
  BY <1>5, <1>6, FS_Surjection, FS_CardinalityType
<1>8. T \subseteq ToSet(log)
  BY DEF Rows, ToSet
<1> QED
  BY <1>1, <1>5, <1>7, <1>8

\* renderAuditlog keeps the log and draws its arrows for the page and the log.
LEMMA RenderStep ==
  ASSUME PagesInv, NEW page \in PageNumbers, Render(page)
  PROVE  /\ LogOK' /\ ArrowOK' /\ log' = log /\ ToSet(log)' = ToSet(log)
         /\ shown' \subseteq ToSet(log)' /\ Cardinality(shown') <= PageSize
<1> DEFINE rows == Rows(PageSize, Offset(page))
<1>1. page \in Int
  BY MaxIntAssumption DEF PageNumbers, MinInt
<1>2. log' = log /\ shown' = rows /\ curr' = page /\ prev' = PrevPage(page)
      /\ next' = NextPage(page, MaxPage(Count(rows)))
  BY DEF Render
<1>3. LogOK' /\ ToSet(log)' = ToSet(log)
  BY <1>2 DEF PagesInv, LogOK
<1>4. shown' \subseteq ToSet(log)' /\ Cardinality(shown') <= PageSize
  BY <1>1, <1>2, <1>3, OffsetType, RowsBound DEF PagesInv
<1>5. prev' \in 1 .. MaxInt
  <2>1. Wrap(page - 1) \in PageNumbers
    BY <1>1, WrapValue
  <2>2. 1 \in 1 .. MaxInt
    BY PageSizeAssumption, MaxIntAssumption
  <2> QED
    BY <1>2, <2>1, <2>2, MaxIntAssumption DEF PrevPage, PageNumbers, MinInt
<1>6. Count(rows) \in 0 .. Len(log)
  <2>1. Len(log) \in Nat
    BY LenProperties DEF PagesInv, LogOK
  <2> QED
    BY <2>1 DEF Count
<1> HIDE DEF rows
<1>7. ArrowOK'
  BY <1>2, <1>5, <1>6 DEF ArrowOK, NextPage
<1> QED
  BY <1>2, <1>3, <1>4, <1>7

\* Who opens the first page, or goes on from where what is left is behind the page
\* shown, has what is left behind the new one.
LEMMA AheadStep ==
  ASSUME PagesInv, NEW page \in PageNumbers, Render(page), page >= 1,
         NEW i \in 1 .. Len(log), PageSize * (page - 1) < i,
         log[i] \notin shown'
  PROVE  next' = page + 1 /\ PageSize * page < i
<1> DEFINE rows == Rows(PageSize, Offset(page))
           skip == PageSize * (page - 1)
<1>1. /\ Len(log) \in Nat /\ DOMAIN log = 1 .. Len(log) /\ Len(log) <= MaxEntries
      /\ MaxEntries \in Nat /\ MaxEntries <= MaxInt /\ MaxInt \in Nat
      /\ PageSize \in Nat \ {0} /\ page \in Int /\ i \in Int
  BY LenProperties, PageSizeAssumption, MaxEntriesAssumption, MaxIntAssumption
  DEF PagesInv, LogOK, PageNumbers, MinInt
<1>2. skip \in Int /\ PageSize * page = skip + PageSize
  <2>1. page - 1 \in Int /\ page = (page - 1) + 1
    BY <1>1
  <2> QED
    BY <2>1, PagesOrder
<1>3. 0 <= skip
  <2>1. 0 <= page - 1 /\ page - 1 \in Int
    BY <1>1
  <2> QED
    BY <1>1, <1>2, <2>1, PagesOrder
<1>4. Skipped(Offset(page)) = skip
  <2>1. skip <= MaxInt
    <3> HIDE DEF skip
    <3> QED
      BY <1>1, <1>2
  <2> QED
    BY <2>1, PageOffset
<1> HIDE DEF skip
<1>5. skip < i
  BY DEF skip
<1>6. rows = {log[j] : j \in {k \in DOMAIN log : skip < k /\ k <= skip + PageSize}}
  BY <1>4 DEF Rows
<1>7. shown' = rows /\ next' = NextPage(page, MaxPage(Count(rows)))
  BY DEF Render
<1>8. ~ (i <= skip + PageSize)
  BY <1>1, <1>5, <1>6, <1>7
<1>9. rows # {}
  <2>1. skip + 1 \in DOMAIN log /\ skip < skip + 1 /\ skip + 1 <= skip + PageSize
    BY <1>1, <1>2, <1>3, <1>5
  <2> QED
    BY <1>6, <2>1
<1>10. Count(rows) = Len(log)
  BY <1>9 DEF Count
<1>11. page < MaxPage(Len(log))
  <2>1. MaxPage(Len(log)) \in Int /\ Len(log) <= PageSize * MaxPage(Len(log))
    BY <1>1, LastPage
  <2>2. PageSize * MaxPage(Len(log)) \in Int
    BY <1>1, <2>1
  <2>3. PageSize * page < PageSize * MaxPage(Len(log))
    BY <1>1, <1>2, <1>8, <2>1, <2>2
  <2> QED
    BY <1>1, <2>1, <2>3, PagesOrder
<1>12. next' = page + 1
  BY <1>1, <1>7, <1>10, <1>11, RightArrow
<1> QED
  BY <1>1, <1>2, <1>8, <1>12

LEMMA OpenStep ==
  ASSUME PagesInv, NEW page \in PageNumbers, Open(page)
  PROVE  PagesInv'
<1>1. /\ Render(page)
      /\ started' = IF page = 1 THEN ToSet(log) ELSE {}
      /\ walked' = IF page = 1 THEN shown' ELSE {}
  BY DEF Open
<1>2. /\ LogOK' /\ ArrowOK' /\ log' = log /\ ToSet(log)' = ToSet(log)
      /\ shown' \subseteq ToSet(log)' /\ Cardinality(shown') <= PageSize
  BY <1>1, RenderStep
<1>3. Ahead'
  <2> SUFFICES ASSUME NEW i \in 1 .. Len(log), log[i] \in started' \ walked'
               PROVE  curr' >= 1 /\ next' = curr' + 1 /\ PageSize * curr' < i
    BY <1>2 DEF Ahead
  <2>1. page = 1 /\ log[i] \notin shown'
    BY <1>1
  <2>2. PageSize * (page - 1) < i
    BY <2>1, PageSizeAssumption
  <2>3. next' = page + 1 /\ PageSize * page < i
    BY <1>1, <2>1, <2>2, AheadStep
  <2>4. curr' = page
    BY <1>1 DEF Render
  <2> QED
    BY <2>1, <2>3, <2>4
<1> QED
  BY <1>1, <1>2, <1>3 DEF PagesInv

LEMMA GoRightStep ==
  ASSUME PagesInv, GoRight
  PROVE  PagesInv'
<1>1. /\ Render(next) /\ started' = started
      /\ walked' = IF started = {} THEN {} ELSE walked \cup shown'
  BY DEF GoRight
<1>2. next \in PageNumbers /\ curr \in PageNumbers
  <2>1. PICK count \in 0 .. Len(log) : next = NextPage(curr, MaxPage(count))
    BY DEF PagesInv, ArrowOK
  <2>2. count \in 0 .. MaxEntries /\ curr \in PageNumbers
    BY LenProperties, MaxEntriesAssumption DEF PagesInv, LogOK, ArrowOK
  <2> QED
    BY <2>1, <2>2, RightArrow
<1>3. /\ LogOK' /\ ArrowOK' /\ log' = log /\ ToSet(log)' = ToSet(log)
      /\ shown' \subseteq ToSet(log)' /\ Cardinality(shown') <= PageSize
  BY <1>1, <1>2, RenderStep
<1>4. Ahead'
  <2> SUFFICES ASSUME NEW i \in 1 .. Len(log), log[i] \in started' \ walked'
               PROVE  curr' >= 1 /\ next' = curr' + 1 /\ PageSize * curr' < i
    BY <1>3 DEF Ahead
  <2>1. log[i] \in started \ walked /\ log[i] \notin shown'
    BY <1>1
  <2>2. curr >= 1 /\ next = curr + 1 /\ PageSize * curr < i
    BY <2>1 DEF PagesInv, Ahead
  <2>3. next >= 1 /\ next - 1 = curr /\ next \in Int
    BY <1>2, <2>2, MaxIntAssumption DEF PageNumbers, MinInt
  <2>4. next' = next + 1 /\ PageSize * next < i
    BY <1>1, <1>2, <2>1, <2>2, <2>3, AheadStep
  <2>5. curr' = next
    BY <1>1 DEF Render
  <2> QED
    BY <2>3, <2>4, <2>5
<1> QED
  BY <1>1, <1>3, <1>4 DEF PagesInv

LEMMA GoLeftStep ==
  ASSUME PagesInv, GoLeft
  PROVE  PagesInv'
<1>1. prev \in PageNumbers
  BY MaxIntAssumption DEF PagesInv, ArrowOK, PageNumbers, MinInt
<1>2. /\ LogOK' /\ ArrowOK'
      /\ shown' \subseteq ToSet(log)' /\ Cardinality(shown') <= PageSize
  BY <1>1, RenderStep DEF GoLeft
<1> QED
  BY <1>2 DEF GoLeft, PagesInv, Ahead

\* t is s with e before what was the i-th element.
IsInsertion(t, s, i, e) ==
  /\ Len(t) = Len(s) + 1
  /\ \A j \in 1 .. Len(s) + 1 :
       t[j] = IF j < i THEN s[j] ELSE IF j = i THEN e ELSE s[j - 1]

\* What is inserted into a sequence moves what is behind it.
LEMMA Inserted ==
  ASSUME NEW S, NEW s \in Seq(S), NEW i \in 1 .. Len(s) + 1, NEW e \in S
  PROVE  InsertAt(s, i, e) \in Seq(S) /\ IsInsertion(InsertAt(s, i, e), s, i, e)
<1> DEFINE front == SubSeq(s, 1, i - 1)
           back == SubSeq(s, i, Len(s))
           mid == front \o <<e>>
<1>1. Len(s) \in Nat /\ i \in Int /\ 1 <= i /\ i <= Len(s) + 1
  BY LenProperties
<1>2. \A j \in 1 .. Len(s) : s[j] \in S
  BY ElementOfSeq
<1>3. /\ front \in Seq(S) /\ Len(front) = i - 1
      /\ \A j \in 1 .. i - 1 : front[j] = s[j]
  <2>1. \A j \in 1 .. i - 1 : s[j] \in S
    BY <1>1, <1>2
  <2>2. i - 1 \in Int
    BY <1>1
  <2>3. /\ front \in Seq(S)
        /\ Len(front) = IF 1 <= i - 1 THEN (i - 1) - 1 + 1 ELSE 0
        /\ \A j \in 1 .. (i - 1) - 1 + 1 : front[j] = s[1 + j - 1]
    BY <2>1, <2>2, SubSeqProperties
  <2> HIDE DEF front
  <2> QED
    BY <1>1, <2>3
<1>4. /\ back \in Seq(S) /\ Len(back) = Len(s) - i + 1
      /\ \A j \in 1 .. Len(s) - i + 1 : back[j] = s[i + j - 1]
  <2>1. \A j \in i .. Len(s) : s[j] \in S
    BY <1>1, <1>2
  <2>2. /\ back \in Seq(S)
        /\ Len(back) = IF i <= Len(s) THEN Len(s) - i + 1 ELSE 0
        /\ \A j \in 1 .. Len(s) - i + 1 : back[j] = s[i + j - 1]
    BY <1>1, <2>1, SubSeqProperties
  <2> HIDE DEF back
  <2> QED
    BY <1>1, <2>2
<1> HIDE DEF front, back
<1>5. <<e>> \in Seq(S) /\ Len(<<e>>) = 1 /\ <<e>>[1] = e
  OBVIOUS
<1>6. /\ mid \in Seq(S) /\ Len(mid) = i
      /\ \A j \in 1 .. i : mid[j] = IF j <= i - 1 THEN s[j] ELSE e
  <2>1. /\ mid \in Seq(S) /\ Len(mid) = Len(front) + Len(<<e>>)
        /\ \A j \in 1 .. Len(front) + Len(<<e>>) :
             mid[j] = IF j <= Len(front) THEN front[j] ELSE <<e>>[j - Len(front)]
    BY <1>3, <1>5, ConcatProperties
  <2> HIDE DEF mid
  <2> QED
    BY <1>1, <1>3, <1>5, <2>1
<1> HIDE DEF mid
<1>7. InsertAt(s, i, e) = mid \o back
  BY DEF InsertAt, mid, front, back
<1>8. /\ mid \o back \in Seq(S) /\ Len(mid \o back) = Len(mid) + Len(back)
      /\ \A j \in 1 .. Len(mid) + Len(back) :
           (mid \o back)[j] = IF j <= Len(mid) THEN mid[j] ELSE back[j - Len(mid)]
  BY <1>4, <1>6, ConcatProperties
<1>9. ASSUME NEW j \in 1 .. Len(s) + 1
      PROVE  (mid \o back)[j] = IF j < i THEN s[j] ELSE IF j = i THEN e ELSE s[j - 1]
  BY <1>1, <1>4, <1>6, <1>8
<1> QED
  BY <1>1, <1>4, <1>6, <1>7, <1>8, <1>9 DEF IsInsertion

\* A new entry moves the others away from the front of the log.
LEMMA CreateStep ==
  ASSUME PagesInv, Create
  PROVE  PagesInv'
<1> DEFINE n == Len(log)
           new == n + 1
<1>1. /\ n \in Nat /\ n < MaxEntries /\ MaxEntries \in Nat
      /\ log \in Seq(Entries) /\ DOMAIN log = 1 .. n /\ new \in Entries
      /\ \A j \in 1 .. n : log[j] \in Entries
  BY LenProperties, ElementOfSeq, MaxEntriesAssumption DEF PagesInv, LogOK, Create, Entries
<1>2. /\ \A j \in 1 .. n : log[j] \in 1 .. n
      /\ \A j, k \in 1 .. n : log[j] = log[k] => j = k
  BY <1>1 DEF PagesInv, LogOK, ToSet, IsInjective
<1>3. PICK i \in 1 .. n + 1 : log' = InsertAt(log, i, new)
  BY DEF Create
<1>4. /\ log' \in Seq(Entries) /\ Len(log') = n + 1
      /\ \A j \in 1 .. n + 1 :
           log'[j] = IF j < i THEN log[j] ELSE IF j = i THEN new ELSE log[j - 1]
  <2>1. log \in Seq(Entries) /\ i \in 1 .. Len(log) + 1 /\ new \in Entries
    BY <1>1
  <2> HIDE DEF n, new
  <2>2. InsertAt(log, i, new) \in Seq(Entries) /\ IsInsertion(InsertAt(log, i, new), log, i, new)
    BY <2>1, Inserted
  <2> QED
    BY <1>3, <2>2 DEF n, IsInsertion
<1>5. DOMAIN log' = 1 .. n + 1
  BY <1>4, LenProperties
<1>6. i \in Int /\ 1 <= i /\ i <= n + 1
  BY <1>1
<1> HIDE DEF n, new
<1>7. /\ new = n + 1
      /\ UNCHANGED <<shown, curr, prev, next, started, walked>>
  BY DEF new, n, Create
<1>8. \A j \in 1 .. n : \E k \in 1 .. n + 1 : j <= k /\ log'[k] = log[j]
  <2> SUFFICES ASSUME NEW j \in 1 .. n
               PROVE  \E k \in 1 .. n + 1 : j <= k /\ log'[k] = log[j]
    OBVIOUS
  <2>1. CASE j < i
    <3>1. j \in 1 .. n + 1 /\ j <= j
      BY <1>1
    <3> QED
      BY <1>4, <2>1, <3>1
  <2>2. CASE ~ (j < i)
    <3>1. j + 1 \in 1 .. n + 1 /\ j <= j + 1 /\ ~ (j + 1 < i) /\ j + 1 # i /\ (j + 1) - 1 = j
      BY <1>1, <1>6, <2>2
    <3> QED
      BY <1>4, <3>1
  <2> QED
    BY <2>1, <2>2
<1>9. ToSet(log) \subseteq ToSet(log')
  BY <1>1, <1>5, <1>8 DEF ToSet
<1>10. \A j \in 1 .. n + 1 :
         /\ j < i => j \in 1 .. n /\ log'[j] = log[j]
         /\ j = i => log'[j] = n + 1
         /\ i < j => j - 1 \in 1 .. n /\ log'[j] = log[j - 1]
         /\ log'[j] \in 1 .. n + 1
  <2> SUFFICES ASSUME NEW j \in 1 .. n + 1
               PROVE  /\ j < i => j \in 1 .. n /\ log'[j] = log[j]
                      /\ j = i => log'[j] = n + 1
                      /\ i < j => j - 1 \in 1 .. n /\ log'[j] = log[j - 1]
                      /\ log'[j] \in 1 .. n + 1
    OBVIOUS
  <2>1. log'[j] = IF j < i THEN log[j] ELSE IF j = i THEN new ELSE log[j - 1]
    BY <1>4
  <2>2. CASE j < i
    <3>1. j \in 1 .. n
      BY <1>1, <1>6, <2>2
    <3>2. log'[j] = log[j] /\ log[j] \in 1 .. n
      BY <1>2, <2>1, <2>2, <3>1
    <3> QED
      BY <1>1, <1>6, <2>2, <3>1, <3>2
  <2>3. CASE j = i
    BY <1>1, <1>6, <1>7, <2>1, <2>3
  <2>4. CASE i < j
    <3>1. j - 1 \in 1 .. n /\ ~ (j < i) /\ j # i
      BY <1>1, <1>6, <2>4
    <3>2. log'[j] = log[j - 1] /\ log[j - 1] \in 1 .. n
      BY <1>2, <2>1, <3>1
    <3> QED
      BY <1>1, <1>6, <2>4, <3>1, <3>2
  <2> QED
    BY <1>1, <1>6, <2>2, <2>3, <2>4
<1>11. \A j, k \in 1 .. n + 1 : log'[j] = log'[k] => j = k
  <2> SUFFICES ASSUME NEW j \in 1 .. n + 1, NEW k \in 1 .. n + 1, log'[j] = log'[k],
                      j < k
               PROVE  FALSE
    BY <1>1
  <2>1. \A m \in 1 .. n : log[m] # n + 1
    BY <1>1, <1>2
  <2>2. CASE j = i \/ k = i
    BY <1>1, <1>6, <1>10, <2>1, <2>2
  <2>3. CASE k < i
    BY <1>1, <1>2, <1>6, <1>10, <2>3
  <2>4. CASE i < j
    <3>1. j - 1 = k - 1
      BY <1>1, <1>2, <1>6, <1>10, <2>4
    <3> QED
      BY <1>1, <3>1
  <2>5. CASE j < i /\ i < k
    <3>1. j = k - 1
      BY <1>1, <1>2, <1>6, <1>10, <2>5
    <3> QED
      BY <1>1, <1>6, <2>5, <3>1
  <2> QED
    BY <1>1, <1>6, <2>2, <2>3, <2>4, <2>5
<1>12. LogOK'
  <2>1. IsInjective(log')
    BY <1>5, <1>11 DEF IsInjective
  <2>2. ToSet(log') \subseteq 1 .. Len(log')
    BY <1>4, <1>5, <1>10 DEF ToSet
  <2>3. Len(log') <= MaxEntries
    BY <1>1, <1>4
  <2> QED
    BY <1>4, <2>1, <2>2, <2>3 DEF LogOK
<1>13. ArrowOK'
  <2>1. 0 .. n \subseteq 0 .. n + 1
    BY <1>1
  <2> QED
    BY <1>4, <1>7, <2>1 DEF PagesInv, ArrowOK, NextPage, n
<1>14. Ahead'
  <2> SUFFICES ASSUME NEW j \in 1 .. n + 1, log'[j] \in started \ walked
               PROVE  curr >= 1 /\ next = curr + 1 /\ PageSize * curr < j
    BY <1>4, <1>7 DEF Ahead
  <2>1. started \subseteq 1 .. n
    BY <1>2 DEF PagesInv, LogOK, n
  <2>2. j # i
    BY <1>1, <1>4, <1>7, <2>1
  <2>3. PICK k \in 1 .. n : k <= j /\ log'[j] = log[k]
    <3>1. CASE j < i
      <4>1. j \in 1 .. n /\ j <= j
        BY <1>1, <1>6, <3>1
      <4> QED
        BY <1>4, <3>1, <4>1
    <3>2. CASE ~ (j < i)
      <4>1. j - 1 \in 1 .. n /\ j - 1 <= j
        BY <1>1, <1>6, <2>2, <3>2
      <4> QED
        BY <1>4, <2>2, <3>2, <4>1
    <3> QED
      BY <3>1, <3>2
  <2>4. curr >= 1 /\ next = curr + 1 /\ PageSize * curr < k
    BY <2>3 DEF PagesInv, Ahead, n
  <2>5. PageSize * curr \in Int
    <3>1. PageSize \in Int /\ curr \in Int
      BY PageSizeAssumption, MaxIntAssumption DEF PagesInv, ArrowOK, PageNumbers, MinInt
    <3> QED
      BY <3>1
  <2> QED
    BY <1>1, <2>3, <2>4, <2>5
<1> QED
  BY <1>7, <1>9, <1>12, <1>13, <1>14 DEF PagesInv

LEMMA InitPagesInv == Init => PagesInv
<1> SUFFICES ASSUME Init PROVE PagesInv
  OBVIOUS
<1>1. log = <<>> /\ Len(log) = 0 /\ DOMAIN log = {}
  BY DEF Init
<1>2. LogOK
  <2>1. log \in Seq(Entries)
    BY EmptySeq DEF Init
  <2> QED
    BY <1>1, <2>1, MaxEntriesAssumption DEF LogOK, IsInjective, ToSet
<1>3. ArrowOK
  <2>1. MaxPage(0) = 0
    BY LastPage, MaxEntriesAssumption
  <2>2. 1 \in PageNumbers /\ 2 \in PageNumbers /\ 1 \in 1 .. MaxInt
    BY PageSizeAssumption, MaxIntAssumption DEF PageNumbers, MinInt
  <2>3. Wrap(2) = 2
    BY <2>2, WrapValue
  <2>4. NextPage(1, MaxPage(0)) = 0
    BY <2>1, <2>3 DEF NextPage
  <2> QED
    BY <1>1, <2>2, <2>4 DEF Init, ArrowOK
<1>4. shown = {} /\ Cardinality(shown) <= PageSize
  BY FS_EmptySet, PageSizeAssumption DEF Init
<1> QED
  BY <1>1, <1>2, <1>3, <1>4 DEF Init, PagesInv, Ahead, ToSet

\* PagesInv is an invariant of the pages.
THEOREM SpecPagesInv == Spec => []PagesInv
<1>1. PagesInv /\ [Next]_vars => PagesInv'
  <2> SUFFICES ASSUME PagesInv, [Next]_vars PROVE PagesInv'
    OBVIOUS
  <2>1. CASE UNCHANGED vars
    BY <2>1 DEF vars, PagesInv, LogOK, ArrowOK, Ahead
  <2> QED
    BY <2>1, CreateStep, OpenStep, GoRightStep, GoLeftStep DEF Next
<1> QED
  BY <1>1, InitPagesInv, PTL DEF Spec

\* No page number, however large or negative, makes a page too long, an arrow to
\* the left of the first page or a number that is no int.
THEOREM PagesTypeCorrect == Spec => []TypeOK
<1>1. PagesInv => TypeOK
  <2> SUFFICES ASSUME PagesInv PROVE TypeOK
    OBVIOUS
  <2>1. PICK count \in 0 .. Len(log) : next = NextPage(curr, MaxPage(count))
    BY DEF PagesInv, ArrowOK
  <2>2. Len(log) \in Nat /\ ToSet(log) \subseteq Entries
    BY LenProperties, ElementOfSeq DEF PagesInv, LogOK, ToSet
  <2>3. next \in PageNumbers
    <3>1. count \in 0 .. MaxEntries /\ curr \in PageNumbers
      BY <2>2, MaxEntriesAssumption DEF PagesInv, LogOK, ArrowOK
    <3> QED
      BY <2>1, <3>1, RightArrow
  <2> QED
    BY <2>2, <2>3 DEF TypeOK, PagesInv, LogOK, ArrowOK, PageNumbers
<1> QED
  BY <1>1, SpecPagesInv, PTL

\* Whoever walks through the log to the right until the arrow stays has seen all
\* that was there at the beginning, whatever is added meanwhile, and wherever.
THEOREM WalkNeverMisses == Spec => []WalkMissesNothing
<1>1. PagesInv => WalkMissesNothing
  <2> SUFFICES ASSUME PagesInv, next <= curr, NEW e \in started, e \notin walked
               PROVE  FALSE
    BY DEF WalkMissesNothing
  <2>1. PICK i \in 1 .. Len(log) : log[i] = e
    BY LenProperties DEF PagesInv, LogOK, ToSet
  <2>2. next = curr + 1
    BY <2>1 DEF PagesInv, Ahead
  <2>3. curr \in Int
    BY MaxIntAssumption DEF PagesInv, ArrowOK, PageNumbers, MinInt
  <2> QED
    BY <2>2, <2>3
<1> QED
  BY <1>1, SpecPagesInv, PTL

\* From page 0 and every page number above, the last int included, the right arrow
\* leads to a page with entries, when there are any.
THEOREM RightAlwaysShowsEntries == Spec => []RightShowsEntries
BY InvShowsEntries, SpecPagesInv, PTL

=============================================================================
