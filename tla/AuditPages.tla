----------------------------- MODULE AuditPages -----------------------------
(***************************************************************************)
(* The audit log page by page (renderAuditlog in app/routes.go over        *)
(* auditlog/service.go): somebody walks through it with the arrows while   *)
(* entries are added. The page number comes from the query: any int.       *)
(***************************************************************************)
EXTENDS Integers, SequencesExt

CONSTANTS
  PageSize,    \* pageSize: 20
  MaxInt,      \* the largest int: 2^63 - 1
  MaxEntries   \* bounds the log, whose length fits an int

ASSUME PageSizeAssumption == PageSize \in Nat \ {0} /\ PageSize % 2 = 0
ASSUME MaxIntAssumption == MaxInt \in Nat /\ 2 * PageSize <= MaxInt
ASSUME MaxEntriesAssumption == MaxEntries \in Nat /\ MaxEntries <= MaxInt

MinInt == -MaxInt - 1

VARIABLES
  log,      \* table audit_log in the order of recorded_at, the newest first
  shown,    \* the entries on the page
  curr, prev, next,  \* its number and those its arrows lead to
  started,  \* history: the entries there were when the walk began at page 1,
            \* which goes on as long as only the right arrow is used
  walked    \* history: the entries shown on the walk; both empty without one

vars == <<log, shown, curr, prev, next, started, walked>>

Entries == 1 .. MaxEntries

TypeOK ==
  /\ log \in Seq(Entries) /\ IsInjective(log)
  /\ shown \subseteq ToSet(log) /\ Cardinality(shown) <= PageSize
  /\ curr \in MinInt .. MaxInt
  /\ prev \in 1 .. MaxInt
  /\ next \in MinInt .. MaxInt
  /\ started \subseteq Entries /\ walked \subseteq Entries

-----------------------------------------------------------------------------
\* An int that overflows.
Wrap(n) == ((n - MinInt) % (MaxInt - MinInt + 1)) + MinInt

\* Atoi: what is not a number becomes 0, and what is too large the largest int.
PageNumbers == MinInt .. MaxInt

Offset(page) == Wrap(PageSize * Wrap(page - 1))

\* FormatLimitOffset adds an offset only if it is greater than zero.
Skipped(offset) == IF offset > 0 THEN offset ELSE 0

\* list with a limit.
Rows(limit, offset) ==
  {log[i] : i \in {j \in DOMAIN log : Skipped(offset) < j /\ j <= Skipped(offset) + limit}}

\* COUNT(*) OVER () is a column of the rows: without a row it is not known.
Count(rows) == IF rows = {} THEN 0 ELSE Len(log)

\* Mutant: the last page is forgotten unless it is full.
MaxPageDown(count) == count \div PageSize

MaxPage(count) == (count + PageSize - 1) \div PageSize

\* Mutant: nothing keeps the left arrow at the first page.
PrevPageAny(page) == Wrap(page - 1)

PrevPage(page) == IF Wrap(page - 1) < 1 THEN 1 ELSE Wrap(page - 1)

\* Mutant: the right arrow goes on past the last page.
NextPageAny(page, max) == Wrap(page + 1)

NextPage(page, max) == IF Wrap(page + 1) > max THEN max ELSE Wrap(page + 1)

\* renderAuditlog
Render(page) ==
  LET rows == Rows(PageSize, Offset(page))
  IN /\ shown' = rows
     /\ curr' = page
     /\ prev' = PrevPage(page)
     /\ next' = NextPage(page, MaxPage(Count(rows)))
     /\ UNCHANGED log

-----------------------------------------------------------------------------
Init ==
  /\ log = <<>> /\ shown = {}
  /\ curr = 1 /\ prev = 1 /\ next = 0
  /\ started = {} /\ walked = {}

\* create: db.Now() is read before the INSERT gets its turn, and the clock may be
\* set back, so that the entry need not be the newest.
Create ==
  /\ Len(log) < MaxEntries
  /\ \E i \in 1 .. Len(log) + 1 : log' = InsertAt(log, i, Len(log) + 1)
  /\ UNCHANGED <<shown, curr, prev, next, started, walked>>

\* The page is asked for with a number; with 1 or none, as the menu does, a walk
\* begins.
Open(page) ==
  /\ Render(page)
  /\ started' = IF page = 1 THEN ToSet(log) ELSE {}
  /\ walked' = IF page = 1 THEN shown' ELSE {}

GoRight ==
  /\ Render(next)
  /\ started' = started
  /\ walked' = IF started = {} THEN {} ELSE walked \cup shown'

GoLeft ==
  /\ Render(prev)
  /\ started' = {} /\ walked' = {}

Next ==
  \/ Create
  \/ \E page \in PageNumbers : Open(page)
  \/ GoRight
  \/ GoLeft

Spec == Init /\ [][Next]_vars

-----------------------------------------------------------------------------
(***************************************************************************)
(* Properties.                                                             *)
(***************************************************************************)

\* Whoever walks from the first page until the right arrow leads no further has
\* seen every entry that was there at the beginning, however many are added
\* meanwhile and shift the others from page to page.
WalkMissesNothing == next <= curr => started \subseteq walked

\* The right arrow leads to entries, if there are any: at the end it stays, and
\* from a page number past the end, whose count is 0, it leads to page 0, which
\* shows the first page. (A negative number can overflow to an offset past the
\* end; then it does not.)
RightShowsEntries ==
  curr >= 0 /\ log # <<>> => Rows(PageSize, Offset(next)) # {}

=============================================================================
