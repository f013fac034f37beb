-------------------------- MODULE ImportReadsProofs ---------------------------
(* What a client sees that pages through the rejections of an import, for any *)
(* files, page sizes and row ids, and whatever is committed between its       *)
(* requests.                                                                  *)
(*                                                                            *)
(* The argument.  (lineNumber, id) orders the rows totally, and a page is an  *)
(* initial segment of what lies behind the cursor: whoever is not after some  *)
(* row of the page is in it (PageFacts).  The cursor is the last row the      *)
(* client was sent, so the next page lies behind all pages before.  That      *)
(* nothing slips in behind the client needs what its writer knows: the rows   *)
(* of an import whose batches follow its checkpoint are of lines up to it.    *)
(* The summary's totals are read first and transactions are kept, so that     *)
(* groups read later, which partition the transactions, add up to no less.    *)
EXTENDS ImportReads, ImportStoreProofs

\* Rejected rows, as the order sees them.
Rows == Nat \X Nat

RecordsInv ==
  /\ records \in [Imports -> SUBSET Rows]
  /\ \A i \in Imports : /\ IsFiniteSet(records[i])
                        /\ records[i] # {} => Exists(i)
                        /\ i \notin strayed =>
                             \A x \in records[i] : x[1] <= row[i].checkpoint

\* The cursor is the last row that the client was sent.
CursorInv ==
  walk.more => IF walk.cursor = NoCursor THEN walk.pages = <<>>
               ELSE walk.cursor \in Seen /\ \A y \in Seen : ~After(y, walk.cursor)

WalkTypes ==
  /\ walk = [import |-> walk.import, cursor |-> walk.cursor, more |-> walk.more,
             pages |-> walk.pages, had |-> walk.had]
  /\ walk.pages \in Seq(SUBSET Rows)
  /\ walk.import \in Imports => Seen \cup walk.had \subseteq records[walk.import]
  /\ walk.import \notin Imports => walk = IdleWalk

WalkInv == /\ WalkTypes
           /\ CursorInv
           /\ PagesAscend
           /\ OldRejectionsAreSeen
           /\ PagesHaveNoGaps

\* The groups are read after the totals, and the totals are of some rows that
\* are still there.
SummaryInv ==
  /\ summary = [import |-> summary.import, read |-> summary.read,
                accepted |-> summary.accepted, byCurrency |-> summary.byCurrency,
                byRiskLevel |-> summary.byRiskLevel]
  /\ summary.read # {} => summary.import \in Imports /\ "totals" \in summary.read
  /\ summary.import \in Imports \cup {NoImport}
  /\ "totals" \in summary.read =>
       /\ summary.accepted \in Nat
       /\ summary.accepted <= Cardinality(stored[summary.import])
  /\ SummaryIsNotBehind

ReadsInv == StoreInv /\ RecordsInv /\ WalkInv /\ SummaryInv

------------------------------------------------------------------------------
\* The order of the rows.

LEMMA AfterOrders ==
  ASSUME NEW x \in Rows, NEW y \in Rows, NEW z \in Rows
  PROVE  /\ ~After(x, x)
         /\ x # y => After(x, y) \/ After(y, x)
         /\ After(x, y) => ~After(y, x)
         /\ After(x, y) /\ After(y, z) => After(x, z)
BY DEF After, Rows

LEMMA Least ==
  ASSUME NEW S \in SUBSET Rows, S # {}
  PROVE  \E x \in S : \A y \in S : ~After(x, y)
<1> DEFINE lines == {x[1] : x \in S}
<1>1. lines \in SUBSET Nat /\ lines # {}
  BY DEF Rows
<1>2. PICK n \in lines : \A m \in lines : n <= m
  BY <1>1, Smallest
<1> DEFINE ids == {x[2] : x \in {z \in S : z[1] = n}}
<1>3. ids \in SUBSET Nat /\ ids # {}
  BY <1>2 DEF Rows
<1>4. PICK d \in ids : \A e \in ids : d <= e
  BY <1>3, Smallest
<1>5. PICK x \in S : x[1] = n /\ x[2] = d
  BY <1>4
<1>6. \A y \in S : n <= y[1] /\ (y[1] = n => d <= y[2])
  BY <1>2, <1>4
<1> QED
  BY <1>5, <1>6 DEF After, Rows

LEMMA Smaller ==
  ASSUME NEW S, IsFiniteSet(S), NEW T \in SUBSET S
  PROVE  /\ IsFiniteSet(T) /\ Cardinality(T) \in Nat /\ Cardinality(S) \in Nat
         /\ Cardinality(T) <= Cardinality(S)
         /\ T # S => Cardinality(T) < Cardinality(S)
<1>1. /\ IsFiniteSet(T) /\ Cardinality(T) <= Cardinality(S)
      /\ Cardinality(T) = Cardinality(S) => T = S
  BY FS_Subset
<1>2. Cardinality(T) \in Nat /\ Cardinality(S) \in Nat
  BY <1>1, FS_CardinalityType
<1> QED
  BY <1>1, <1>2

\* What lies before x in S.
Below(S, x) == {y \in S : After(x, y)}

LEMMA BelowGrows ==
  ASSUME NEW S \in SUBSET Rows, IsFiniteSet(S), NEW x \in Rows, NEW y \in Rows
  PROVE  /\ IsFiniteSet(Below(S, x)) /\ Cardinality(Below(S, x)) \in Nat
         /\ ~After(x, y) => Cardinality(Below(S, x)) <= Cardinality(Below(S, y))
         /\ After(y, x) /\ x \in S => Cardinality(Below(S, x)) < Cardinality(Below(S, y))
<1>1. \A z \in Rows : IsFiniteSet(Below(S, z)) /\ Cardinality(Below(S, z)) \in Nat
  <2>1. \A z \in Rows : Below(S, z) \in SUBSET S
    BY DEF Below
  <2> QED
    BY <2>1, FS_Subset, FS_CardinalityType
<1>2. ASSUME ~After(x, y) PROVE Below(S, x) \in SUBSET Below(S, y)
  <2> SUFFICES ASSUME NEW z \in S, After(x, z) PROVE After(y, z)
    BY DEF Below
  <2> QED
    BY <1>2, AfterOrders
<1>3. ASSUME After(y, x), x \in S
      PROVE  Below(S, x) \in SUBSET Below(S, y) /\ Below(S, x) # Below(S, y)
  <2>1. ~After(x, y)
    BY <1>3, AfterOrders
  <2>2. x \in Below(S, y) /\ x \notin Below(S, x)
    BY <1>3, AfterOrders DEF Below
  <2> QED
    BY <1>2, <2>1, <2>2
<1> QED
  BY <1>1, <1>2, <1>3, Smaller

LEMMA Greatest ==
  ASSUME NEW S \in SUBSET Rows, IsFiniteSet(S), S # {}
  PROVE  \E x \in S : \A y \in S : ~After(y, x)
<1> DEFINE above(x) == {y \in S : After(y, x)}
           sizes == {Cardinality(above(x)) : x \in S}
<1>1. \A x \in S : IsFiniteSet(above(x)) /\ Cardinality(above(x)) \in Nat
  <2>1. \A x \in S : above(x) \in SUBSET S
    OBVIOUS
  <2> HIDE DEF above
  <2> QED
    BY <2>1, Smaller
<1>2. PICK n \in sizes : \A m \in sizes : n <= m
  <2>1. sizes \in SUBSET Nat /\ sizes # {}
    BY <1>1
  <2> HIDE DEF sizes
  <2> QED
    BY <2>1, Smallest
<1>3. PICK x \in S : n = Cardinality(above(x))
  BY <1>2
<1>4. ASSUME NEW y \in S, After(y, x) PROVE FALSE
  <2>1. above(y) \in SUBSET above(x)
    BY <1>4, AfterOrders
  <2>2. y \in above(x) /\ y \notin above(y)
    BY <1>4, AfterOrders
  <2>3. Cardinality(above(y)) \in sizes
    BY <1>4
  <2> HIDE DEF above, sizes
  <2>4. Cardinality(above(y)) < n /\ Cardinality(above(y)) \in Nat /\ n \in Nat
    BY <1>1, <1>3, <2>1, <2>2, Smaller
  <2> QED
    BY <1>2, <2>3, <2>4
<1> QED
  BY <1>4

------------------------------------------------------------------------------
\* A page, of whatever rows B lie behind the cursor.

LEMMA FirstIsInitial ==
  ASSUME NEW S \in SUBSET Rows, IsFiniteSet(S), NEW n \in Nat
  PROVE  /\ First(n, S) \in SUBSET S
         /\ \A y \in First(n, S), x \in S : ~After(x, y) => x \in First(n, S)
<1>1. \A x \in Rows : Below(S, x) = {y \in S : After(x, y)}
  BY DEF Below
<1>2. \A x \in S : x \in First(n, S) <=> Cardinality(Below(S, x)) < n
  BY <1>1 DEF First
<1>3. First(n, S) \in SUBSET S
  BY DEF First
<1>4. ASSUME NEW y \in First(n, S), NEW x \in S, ~After(x, y) PROVE x \in First(n, S)
  <2>1. /\ Cardinality(Below(S, x)) <= Cardinality(Below(S, y))
        /\ Cardinality(Below(S, x)) \in Nat /\ Cardinality(Below(S, y)) \in Nat
    BY <1>3, <1>4, BelowGrows
  <2>2. Cardinality(Below(S, y)) < n
    BY <1>2, <1>3
  <2> QED
    BY <1>2, <2>1, <2>2
<1> QED
  BY <1>3, <1>4

\* Where something is left out, n rows are in.
LEMMA FirstIsFull ==
  ASSUME NEW S \in SUBSET Rows, IsFiniteSet(S), NEW n \in Nat, First(n, S) # S
  PROVE  Cardinality(First(n, S)) >= n
<1>1. First(n, S) \in SUBSET S
  BY FirstIsInitial
<1>2. PICK x \in S \ First(n, S) : \A y \in S \ First(n, S) : ~After(x, y)
  <2>1. S \ First(n, S) # {} /\ S \ First(n, S) \in SUBSET Rows
    BY <1>1
  <2> QED
    BY <2>1, Least
<1>3. Below(S, x) \in SUBSET First(n, S)
  BY <1>2 DEF Below
<1>4. Cardinality(Below(S, x)) >= n
  <2>1. ~(Cardinality(Below(S, x)) < n)
    BY <1>2 DEF First, Below
  <2> QED
    BY <1>2, <2>1, BelowGrows
<1>5. First(n, S) \in SUBSET S /\ IsFiniteSet(First(n, S))
  BY <1>1, Smaller
<1> HIDE DEF First
<1> QED
  BY <1>3, <1>4, <1>5, Smaller

LEMMA PageFacts ==
  ASSUME NEW B \in SUBSET Rows, IsFiniteSet(B), NEW rows, NEW page,
         rows = First(Limit + 1, B), page = First(Limit, rows)
  PROVE  /\ page \in SUBSET B /\ IsFiniteSet(page)
         /\ \A y \in page, x \in B : ~After(x, y) => x \in page
         /\ rows # page => page # {}
         /\ rows = page => page = B
<1>1. Limit \in Nat /\ Limit > 0 /\ Limit + 1 \in Nat
  BY ReadsAssumption
<1>2. /\ rows \in SUBSET B /\ IsFiniteSet(rows)
      /\ \A y \in rows, x \in B : ~After(x, y) => x \in rows
  BY <1>1, FirstIsInitial, Smaller
<1>3. /\ page \in SUBSET rows /\ IsFiniteSet(page)
      /\ \A y \in page, x \in rows : ~After(x, y) => x \in page
  BY <1>1, <1>2, FirstIsInitial, Smaller
<1>4. ASSUME rows # page PROVE page # {}
  <2>1. Cardinality(page) >= Limit
    BY <1>1, <1>2, <1>4, FirstIsFull
  <2> QED
    BY <1>1, <2>1, FS_EmptySet
<1>5. ASSUME rows = page, page # B PROVE FALSE
  <2>1. Cardinality(rows) >= Limit + 1
    BY <1>1, <1>5, FirstIsFull
  <2>2. rows # {}
    BY <1>1, <2>1, FS_EmptySet
  <2>3. PICK x \in rows : \A y \in rows : ~After(y, x)
    BY <1>2, <2>2, Greatest
  <2>4. Below(rows, x) = rows \ {x}
    BY <1>2, <2>3, AfterOrders DEF Below
  <2>5. Cardinality(rows \ {x}) = Cardinality(rows) - 1 /\ Cardinality(rows) \in Nat
    BY <1>2, FS_RemoveElement, FS_CardinalityType
  <2>6. Cardinality(Below(rows, x)) < Limit
    BY <1>5 DEF First, Below
  <2> QED
    BY <1>1, <2>1, <2>4, <2>5, <2>6
<1> QED
  BY <1>2, <1>3, <1>4, <1>5

------------------------------------------------------------------------------
\* The steps.

LEMMA ReadsInit == Init => ReadsInv
<1> SUFFICES ASSUME Init PROVE RecordsInv /\ WalkInv /\ SummaryInv
  BY InitInv DEF Init, ReadsInv
<1>1. RecordsInv
  BY FS_EmptySet DEF Init, RecordsInv
<1>2. walk = IdleWalk /\ Seen = {} /\ walk.pages = <<>> /\ walk.had = {} /\ walk.more = FALSE
  BY DEF Init, IdleWalk, Seen
<1>3. WalkTypes /\ CursorInv
  BY <1>2 DEF WalkTypes, CursorInv, IdleWalk
<1>4. PagesAscend /\ OldRejectionsAreSeen /\ PagesHaveNoGaps
  BY <1>2 DEF PagesAscend, OldRejectionsAreSeen, PagesHaveNoGaps
<1>5. SummaryInv
  BY DEF Init, SummaryInv, SummaryIsNotBehind, IdleSummary
<1> QED
  BY <1>1, <1>3, <1>4, <1>5 DEF WalkInv

\* The rows that a batch inserts.
LEMMA InsertedRows ==
  ASSUME RecordsInv, NEW i \in Imports, NEW lo \in Nat, NEW hi \in Nat,
         InsertRecords(i, lo, hi)
  PROVE  /\ records' \in [Imports -> SUBSET Rows]
         /\ \A j \in Imports \ {i} : records'[j] = records[j]
         /\ records[i] \subseteq records'[i]
         /\ IsFiniteSet(records'[i])
         /\ \A x \in records'[i] \ records[i] : x[1] > lo /\ x[1] <= hi
<1>1. PICK id \in [Rejected(i, lo, hi) -> Ids] :
        records' = [records EXCEPT ![i] = @ \cup {<<n, id[n]>> : n \in Rejected(i, lo, hi)}]
  BY DEF InsertRecords
<1> DEFINE new == {<<n, id[n]>> : n \in Rejected(i, lo, hi)}
<1>2. \A n \in Rejected(i, lo, hi) : n \in Nat /\ n > lo /\ n <= hi /\ id[n] \in Nat
  <2>1. \A n \in Rejected(i, lo, hi) : id[n] \in Nat
    BY ReadsAssumption
  <2> QED
    BY <2>1 DEF Rejected
<1>3. new \in SUBSET Rows /\ \A x \in new : x[1] > lo /\ x[1] <= hi
  BY <1>2 DEF Rows
<1>4. IsFiniteSet(new)
  <2>1. IsFiniteSet(Rejected(i, lo, hi))
    BY BatchSets
  <2> DEFINE f == [n \in Rejected(i, lo, hi) |-> <<n, id[n]>>]
  <2>2. f \in Surjection(Rejected(i, lo, hi), new)
    BY DEF Surjection
  <2> HIDE DEF new, f
  <2> QED
    BY <2>1, <2>2, FS_Surjection
<1>5. records'[i] = records[i] \cup new /\ \A j \in Imports \ {i} : records'[j] = records[j]
  BY <1>1 DEF RecordsInv
<1> HIDE DEF new
<1>6. records' \in [Imports -> SUBSET Rows]
  <2>1. /\ records \in [Imports -> SUBSET Rows]
        /\ records' = [records EXCEPT ![i] = records[i] \cup new]
    BY <1>1 DEF RecordsInv, new
  <2>2. records[i] \cup new \in SUBSET Rows
    BY <1>3, <2>1
  <2> QED
    BY <2>1, <2>2
<1>7. IsFiniteSet(records'[i])
  <2>1. IsFiniteSet(records[i])
    BY DEF RecordsInv
  <2>2. IsFiniteSet(records[i] \cup new)
    BY ONLY <2>1, <1>4, FS_Union
  <2> QED
    BY <1>5, <2>2
<1> QED
  BY <1>3, <1>5, <1>6, <1>7

\* Writers only add rows, and none to an unstrayed import before a row it has.
LEMMA RowsAdded ==
  ASSUME StoreInv, RecordsInv, Write
  PROVE  /\ RecordsInv'
         /\ \A i \in Imports : /\ records[i] \subseteq records'[i]
                               /\ i \notin strayed' =>
                                    /\ i \notin strayed
                                    /\ \A x \in records[i], y \in records'[i] \ records[i] :
                                         After(y, x)
         /\ walk' = walk
<1>1. ASSUME NEW i \in Imports, WriteRow(i), UNCHANGED <<records, strayed, readVars>>
      PROVE  /\ RecordsInv' /\ records' = records /\ strayed' = strayed /\ walk' = walk
  <2>1. \A j \in Imports : Exists(j) =>
          Exists(j)' /\ row'[j].checkpoint = row[j].checkpoint
    BY <1>1 DEF WriteRow, CreatePendingImport, AttachUploadedFile, WriteCancellation,
       MarkProcessing, MarkCompleted, MarkFailed, MarkCancelled, SetStatus, Exists,
       StoreInv, StoreTypeOK, Row, NewRow
  <2> QED
    BY <1>1, <2>1 DEF RecordsInv, readVars
<1>2. ASSUME NEW i \in Imports, NEW lo \in Nat, NEW hi \in Nat, lo < hi,
             CommitBatch(i, lo, hi), InsertRecords(i, lo, hi),
             strayed' = IF lo = row[i].checkpoint THEN strayed ELSE strayed \cup {i}
      PROVE  /\ RecordsInv'
             /\ \A j \in Imports : /\ records[j] \subseteq records'[j]
                                   /\ j \notin strayed' =>
                                        /\ j \notin strayed
                                        /\ \A x \in records[j], y \in records'[j] \ records[j] :
                                             After(y, x)
  <2>1. /\ row'[i].checkpoint = hi /\ Exists(i) /\ Exists(i)'
        /\ \A j \in Imports \ {i} : row'[j] = row[j] /\ (Exists(j)' <=> Exists(j))
    BY <1>2 DEF CommitBatch, Exists, StoreInv, StoreTypeOK, Row
  <2>2. /\ records' \in [Imports -> SUBSET Rows]
        /\ \A j \in Imports \ {i} : records'[j] = records[j]
        /\ records[i] \subseteq records'[i]
        /\ IsFiniteSet(records'[i])
        /\ \A x \in records'[i] \ records[i] : x[1] > lo /\ x[1] <= hi
    BY <1>2, InsertedRows
  <2>3. ASSUME i \notin strayed'
        PROVE  lo = row[i].checkpoint /\ i \notin strayed /\ \A x \in records[i] : x[1] <= lo
    BY <1>2, <2>3 DEF RecordsInv
  <2>4. /\ \A x \in records[i] : x[1] \in Nat
        /\ \A x \in records'[i] : x[1] \in Nat
    BY <2>2 DEF Rows, RecordsInv
  <2>5. i \notin strayed' => \A x \in records'[i] : x[1] <= hi
    BY <1>2, <2>2, <2>3, <2>4
  <2>6. i \notin strayed' => \A x \in records[i], y \in records'[i] \ records[i] : After(y, x)
    BY <2>2, <2>3, <2>4 DEF After
  <2>7. \A j \in Imports \ {i} : j \notin strayed' => j \notin strayed
    BY <1>2
  <2>8. RecordsInv'
    <3> SUFFICES ASSUME NEW j \in Imports
                 PROVE  /\ IsFiniteSet(records'[j])
                        /\ records'[j] # {} => Exists(j)'
                        /\ j \notin strayed' => \A x \in records'[j] : x[1] <= row'[j].checkpoint
      BY <2>2 DEF RecordsInv
    <3>1. CASE j = i
      BY <2>1, <2>2, <2>5, <3>1
    <3>2. CASE j # i
      BY <2>1, <2>2, <2>7, <3>2 DEF RecordsInv
    <3> QED
      BY <3>1, <3>2
  <2> QED
    BY <2>2, <2>3, <2>6, <2>7, <2>8
<1>3. ASSUME NEW i \in Imports, Commit(i)
      PROVE  \E lo, hi \in Nat : /\ lo < hi /\ CommitBatch(i, lo, hi) /\ InsertRecords(i, lo, hi)
                                 /\ strayed' = IF lo = row[i].checkpoint THEN strayed
                                               ELSE strayed \cup {i}
  BY <1>3 DEF Commit
<1>4. ASSUME NEW i \in Imports, Commit(i) PROVE walk' = walk
  BY <1>4 DEF Commit, readVars
<1> QED
  BY <1>1, <1>2, <1>3, <1>4 DEF Write

LEMMA WriteKeepsWalk ==
  ASSUME StoreInv, RecordsInv, WalkInv, Write
  PROVE  WalkInv'
<1>1. /\ walk' = walk /\ Seen' = Seen
      /\ \A i \in Imports : records[i] \subseteq records'[i]
  BY RowsAdded DEF Seen
<1>2. WalkTypes' /\ CursorInv'
  BY <1>1 DEF WalkInv, WalkTypes, CursorInv
<1>3. PagesAscend' /\ OldRejectionsAreSeen'
  BY <1>1 DEF WalkInv, PagesAscend, OldRejectionsAreSeen, Passed
<1>4. PagesHaveNoGaps'
  <2> SUFFICES ASSUME walk.import \in Imports \ strayed', NEW x \in records'[walk.import],
                      NEW y \in Seen, ~After(x, y)
               PROVE  x \in Seen
    BY <1>1 DEF PagesHaveNoGaps
  <2>1. y \in records[walk.import]
    BY DEF WalkInv, WalkTypes
  <2>2. walk.import \notin strayed /\ x \in records[walk.import]
    BY <2>1, RowsAdded
  <2> QED
    BY <2>2 DEF WalkInv, PagesHaveNoGaps
<1> QED
  BY <1>2, <1>3, <1>4 DEF WalkInv

LEMMA StartWalkStep ==
  ASSUME RecordsInv, WalkInv, NEW i \in Imports, StartWalk(i)
  PROVE  WalkInv'
<1>1. /\ walk' = [import |-> i, cursor |-> NoCursor, more |-> TRUE, pages |-> <<>>,
                  had |-> records[i]]
      /\ records' = records
  BY DEF StartWalk, IdleWalk
<1>2. walk'.pages = <<>> /\ DOMAIN walk'.pages = {} /\ Seen' = {}
  BY <1>1 DEF Seen
<1>3. WalkTypes' /\ CursorInv'
  BY <1>1, <1>2 DEF WalkTypes, CursorInv
<1>4. PagesAscend' /\ OldRejectionsAreSeen' /\ PagesHaveNoGaps'
  BY <1>1, <1>2 DEF PagesAscend, OldRejectionsAreSeen, PagesHaveNoGaps, Passed
<1> QED
  BY <1>3, <1>4 DEF WalkInv

LEMMA LastIsLast ==
  ASSUME NEW S \in SUBSET Rows, IsFiniteSet(S), S # {}
  PROVE  Last(S) \in S /\ \A y \in S : ~After(y, Last(S))
BY Greatest DEF Last

LEMMA NextPageStep ==
  ASSUME RecordsInv, WalkInv, NextPage
  PROVE  WalkInv'
<1> DEFINE i == walk.import
           behind == Behind(i, walk.cursor)
           rows == First(Limit + 1, behind)
           page == First(Limit, rows)
<1>1. /\ walk.more
      /\ walk'.pages = Append(walk.pages, page)
      /\ walk'.more = (rows # page)
      /\ walk'.cursor = IF rows # page THEN Last(page) ELSE NoCursor
      /\ walk'.import = i /\ walk'.had = walk.had
      /\ walk' = [import |-> walk'.import, cursor |-> walk'.cursor, more |-> walk'.more,
                  pages |-> walk'.pages, had |-> walk'.had]
      /\ records' = records /\ strayed' = strayed
  BY DEF NextPage, CursorOf, WalkInv, WalkTypes
<1>2. /\ i \in Imports /\ walk.pages \in Seq(SUBSET Rows)
      /\ Seen \subseteq records[i] /\ walk.had \subseteq records[i]
      /\ records[i] \in SUBSET Rows /\ IsFiniteSet(records[i])
  BY <1>1 DEF WalkInv, WalkTypes, IdleWalk, RecordsInv
<1>3. behind \in SUBSET records[i] /\ behind \in SUBSET Rows /\ IsFiniteSet(behind)
  <2>1. behind \in SUBSET records[i]
    BY DEF Behind
  <2> HIDE DEF behind
  <2> QED
    BY <1>2, <2>1, Smaller
\* Behind the cursor lies what lies behind everything that was sent.
<1>4. \A x \in records[i] : x \in behind <=> \A y \in Seen : After(x, y)
  <2>1. CASE walk.cursor = NoCursor
    <3>1. Seen = {}
      BY <1>1, <2>1 DEF WalkInv, CursorInv, Seen
    <3> QED
      BY <2>1, <3>1 DEF Behind
  <2>2. CASE walk.cursor # NoCursor
    <3>1. walk.cursor \in Seen /\ \A y \in Seen : ~After(y, walk.cursor)
      BY <1>1, <2>2 DEF WalkInv, CursorInv
    <3>2. \A x \in records[i] : x \in behind <=> After(x, walk.cursor)
      BY <2>2 DEF Behind
    <3>3. \A x \in records[i], y \in Seen : After(x, walk.cursor) => After(x, y)
      BY <1>2, <3>1, AfterOrders
    <3> QED
      BY <3>1, <3>2, <3>3
  <2> QED
    BY <2>1, <2>2
<1> HIDE DEF behind
<1>5. /\ page \in SUBSET behind /\ IsFiniteSet(page)
      /\ \A y \in page, x \in behind : ~After(x, y) => x \in page
      /\ rows # page => page # {}
      /\ rows = page => page = behind
  BY <1>3, PageFacts
<1> HIDE DEF rows, page
<1>6. Seen' = Seen \cup page
  BY <1>1, <1>2, <1>3, <1>5 DEF Seen
<1>7. WalkTypes'
  BY <1>1, <1>2, <1>3, <1>5, <1>6 DEF WalkTypes
<1>8. CursorInv'
  <2> SUFFICES ASSUME rows # page
               PROVE  /\ Last(page) # NoCursor
                      /\ Last(page) \in Seen' /\ \A y \in Seen' : ~After(y, Last(page))
    BY <1>1 DEF CursorInv
  <2>1. page \in SUBSET Rows
    BY <1>3, <1>5
  <2>2. Last(page) \in page /\ \A y \in page : ~After(y, Last(page))
    BY <1>5, <2>1, LastIsLast
  <2>5. Last(page) # NoCursor
    BY <2>1, <2>2 DEF Rows, NoCursor
  <2>3. \A y \in Seen : After(Last(page), y)
    BY <1>3, <1>4, <1>5, <2>2
  <2>4. \A y \in Seen : ~After(y, Last(page))
    BY <1>2, <2>1, <2>2, <2>3, AfterOrders
  <2> QED
    BY <1>6, <2>2, <2>4, <2>5
<1>9. PagesAscend'
  <2> SUFFICES ASSUME NEW a \in DOMAIN walk'.pages, NEW b \in DOMAIN walk'.pages, a < b,
                      NEW x \in walk'.pages[a], NEW y \in walk'.pages[b]
               PROVE  After(y, x)
    BY DEF PagesAscend, After
  <2>1. a \in DOMAIN walk.pages /\ walk'.pages[a] = walk.pages[a]
    BY <1>1, <1>2
  <2>2. CASE b \in DOMAIN walk.pages
    BY <1>1, <1>2, <2>1, <2>2 DEF WalkInv, PagesAscend
  <2>3. CASE b \notin DOMAIN walk.pages
    <3>1. y \in page
      BY <1>1, <1>2, <2>3
    <3>2. x \in Seen
      BY <2>1 DEF Seen
    <3> QED
      BY <1>3, <1>4, <1>5, <3>1, <3>2
  <2> QED
    BY <2>2, <2>3
\* Who was not sent before, and is not after all that is sent now, is sent now.
<1>10. ASSUME NEW x \in records[i], NEW y \in Seen', ~After(x, y),
              (\E z \in Seen : ~After(x, z)) => x \in Seen
       PROVE  x \in Seen'
  <2>1. CASE \E z \in Seen : ~After(x, z)
    BY <1>6, <1>10, <2>1
  <2>2. CASE \A z \in Seen : After(x, z)
    <3>1. x \in behind /\ y \in page
      BY <1>4, <1>6, <1>10, <2>2
    <3> QED
      BY <1>5, <1>6, <1>10, <3>1
  <2> QED
    BY <2>1, <2>2
<1>11. OldRejectionsAreSeen'
  <2> SUFFICES ASSUME NEW x \in walk.had, Passed(x)' PROVE x \in Seen'
    BY <1>1 DEF OldRejectionsAreSeen
  <2>1. x \in records[i] /\ ((\E z \in Seen : ~After(x, z)) => x \in Seen)
    BY <1>1, <1>2 DEF WalkInv, OldRejectionsAreSeen, Passed
  <2>2. CASE rows # page
    <3>1. \E y \in Seen' : ~After(x, y)
      BY <1>1, <2>2 DEF Passed, After
    <3> QED
      BY <1>10, <2>1, <3>1
  <2>3. CASE rows = page
    BY <1>4, <1>5, <1>6, <2>1, <2>3
  <2> QED
    BY <2>2, <2>3
<1>12. PagesHaveNoGaps'
  <2> SUFFICES ASSUME i \in Imports \ strayed, NEW x \in records[i],
                      NEW y \in Seen', ~After(x, y)
               PROVE  x \in Seen'
    BY <1>1 DEF PagesHaveNoGaps, After
  <2>1. (\E z \in Seen : ~After(x, z)) => x \in Seen
    BY DEF WalkInv, PagesHaveNoGaps
  <2> QED
    BY <1>10, <2>1
<1> QED
  BY <1>7, <1>8, <1>9, <1>11, <1>12 DEF WalkInv

------------------------------------------------------------------------------
\* The summary.

\* The function that SumOf is defined with.
SumsUp(sum, g) ==
  sum = [T \in SUBSET DOMAIN g |->
           IF T = {} THEN 0
           ELSE g[CHOOSE v \in T : TRUE] + sum[T \ {CHOOSE v \in T : TRUE}]]

\* However a set is grouped, the groups have as many elements as the set.
LEMMA GroupsAreAll ==
  ASSUME NEW S, IsFiniteSet(S), NEW f
  PROVE  SumOf([v \in {f[n] : n \in S} |-> Cardinality({n \in S : f[n] = v})])
           = Cardinality(S)
<1> DEFINE V == {f[n] : n \in S}
           g == [v \in V |-> Cardinality({n \in S : f[n] = v})]
           size == [T \in SUBSET V |-> Cardinality({n \in S : f[n] \in T})]
           Q(sum) == {T \in SUBSET V : sum[T] # size[T]}
<1>1. size[{}] = 0 /\ size[V] = Cardinality(S)
  <2>1. {n \in S : f[n] \in {}} = {} /\ {n \in S : f[n] \in V} = S
    OBVIOUS
  <2> QED
    BY <2>1, FS_EmptySet
<1>2. ASSUME NEW T \in SUBSET V, NEW v \in T PROVE size[T] = g[v] + size[T \ {v}]
  <2> DEFINE one == {n \in S : f[n] = v}
             rest == {n \in S : f[n] \in T \ {v}}
  <2>1. {n \in S : f[n] \in T} = one \cup rest /\ one \cap rest = {}
    OBVIOUS
  <2>2. /\ IsFiniteSet(one) /\ Cardinality(one) \in Nat
        /\ IsFiniteSet(rest) /\ Cardinality(rest) \in Nat
    <3>1. one \in SUBSET S /\ rest \in SUBSET S
      OBVIOUS
    <3> HIDE DEF one, rest
    <3> QED
      BY <3>1, Smaller
  <2>3. size[T] = Cardinality(one \cup rest) /\ g[v] = Cardinality(one)
        /\ size[T \ {v}] = Cardinality(rest)
    BY <2>1
  <2> HIDE DEF one, rest, size, g
  <2>4. Cardinality(one \cup rest) = Cardinality(one) + Cardinality(rest) - 0
    BY <2>1, <2>2, FS_Union, FS_EmptySet
  <2> QED
    BY <2>2, <2>3, <2>4
<1>3. DOMAIN g = V /\ IsFiniteSet(V)
  <2> DEFINE m == [n \in S |-> f[n]]
  <2>1. m \in Surjection(S, V)
    BY DEF Surjection
  <2> HIDE DEF m, V
  <2>2. IsFiniteSet(V)
    BY <2>1, FS_Surjection
  <2> QED
    BY <2>2
<1> HIDE DEF size, g, V
<1>4. SumsUp(size, g)
  <2>1. \A T \in SUBSET V : T # {} => (CHOOSE v \in T : TRUE) \in T
    OBVIOUS
  <2>2. size = [T \in SUBSET V |-> size[T]]
    BY DEF size
  <2> QED
    BY <1>1, <1>2, <1>3, <2>1, <2>2, ZenonT(60) DEF SumsUp
<1>5. PICK sum : SumsUp(sum, g) /\ SumOf(g) = sum[V]
  <2>1. SumOf(g) = (CHOOSE sum : SumsUp(sum, g))[DOMAIN g]
    BY DEF SumOf, MapThenSumSet, MapThenFoldSet, SumsUp
  <2> QED
    BY <1>3, <1>4, <2>1
<1>6. ASSUME Q(sum) # {} PROVE FALSE
  <2>1. Q(sum) \in SUBSET (SUBSET V)
    OBVIOUS
  <2> HIDE DEF Q
  <2>2. PICK T \in Q(sum) : \A v \in T : T \ {v} \notin Q(sum)
    BY <1>3, <1>6, <2>1, SmallestSubset
  <2> USE DEF Q
  <2>3. T # {}
    BY <1>1, <1>3, <1>5, <2>2 DEF SumsUp
  <2>4. PICK v \in T : sum[T] = g[v] + sum[T \ {v}]
    BY <1>3, <1>5, <2>3 DEF SumsUp
  <2> QED
    BY <1>2, <2>2, <2>4
<1> QED
  BY <1>1, <1>5, <1>6 DEF V, g

LEMMA GroupByAddsUp ==
  ASSUME StoreInv, NEW i \in Imports, NEW of
  PROVE  /\ SumOf(GroupBy(i, of)) = Cardinality(stored[i])
         /\ IsFiniteSet(stored[i]) /\ Cardinality(stored[i]) \in Nat
<1>1. stored[i] \in SUBSET (1 .. Len(File[i])) /\ Len(File[i]) \in Nat
  BY FileAssumption DEF StoreInv, StoreTypeOK, Lines
<1>2. IsFiniteSet(1 .. Len(File[i]))
  BY <1>1, FS_Interval
<1>3. IsFiniteSet(stored[i]) /\ Cardinality(stored[i]) \in Nat
  BY <1>1, <1>2, Smaller
<1> DEFINE f == of[i]
           S == stored[i]
<1>4. GroupBy(i, of) = [v \in {f[n] : n \in S} |-> Cardinality({n \in S : f[n] = v})]
  BY DEF GroupBy
<1> HIDE DEF f, S
<1>5. SumOf(GroupBy(i, of)) = Cardinality(S)
  BY <1>3, <1>4, GroupsAreAll DEF S
<1> QED
  BY <1>3, <1>5 DEF S

\* Nothing that was read falls out of its bounds while rows are added.
LEMMA RowsComeLater ==
  ASSUME StoreInv, SummaryInv, [StoreNext]_storeVars, UNCHANGED summary
  PROVE  SummaryInv'
<1>1. CASE summary.read = {}
  BY <1>1 DEF SummaryInv, SummaryIsNotBehind
<1>2. CASE summary.read # {}
  <2> DEFINE i == summary.import
  <2>1. i \in Imports /\ stored[i] \subseteq stored'[i]
    BY <1>2, StoredGrows DEF SummaryInv
  <2>2. /\ IsFiniteSet(stored[i]) /\ Cardinality(stored[i]) \in Nat
        /\ IsFiniteSet(stored'[i]) /\ Cardinality(stored'[i]) \in Nat
    <3>1. StoreInv'
      BY NextInv
    <3>2. \A j \in Imports : stored'[j] \in SUBSET (1 .. Len(File[j])) /\ Len(File[j]) \in Nat
      BY <3>1, FileAssumption DEF StoreInv, StoreTypeOK, Lines
    <3>3. IsFiniteSet(1 .. Len(File[i]))
      BY <2>1, <3>2, FS_Interval
    <3>4. IsFiniteSet(stored'[i]) /\ Cardinality(stored'[i]) \in Nat
      BY <2>1, <3>2, <3>3, Smaller
    <3> QED
      BY <2>1, <3>4, Smaller
  <2>3. Cardinality(stored[i]) <= Cardinality(stored'[i])
    BY <2>1, <2>2, Smaller
  <2>4. /\ summary.accepted \in Nat
        /\ summary.accepted <= Cardinality(stored[i])
    BY <1>2 DEF SummaryInv
  <2>5. summary.accepted .. Cardinality(stored[i]) \subseteq
          summary.accepted .. Cardinality(stored'[i])
    BY <2>2, <2>3, <2>4
  <2> QED
    BY <2>1, <2>2, <2>3, <2>4, <2>5 DEF SummaryInv, SummaryIsNotBehind
<1> QED
  BY <1>1, <1>2

LEMMA SummaryStep ==
  ASSUME StoreInv, SummaryInv, UNCHANGED storeVars,
         \/ \E i \in Imports : StartSummary(i)
         \/ ReadTotals \/ ReadByCurrency \/ ReadByRiskLevel
  PROVE  SummaryInv'
<1>1. stored' = stored /\ row' = row
  BY DEF storeVars
<1>2. ASSUME NEW i \in Imports, StartSummary(i) PROVE SummaryInv'
  BY <1>2 DEF StartSummary, SummaryInv, SummaryIsNotBehind, IdleSummary
<1>3. ASSUME ReadTotals PROVE SummaryInv'
  <2>1. summary.read = {} /\ summary.import \in Imports
    BY <1>3 DEF ReadTotals, SummaryInv
  <2>2. row[summary.import].accepted = Cardinality(stored[summary.import])
        /\ Cardinality(stored[summary.import]) \in Nat
    BY <2>1, GroupByAddsUp DEF StoreInv, AcceptedMatchesRows
  <2>3. summary' = [import |-> summary.import, read |-> {"totals"},
                    accepted |-> row[summary.import].accepted,
                    byCurrency |-> summary.byCurrency, byRiskLevel |-> summary.byRiskLevel]
    BY <1>3, <2>1 DEF ReadTotals, SummaryInv
  <2> QED
    BY <1>1, <2>1, <2>2, <2>3 DEF SummaryInv, SummaryIsNotBehind
<1>4. ASSUME ReadByCurrency PROVE SummaryInv'
  <2> DEFINE i == summary.import
  <2>1. /\ i \in Imports /\ summary.accepted \in Nat
        /\ summary.accepted <= Cardinality(stored[i])
    BY <1>4 DEF ReadByCurrency, AfterTotals, SummaryInv
  <2>2. SumOf(GroupBy(i, CurrencyOf)) \in summary.accepted .. Cardinality(stored[i])
    BY <2>1, GroupByAddsUp
  <2>3. summary' = [import |-> i, read |-> summary.read \cup {"byCurrency"},
                    accepted |-> summary.accepted,
                    byCurrency |-> GroupBy(i, CurrencyOf),
                    byRiskLevel |-> summary.byRiskLevel]
    BY <1>4 DEF ReadByCurrency, SummaryInv
  <2> QED
    BY <1>1, <1>4, <2>1, <2>2, <2>3 DEF SummaryInv, SummaryIsNotBehind, ReadByCurrency, AfterTotals
<1>5. ASSUME ReadByRiskLevel PROVE SummaryInv'
  <2> DEFINE i == summary.import
  <2>1. /\ i \in Imports /\ summary.accepted \in Nat
        /\ summary.accepted <= Cardinality(stored[i])
    BY <1>5 DEF ReadByRiskLevel, AfterTotals, SummaryInv
  <2>2. SumOf(GroupBy(i, LevelOf)) \in summary.accepted .. Cardinality(stored[i])
    BY <2>1, GroupByAddsUp
  <2>3. summary' = [import |-> i, read |-> summary.read \cup {"byRiskLevel"},
                    accepted |-> summary.accepted, byCurrency |-> summary.byCurrency,
                    byRiskLevel |-> GroupBy(i, LevelOf)]
    BY <1>5 DEF ReadByRiskLevel, SummaryInv
  <2> QED
    BY <1>1, <1>5, <2>1, <2>2, <2>3 DEF SummaryInv, SummaryIsNotBehind, ReadByRiskLevel, AfterTotals
<1> QED
  BY <1>2, <1>3, <1>4, <1>5

------------------------------------------------------------------------------
\* Every step.

\* What readers and writers do to the tables is what the store allows.
LEMMA NextIsStoreNext == [Next]_vars => [StoreNext]_storeVars
<1>1. ASSUME Read PROVE UNCHANGED storeVars
  BY <1>1 DEF Read, StartWalk, NextPage, StartSummary, ReadTotals, ReadByCurrency,
     ReadByRiskLevel
<1>2. ASSUME Write PROVE StoreNext
  BY <1>2 DEF Write, Commit, StoreNext
<1> QED
  BY <1>1, <1>2 DEF Next, vars

LEMMA ReadsStep == ReadsInv /\ [Next]_vars => ReadsInv'
<1> SUFFICES ASSUME ReadsInv, [Next]_vars PROVE ReadsInv'
  OBVIOUS
<1>1. StoreInv /\ StoreInv' /\ RecordsInv /\ WalkInv /\ SummaryInv /\ [StoreNext]_storeVars
  BY NextInv, NextIsStoreNext DEF ReadsInv
<1>2. ASSUME UNCHANGED <<storeVars, records, strayed>> PROVE RecordsInv'
  BY <1>1, <1>2 DEF RecordsInv, Exists, storeVars
<1>3. ASSUME UNCHANGED <<records, strayed, walk>> PROVE WalkInv'
  BY <1>1, <1>3 DEF WalkInv, WalkTypes, CursorInv, PagesAscend, OldRejectionsAreSeen,
     PagesHaveNoGaps, Passed, Seen
<1>4. CASE Write
  <2>1. RecordsInv' /\ WalkInv'
    BY <1>1, <1>4, RowsAdded, WriteKeepsWalk
  <2>2. UNCHANGED summary
    BY <1>4 DEF Write, Commit, readVars
  <2> QED
    BY <1>1, <2>1, <2>2, RowsComeLater DEF ReadsInv
<1>5. ASSUME NEW i \in Imports, StartWalk(i) PROVE ReadsInv'
  <2>1. UNCHANGED <<storeVars, records, strayed, summary>>
    BY <1>5 DEF StartWalk
  <2> QED
    BY <1>1, <1>2, <1>5, <2>1, StartWalkStep, RowsComeLater DEF ReadsInv
<1>6. CASE NextPage
  <2>1. UNCHANGED <<storeVars, records, strayed, summary>>
    BY <1>6 DEF NextPage
  <2> QED
    BY <1>1, <1>2, <1>6, <2>1, NextPageStep, RowsComeLater DEF ReadsInv
<1>7. CASE \/ \E i \in Imports : StartSummary(i)
           \/ ReadTotals \/ ReadByCurrency \/ ReadByRiskLevel
  <2>1. UNCHANGED <<storeVars, records, strayed, walk>>
    BY <1>7 DEF StartSummary, ReadTotals, ReadByCurrency, ReadByRiskLevel
  <2>2. SummaryInv'
    BY <1>1, <1>7, <2>1, SummaryStep
  <2> QED
    BY <1>1, <1>2, <1>3, <2>1, <2>2 DEF ReadsInv
<1>8. CASE UNCHANGED vars
  <2>1. UNCHANGED <<storeVars, records, strayed, walk, summary>>
    BY <1>8 DEF vars
  <2> QED
    BY <1>1, <1>2, <1>3, <2>1, RowsComeLater DEF ReadsInv
<1> QED
  BY <1>4, <1>5, <1>6, <1>7, <1>8 DEF Next, Read

LEMMA ReadsAlways == Spec => []ReadsInv
BY ReadsInit, ReadsStep, PTL DEF Spec

\* Readers change no table, and writers write nothing that the store does not
\* allow: every theorem about StoreSpec holds beside them.
THEOREM ReadersKeepTheStore == Spec => StoreSpec
<1>1. Init => StoreInit
  BY DEF Init
<1> QED
  BY <1>1, NextIsStoreNext, PTL DEF Spec, StoreSpec

\* Following nextCursor of getRejections (imports.repository.ts) leads strictly
\* upwards in (lineNumber, id): no rejection is sent twice, whatever is inserted
\* between two requests.
THEOREM PagesAreInOrder == Spec => []PagesAscend
<1>1. ReadsInv => PagesAscend
  BY DEF ReadsInv, WalkInv
<1> QED
  BY ReadsAlways, <1>1, PTL

\* getRejections passes over no rejection that was there when the client sent
\* its first request, for any page size and any ids.
THEOREM NothingIsPassedOver == Spec => []OldRejectionsAreSeen
<1>1. ReadsInv => OldRejectionsAreSeen
  BY DEF ReadsInv, WalkInv
<1> QED
  BY ReadsAlways, <1>1, PTL

\* Where every batch of an import begins at its checkpoint, no rejection comes to
\* lie before a row that getRejections has sent.
THEOREM NothingSlipsIn == Spec => []PagesHaveNoGaps
<1>1. ReadsInv => PagesHaveNoGaps
  BY DEF ReadsInv, WalkInv
<1> QED
  BY ReadsAlways, <1>1, PTL

\* The groups of getSummary (imports.repository.ts) add up to at least the
\* accepted count it reports, and to no more transactions than there are.
THEOREM GroupsCoverTheTotal == Spec => []SummaryIsNotBehind
<1>1. ReadsInv => SummaryIsNotBehind
  BY DEF ReadsInv, SummaryInv
<1> QED
  BY ReadsAlways, <1>1, PTL
==============================================================================
