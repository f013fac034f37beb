----------------------------- MODULE ImportReads -----------------------------
(* The read side of the import repository, beside any writers: a client pages *)
(* through the rejections of an import, and a client asks for its summary.    *)
(*                                                                            *)
(* One step is one SQL statement.  The pages of one walk are separate         *)
(* requests, and the three statements of a summary share no transaction:      *)
(* writers come between any two of them.                                      *)
EXTENDS ImportStore, FiniteSetsExt

CONSTANTS Ids,         \* ids of rejected_record rows, in the order of their uuids;
                       \* bound: how often a line can be rejected
          Limit,       \* the page size that the client asks for
          CurrencyOf,  \* the currency of each line of each import
          LevelOf      \* the risk level of each line of each import

ASSUME ReadsAssumption == Ids \subseteq Nat /\ Limit \in Nat \ {0}

VARIABLES records,   \* records[i]: the rejected_record rows of i, <<line, id>>
          strayed,   \* imports that had a batch committed from elsewhere than
                     \* their checkpoint (history)
          walk,      \* the client that pages through the rejections
          summary    \* the client that asks for a summary

readVars == <<walk, summary>>
vars == <<storeVars, records, strayed, walk, summary>>

NoCursor == <<>>
NoImport == "none"

\* pages: the pages the client was sent, each the set of its rows; had: the rows
\* there were when it began.
IdleWalk == [import |-> NoImport, cursor |-> NoCursor, more |-> FALSE, pages |-> <<>>,
             had |-> {}]

\* read: the parts of the summary that have been read.
IdleSummary == [import |-> NoImport, read |-> {}, accepted |-> 0,
                byCurrency |-> <<>>, byRiskLevel |-> <<>>]

Init == /\ StoreInit
        /\ records = [i \in Imports |-> {}]
        /\ strayed = {}
        /\ walk = IdleWalk
        /\ summary = IdleSummary

------------------------------------------------------------------------------
\* The writers.

\* Ids are random: those of one insert may lie anywhere among the others.
InsertRecords(i, lo, hi) ==
  \E id \in [Rejected(i, lo, hi) -> Ids] :
    LET new == {<<n, id[n]>> : n \in Rejected(i, lo, hi)}
    IN new \cap records[i] = {} /\ records' = [records EXCEPT ![i] = @ \cup new]

Commit(i) ==
  /\ \E lo, hi \in 0 .. Len(File[i]) :
       /\ lo < hi
       /\ CommitBatch(i, lo, hi)
       /\ InsertRecords(i, lo, hi)
       /\ strayed' = IF lo = row[i].checkpoint THEN strayed ELSE strayed \cup {i}
  /\ UNCHANGED readVars

Write == \E i \in Imports :
  \/ WriteRow(i) /\ UNCHANGED <<records, strayed, readVars>>
  \/ Commit(i)

------------------------------------------------------------------------------
\* getRejections: keyset pagination over (lineNumber, id).

\* x comes after y.  Mutants: the line alone decides, so that rows of one line
\* tie; or the random id does.
AfterLine(x, y) == x[1] > y[1]
AfterId(x, y) == x[2] > y[2]
After(x, y) == x[1] > y[1] \/ (x[1] = y[1] /\ x[2] > y[2])

\* Mutant: the row that the cursor names is included.
FromCursor(i, cursor) ==
  {x \in records[i] : cursor = NoCursor \/ x = cursor \/ After(x, cursor)}
Behind(i, cursor) == {x \in records[i] : cursor = NoCursor \/ After(x, cursor)}

\* orderBy and take: the n rows of S that come first.
First(n, S) == {x \in S : Cardinality({y \in S : After(x, y)}) < n}

Last(S) == CHOOSE x \in S : \A y \in S : ~After(y, x)

\* One row more than the page holds is fetched, to see whether there are more.
\* Mutant: the cursor names that row, and not the last one of the page.
CursorOfFetched(rows, page) == Last(rows)
CursorOf(rows, page) == Last(page)

NextPage ==
  LET rows == First(Limit + 1, Behind(walk.import, walk.cursor))
      page == First(Limit, rows)
      more == rows # page
  IN /\ walk.more
     /\ walk' = [walk EXCEPT !.pages = Append(@, page),
                             !.more = more,
                             !.cursor = IF more THEN CursorOf(rows, page) ELSE NoCursor]
     /\ UNCHANGED <<storeVars, records, strayed, summary>>

\* The first request names no cursor; it is answered with 404 without the row.
StartWalk(i) ==
  /\ walk.import = NoImport
  /\ Exists(i)
  /\ walk' = [IdleWalk EXCEPT !.import = i, !.more = TRUE, !.had = records[i]]
  /\ UNCHANGED <<storeVars, records, strayed, summary>>

------------------------------------------------------------------------------
\* getSummary: the row, then two group-bys that run side by side.

StartSummary(i) ==
  /\ summary.import = NoImport
  /\ Exists(i)
  /\ summary' = [IdleSummary EXCEPT !.import = i]
  /\ UNCHANGED <<storeVars, records, strayed, walk>>

\* The rows of the transaction table by an attribute of their lines.
GroupBy(i, of) ==
  [v \in {of[i][n] : n \in stored[i]} |-> Cardinality({n \in stored[i] : of[i][n] = v})]

ReadTotals ==
  /\ summary.import # NoImport
  /\ "totals" \notin summary.read
  /\ summary' = [summary EXCEPT !.read = @ \cup {"totals"},
                                !.accepted = row[summary.import].accepted]
  /\ UNCHANGED <<storeVars, records, strayed, walk>>

\* Mutant: the groups are read beside the row.
AtOnce == summary.import # NoImport
AfterTotals == "totals" \in summary.read

ReadByCurrency ==
  /\ AfterTotals
  /\ "byCurrency" \notin summary.read
  /\ summary' = [summary EXCEPT !.read = @ \cup {"byCurrency"},
                                !.byCurrency = GroupBy(summary.import, CurrencyOf)]
  /\ UNCHANGED <<storeVars, records, strayed, walk>>

ReadByRiskLevel ==
  /\ AfterTotals
  /\ "byRiskLevel" \notin summary.read
  /\ summary' = [summary EXCEPT !.read = @ \cup {"byRiskLevel"},
                                !.byRiskLevel = GroupBy(summary.import, LevelOf)]
  /\ UNCHANGED <<storeVars, records, strayed, walk>>

Read == \/ \E i \in Imports : StartWalk(i) \/ StartSummary(i)
        \/ NextPage
        \/ ReadTotals \/ ReadByCurrency \/ ReadByRiskLevel

Next == Write \/ Read

Spec == Init /\ [][Next]_vars

------------------------------------------------------------------------------
\* Properties.

Seen == UNION {walk.pages[k] : k \in DOMAIN walk.pages}

\* The walk has gone past row x: x is not behind the last row that the client
\* was sent, or the last page has come.
Passed(x) == IF walk.more THEN \E y \in Seen : ~After(x, y) ELSE walk.pages # <<>>

\* A client that follows nextCursor is sent no row twice, and each page lies
\* behind the one before, whatever is committed between its requests and
\* however often a line was rejected.
PagesAscend ==
  \A a, b \in DOMAIN walk.pages : a < b =>
    \A x \in walk.pages[a], y \in walk.pages[b] : After(y, x)

\* No rejection that was there when the client began is passed over: not between
\* two pages, and not behind the last one.
OldRejectionsAreSeen == \A x \in walk.had : Passed(x) => x \in Seen

\* While the batches of the import are committed one behind the other, as a
\* single worker does, nothing slips in behind the client: what it was sent is
\* every rejection there is up to the last one that it was sent.
PagesHaveNoGaps ==
  walk.import \in Imports \ strayed =>
    \A x \in records[walk.import] : (\E y \in Seen : ~After(x, y)) => x \in Seen

SumOf(groups) == MapThenSumSet(LAMBDA v : groups[v], DOMAIN groups)

\* A summary never lists fewer transactions than its total of accepted ones, by
\* currency or by risk level, and never more than there are: the totals are
\* read first, and transaction rows are added together with their count.
SummaryIsNotBehind ==
  LET bounds == summary.accepted .. Cardinality(stored[summary.import])
  IN /\ "byCurrency" \in summary.read => SumOf(summary.byCurrency) \in bounds
     /\ "byRiskLevel" \in summary.read => SumOf(summary.byRiskLevel) \in bounds
==============================================================================
