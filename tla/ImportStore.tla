----------------------------- MODULE ImportStore -----------------------------
(* The Postgres side of an import, as PrismaImportRepository uses it: the     *)
(* import rows, the transaction table with its (providerId, transactionId)    *)
(* unique index, and the rejected-record table.                               *)
(*                                                                            *)
(* Every SQL statement, or transaction, of the repository that writes is one  *)
(* action.  StoreSpec lets any caller issue any of them at any time: what it  *)
(* satisfies holds however workers, retries and requests overlap.             *)
(*                                                                            *)
(* Abstractions.  An uploaded file is a sequence of lines, and a line is the  *)
(* transactionId it carries when it validates, Bad when it would be rejected  *)
(* and Blank when it is empty.  checkpointOffset and checkpointLineNumber are *)
(* written together from one parsed line, so `checkpoint' stands for both, in *)
(* lines.  A transaction row is named by the import and the line that it was  *)
(* inserted from: its provider and key follow from those.                     *)
EXTENDS Naturals, Sequences, FiniteSets, Bags

CONSTANTS Imports,     \* import ids
          Keys,        \* transactionIds
          Providers,   \* provider ids
          ProviderOf,  \* the provider that each import was submitted for
          File         \* the lines of the file that each import stored

Bad == "bad"
Blank == "blank"

ASSUME ImportsAssumption == IsFiniteSet(Imports)
ASSUME FileAssumption == /\ Bad \notin Keys
                         /\ Blank \notin Keys
                         /\ ProviderOf \in [Imports -> Providers]
                         /\ File \in [Imports -> Seq(Keys \cup {Bad, Blank})]

VARIABLES row,         \* the import rows
          uploaded,    \* imports that have an uploaded_file row
          stored,      \* stored[i]: lines of i that have a transaction row
          rejections   \* rejections[i]: the bag of its rejected_record lines

storeVars == <<row, uploaded, stored, rejections>>

Status == {"none", "pending", "processing", "completed", "failed",
           "cancelling", "cancelled"}
Terminal == {"completed", "failed", "cancelled"}

Row == [status : Status, cancelRequested : BOOLEAN, checkpoint : Nat,
        processed : Nat, accepted : Nat, rejected : Nat, duplicates : Nat]

\* The defaults of a row; with status "none" it stands for no row at all.
NewRow(s) == [status |-> s, cancelRequested |-> FALSE, checkpoint |-> 0,
              processed |-> 0, accepted |-> 0, rejected |-> 0, duplicates |-> 0]

Lines(i) == 1 .. Len(File[i])

StoreTypeOK == /\ row \in [Imports -> Row]
               /\ uploaded \in SUBSET Imports
               /\ stored \in [Imports -> SUBSET Nat]
               /\ \A i \in Imports : stored[i] \subseteq Lines(i)
               /\ DOMAIN rejections = Imports
               /\ \A i \in Imports : IsABag(rejections[i])

------------------------------------------------------------------------------
\* What validateAndScoreBatch makes of the lines after lo up to hi.

Valid(i, lo, hi) == {n \in lo + 1 .. hi : File[i][n] \in Keys}

\* Mutant: blank lines are rejected instead of skipped.
RejectedOrBlank(i, lo, hi) == {n \in lo + 1 .. hi : File[i][n] \notin Keys}
Rejected(i, lo, hi) == {n \in lo + 1 .. hi : File[i][n] = Bad}

\* Mutant: blank lines are counted.
AllLinesIn(i, lo, hi) == hi - lo
ProcessedIn(i, lo, hi) == Cardinality(Valid(i, lo, hi)) + Cardinality(Rejected(i, lo, hi))

------------------------------------------------------------------------------
\* What the statements of a batch do to the tables.

\* Line n of i and line m of j collide in the unique index.
SameKey(i, n, j, m) == /\ ProviderOf[i] = ProviderOf[j]
                       /\ File[i][n] = File[j][m]

HasKey(i, n) == \E j \in Imports : \E m \in stored[j] : SameKey(i, n, j, m)

\* The rows that createMany with skipDuplicates inserts: those whose key is
\* neither in the table nor on an earlier line of the batch.
\* Mutant: the keys of the batch itself are not compared.
NewToTable(i, lo, hi) == {n \in Valid(i, lo, hi) : ~HasKey(i, n)}
NewLines(i, lo, hi) ==
  {n \in Valid(i, lo, hi) :
     /\ ~HasKey(i, n)
     /\ \A m \in Valid(i, lo, hi) : m < n => File[i][m] # File[i][n]}

\* Mutant: a conflict replaces the row that is there.
Upserted(i, lo, hi) ==
  [j \in Imports |->
     LET kept == {n \in stored[j] : ~\E m \in Valid(i, lo, hi) : SameKey(i, m, j, n)}
     IN IF j = i THEN kept \cup Valid(i, lo, hi) ELSE kept]
Inserted(i, lo, hi) == [stored EXCEPT ![i] = @ \cup NewLines(i, lo, hi)]

\* Mutant: rejected records are unique by line.
RejectionsOnce(i, lo, hi) ==
  [rejections EXCEPT ![i] = SetToBag(BagToSet(@) \cup Rejected(i, lo, hi))]
RejectionsAdded(i, lo, hi) ==
  [rejections EXCEPT ![i] = @ (+) SetToBag(Rejected(i, lo, hi))]

\* acceptedCount comes from the database, duplicateCount is the difference.
\* Mutants: what was submitted counts as accepted; the difference is swapped.
SubmittedIn(i, lo, hi) == Cardinality(Valid(i, lo, hi))
AcceptedIn(i, lo, hi) == Cardinality(NewLines(i, lo, hi))

SwappedDifference(i, lo, hi) == AcceptedIn(i, lo, hi) - Cardinality(Valid(i, lo, hi))
DuplicatesIn(i, lo, hi) == Cardinality(Valid(i, lo, hi)) - AcceptedIn(i, lo, hi)

------------------------------------------------------------------------------
\* The operations.  The updates of a row are unconditional in the code.

Exists(i) == row[i].status # "none"

SetStatus(i, s) == /\ Exists(i)
                   /\ row' = [row EXCEPT ![i].status = s]
                   /\ UNCHANGED <<uploaded, stored, rejections>>

CreatePendingImport(i) == /\ ~Exists(i)
                          /\ row' = [row EXCEPT ![i] = NewRow("pending")]
                          /\ UNCHANGED <<uploaded, stored, rejections>>

AttachUploadedFile(i) == /\ Exists(i)
                         /\ i \notin uploaded
                         /\ uploaded' = uploaded \cup {i}
                         /\ UNCHANGED <<row, stored, rejections>>

\* requestCancellation reads the row first and writes it in a second statement.
MayCancel(i) == row[i].status \in {"pending", "processing"}

WriteCancellation(i) ==
  /\ Exists(i)
  /\ row' = [row EXCEPT ![i].status = "cancelling", ![i].cancelRequested = TRUE]
  /\ UNCHANGED <<uploaded, stored, rejections>>

MarkProcessing(i) == SetStatus(i, "processing")
MarkCompleted(i) == SetStatus(i, "completed")
MarkFailed(i) == SetStatus(i, "failed")
MarkCancelled(i) == SetStatus(i, "cancelled")

\* commitBatch first reads the checkpoint, without locking the row: a batch
\* that ends at or before it was committed by an earlier attempt.
\* Mutant: the batch that the checkpoint ends with is committed again.
BeyondIt(i, hi) == row[i].checkpoint > hi
AlreadyCommitted(i, hi) == row[i].checkpoint >= hi

\* The writes of commitBatchOnce, which take effect together when the
\* transaction commits: the lines after lo up to hi.
CommitBatch(i, lo, hi) ==
  /\ Exists(i)
  /\ stored' = Inserted(i, lo, hi)
  /\ rejections' = RejectionsAdded(i, lo, hi)
  /\ row' = [row EXCEPT ![i].processed = @ + ProcessedIn(i, lo, hi),
                        ![i].accepted = @ + AcceptedIn(i, lo, hi),
                        ![i].rejected = @ + Cardinality(Rejected(i, lo, hi)),
                        ![i].duplicates = @ + DuplicatesIn(i, lo, hi),
                        ![i].checkpoint = hi]
  /\ UNCHANGED uploaded

------------------------------------------------------------------------------
\* Every caller, in every order: no assumption on who runs beside whom.

StoreInit == /\ row = [i \in Imports |-> NewRow("none")]
             /\ uploaded = {}
             /\ stored = [i \in Imports |-> {}]
             /\ rejections = [i \in Imports |-> EmptyBag]

\* What is written outside a batch.
WriteRow(i) ==
  \/ CreatePendingImport(i)
  \/ AttachUploadedFile(i)
  \/ WriteCancellation(i)
  \/ MarkProcessing(i)
  \/ MarkCompleted(i)
  \/ MarkFailed(i)
  \/ MarkCancelled(i)

StoreNext ==
  \E i \in Imports :
    \/ WriteRow(i)
    \/ \E lo, hi \in 0 .. Len(File[i]) : lo < hi /\ CommitBatch(i, lo, hi)

StoreSpec == StoreInit /\ [][StoreNext]_storeVars

------------------------------------------------------------------------------
\* Properties of the tables, whoever calls.

\* "processed === accepted + rejected + duplicates always holds"
\* (imports.processor.ts:115): every committed batch, committed twice or by
\* two workers at once, moves the four counters of a row together.
CountsBalance ==
  \A i \in Imports :
    row[i].processed = row[i].accepted + row[i].rejected + row[i].duplicates

\* acceptedCount is the number of transaction rows the import owns: what the
\* progress endpoint reports is what reconciliation finds in the table, also
\* after a batch was replayed or raced with another import for the same keys.
AcceptedMatchesRows ==
  \A i \in Imports : row[i].accepted = Cardinality(stored[i])

\* rejectedCount is the number of rejected_record rows the import owns.
RejectedMatchesRows ==
  \A i \in Imports : row[i].rejected = BagCardinality(rejections[i])

\* No two transaction rows have the same (providerId, transactionId), be they
\* of one batch, of two batches or of two imports of one provider.
UniqueTransactions ==
  \A i, j \in Imports : \A n \in stored[i], m \in stored[j] :
    SameKey(i, n, j, m) => i = j /\ n = m

\* First write wins: the row that holds a key is never replaced by another
\* line's, and never deleted (ARCHITECTURE.md section 5).
FirstWriteWins == [][\A i \in Imports : stored[i] \subseteq stored'[i]]_storeVars

\* Only lines that validate become transactions and only lines that fail
\* validation become rejections: a blank line leaves no trace in any table,
\* and neither does an import without a row.
RowsComeFromTheirLines ==
  \A i \in Imports :
    /\ stored[i] # {} \/ BagToSet(rejections[i]) # {} => Exists(i)
    /\ \A n \in stored[i] : File[i][n] \in Keys
    /\ \A n \in BagToSet(rejections[i]) : n \in Lines(i) /\ File[i][n] = Bad
==============================================================================
