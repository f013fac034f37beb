-------------------------- MODULE ImportWorkerProofs --------------------------
(* What the worker processes do to the import store, for any number of        *)
(* processes, slots, imports, files, batch sizes, failures and lost locks.    *)
(*                                                                            *)
(* The argument.  A step of a worker is a step of StoreSpec, so the           *)
(* invariants of ImportStoreProofs carry over.  That nothing is skipped needs *)
(* what each invocation knows: the lines before its position are in the       *)
(* database (Sound), although its checkpoint may be stale and other           *)
(* invocations commit beside it, because the tables only grow.                *)
EXTENDS ImportWorker, ImportStoreProofs

\* The lengths of the prefixes of each file whose records are in the database.
Safe == [i \in Imports |-> {n \in 0 .. Len(File[i]) : Covered(i, n)}]

WritingPC == {"getUploadedFile", "markProcessing", "openStream", "readBatch",
              "commitGuard", "commitWrites", "boundary"}
BatchPC == {"commitGuard", "commitWrites", "boundary"}

\* What the invocation s relies on between two awaits.
Sound(safe, s) ==
  /\ s.pc # "idle" => s.import \in Imports
  /\ s.pc \in WritingPC => s.position \in safe[s.import]
  /\ s.pc \in BatchPC => /\ s.position < s.batchEnd
                         /\ s.batchEnd <= Len(File[s.import])
                         /\ s.batchEnd \in {s.position + BatchSize, Len(File[s.import])}
  /\ s.pc = "boundary" => s.batchEnd \in safe[s.import]
  /\ s.pc = "markCompleted" => Len(File[s.import]) \in safe[s.import]

SlotsInv == /\ slot \in [Slots -> Invocation]
            /\ \A w \in Slots : Sound(Safe, slot[w])

RowsInv == \A i \in Imports :
             /\ Exists(i)
             /\ row[i].checkpoint \in Safe[i]
             /\ row[i].status = "completed" => Len(File[i]) \in Safe[i]

WorkerInv == StoreInv /\ SlotsInv /\ RowsInv

\* What a step has to do to the store.
StoreStep == /\ [StoreNext]_storeVars
             /\ StoreInv'
             /\ RowsInv'
             /\ \A i \in Imports : Safe[i] \subseteq Safe'[i]

------------------------------------------------------------------------------
\* Facts about the store.

LEMMA Lengths == \A i \in Imports : Len(File[i]) \in Nat
BY FileAssumption

\* Tables that grow keep what is covered covered.
LEMMA GrowingTables ==
  ASSUME \A i \in Imports : stored[i] \subseteq stored'[i],
         \A i \in Imports : DOMAIN rejections[i] \subseteq DOMAIN rejections'[i]
  PROVE  \A i \in Imports : Safe[i] \subseteq Safe'[i]
<1> SUFFICES ASSUME NEW i \in Imports, NEW n \in Safe[i] PROVE n \in Safe'[i]
  OBVIOUS
<1>1. n \in 0 .. Len(File[i]) /\ Covered(i, n)
  BY DEF Safe
<1>2. \A m : HasKey(i, m) => HasKey(i, m)'
  BY DEF HasKey, SameKey
<1>3. \A m : BagIn(m, rejections[i]) => BagIn(m, rejections'[i])
  BY DEF BagIn, BagToSet
<1>4. Covered(i, n)'
  BY <1>1, <1>2, <1>3 DEF Covered
<1> QED
  BY <1>1, <1>4 DEF Safe

\* A prefix of a covered prefix is covered.
LEMMA Prefixes ==
  ASSUME NEW i \in Imports, NEW n \in Safe[i], NEW m \in Nat, m <= n
  PROVE  m \in Safe[i]
BY Lengths DEF Safe, Covered

\* The steps that leave the tables alone, and the checkpoints.
LEMMA TablesKept ==
  ASSUME StoreInv, RowsInv, StoreNext, UNCHANGED <<uploaded, stored, rejections>>,
         NEW i \in Imports,
         \A j \in Imports : row'[j].checkpoint = row[j].checkpoint,
         \A j \in Imports \ {i} : row'[j] = row[j],
         row'[i].status # "none",
         row'[i].status = "completed" => Len(File[i]) \in Safe[i]
  PROVE  StoreStep
<1>1. StoreInv'
  BY NextInv
<1>2. \A j \in Imports : Safe[j] \subseteq Safe'[j]
  BY GrowingTables
<1>3. RowsInv'
  BY <1>2 DEF RowsInv, Exists
<1> QED
  BY <1>1, <1>2, <1>3 DEF StoreStep

LEMMA Quiet ==
  ASSUME StoreInv, RowsInv, UNCHANGED storeVars
  PROVE  StoreStep
<1>1. StoreInv'
  BY NextInv
<1>2. \A j \in Imports : Safe[j] \subseteq Safe'[j]
  BY GrowingTables DEF storeVars
<1>3. RowsInv'
  BY <1>2 DEF RowsInv, Exists, storeVars
<1> QED
  BY <1>1, <1>2, <1>3 DEF StoreStep

LEMMA StatusStep ==
  ASSUME StoreInv, RowsInv, NEW i \in Imports,
         NEW s \in {"processing", "completed", "failed", "cancelled"},
         s = "completed" => Len(File[i]) \in Safe[i],
         SetStatus(i, s)
  PROVE  StoreStep
<1>1. StoreNext
  BY DEF StoreNext, WriteRow, MarkProcessing, MarkCompleted, MarkFailed, MarkCancelled
<1>2. /\ \A j \in Imports : row'[j].checkpoint = row[j].checkpoint
      /\ \A j \in Imports \ {i} : row'[j] = row[j]
      /\ row'[i].status = s
  BY DEF SetStatus, StoreInv, StoreTypeOK, Row
<1>3. UNCHANGED <<uploaded, stored, rejections>>
  BY DEF SetStatus
<1> QED
  BY <1>1, <1>2, <1>3, TablesKept

LEMMA CancellationStep ==
  ASSUME StoreInv, RowsInv, NEW i \in Imports, WriteCancellation(i)
  PROVE  StoreStep
<1>1. StoreNext
  BY DEF StoreNext, WriteRow
<1>2. /\ \A j \in Imports : row'[j].checkpoint = row[j].checkpoint
      /\ \A j \in Imports \ {i} : row'[j] = row[j]
      /\ row'[i].status = "cancelling"
  BY DEF WriteCancellation, StoreInv, StoreTypeOK, Row
<1>3. UNCHANGED <<uploaded, stored, rejections>>
  BY DEF WriteCancellation
<1> QED
  BY <1>1, <1>2, <1>3, TablesKept

\* A batch that starts at or before the end of a covered prefix extends it: of
\* the lines that share a new key the first is inserted.
LEMMA CommitStep ==
  ASSUME StoreInv, RowsInv, NEW i \in Imports, NEW lo \in Safe[i], NEW hi \in Nat,
         lo < hi, hi <= Len(File[i]), CommitBatch(i, lo, hi)
  PROVE  StoreStep /\ hi \in Safe'[i]
<1>1. lo \in Nat /\ lo \in 0 .. Len(File[i]) /\ hi \in 0 .. Len(File[i])
  BY Lengths DEF Safe
<1>2. StoreNext
  BY <1>1 DEF StoreNext, WriteRow
<1>3. StoreInv'
  BY <1>2, NextInv
<1>4. /\ \A j \in Imports : stored[j] \subseteq stored'[j]
      /\ stored'[i] = stored[i] \cup NewLines(i, lo, hi)
  BY DEF CommitBatch, Inserted, StoreInv, StoreTypeOK
<1>5. /\ \A j \in Imports : DOMAIN rejections[j] \subseteq DOMAIN rejections'[j]
      /\ Rejected(i, lo, hi) \subseteq DOMAIN rejections'[i]
  BY DEF CommitBatch, RejectionsAdded, SetToBag, (+), StoreInv, StoreTypeOK
<1>6. \A j \in Imports : Safe[j] \subseteq Safe'[j]
  BY <1>4, <1>5, GrowingTables
<1>7. Covered(i, lo)'
  BY <1>6 DEF Safe
<1>8. ASSUME NEW m \in lo + 1 .. hi, File[i][m] \in Keys
      PROVE  HasKey(i, m)'
  <2>1. CASE HasKey(i, m)
    BY <1>4, <2>1 DEF HasKey, SameKey
  <2>2. CASE ~HasKey(i, m)
    <3> DEFINE same == {n \in Valid(i, lo, hi) : File[i][n] = File[i][m]}
    <3>1. same \in SUBSET Nat /\ m \in same
      BY <1>1, <1>8 DEF Valid
    <3>2. PICK n \in same : \A k \in same : n <= k
      BY <3>1, Smallest
    <3>3. ~HasKey(i, n)
      BY <2>2, <3>2 DEF HasKey, SameKey
    <3>4. n \in NewLines(i, lo, hi)
      BY <3>1, <3>2, <3>3 DEF NewLines
    <3>5. n \in stored'[i] /\ SameKey(i, m, i, n)
      BY <1>4, <3>2, <3>4 DEF SameKey
    <3> QED
      BY <3>5 DEF HasKey, SameKey
  <2> QED
    BY <2>1, <2>2
<1>9. ASSUME NEW m \in lo + 1 .. hi, File[i][m] = Bad
      PROVE  BagIn(m, rejections'[i])
  BY <1>5, <1>9 DEF Rejected, BagIn, BagToSet
<1>10. Covered(i, hi)'
  <2> SUFFICES ASSUME NEW m \in 1 .. hi
               PROVE  /\ File[i][m] \in Keys => HasKey(i, m)'
                      /\ File[i][m] = Bad => BagIn(m, rejections'[i])
    BY DEF Covered
  <2>1. CASE m <= lo
    BY <1>1, <1>7, <2>1 DEF Covered
  <2>2. CASE m > lo
    BY <1>1, <1>8, <1>9, <2>2
  <2> QED
    BY <1>1, <2>1, <2>2
<1>11. hi \in Safe'[i]
  BY <1>1, <1>10 DEF Safe
<1>12. /\ row'[i].checkpoint = hi
       /\ row'[i].status = row[i].status
       /\ \A j \in Imports \ {i} : row'[j] = row[j]
  BY DEF CommitBatch, StoreInv, StoreTypeOK, Row
<1>13. RowsInv'
  BY <1>6, <1>11, <1>12 DEF RowsInv, Exists
<1> QED
  BY <1>2, <1>3, <1>6, <1>11, <1>13 DEF StoreStep

------------------------------------------------------------------------------
\* What happens to the slots.

LEMMA SoundStays ==
  ASSUME StoreStep, NEW s, Sound(Safe, s)
  PROVE  Sound(Safe', s)
BY DEF StoreStep, Sound, WritingPC, BatchPC

LEMMA OneSlot ==
  ASSUME SlotsInv, StoreStep, NEW w \in Slots, NEW s \in Invocation, Sound(Safe', s),
         slot' = [slot EXCEPT ![w] = s]
  PROVE  SlotsInv'
<1>1. slot' \in [Slots -> Invocation] /\ slot'[w] = s
  BY DEF SlotsInv
<1>2. \A v \in Slots \ {w} : slot'[v] = slot[v]
  BY DEF SlotsInv
<1>3. \A v \in Slots \ {w} : Sound(Safe', slot[v])
  BY SoundStays DEF SlotsInv
<1>4. \A v \in Slots : Sound(Safe', slot'[v])
  BY <1>1, <1>2, <1>3
<1> QED
  BY <1>1, <1>4 DEF SlotsInv

LEMMA SlotsKept ==
  ASSUME SlotsInv, StoreStep, UNCHANGED slot
  PROVE  SlotsInv'
<1>1. \A v \in Slots : Sound(Safe', slot[v])
  BY SoundStays DEF SlotsInv
<1> QED
  BY <1>1 DEF SlotsInv

\* An invocation of which only the pc changes.
LEMMA GotoSound ==
  ASSUME SlotsInv, StoreStep, NEW w \in Slots, NEW pc \in PC, Goto(w, pc),
         Sound(Safe', [slot[w] EXCEPT !.pc = pc])
  PROVE  SlotsInv'
<1>1. slot' = [slot EXCEPT ![w] = [slot[w] EXCEPT !.pc = pc]]
  BY DEF Goto, SlotsInv
<1>2. [slot[w] EXCEPT !.pc = pc] \in Invocation
  BY DEF SlotsInv, Invocation
<1> QED
  BY <1>1, <1>2, OneSlot

\* To a pc at which nothing is relied on.
LEMMA GotoEnd ==
  ASSUME SlotsInv, StoreStep, NEW w \in Slots, ~At(w, "idle"),
         NEW pc \in {"resolve", "reject", "markFailed", "cancelAtStart",
                     "cancelAtBoundary", "reenqueue"},
         Goto(w, pc)
  PROVE  SlotsInv'
<1>1. pc \in PC
  BY DEF PC
<1>2. Sound(Safe', [slot[w] EXCEPT !.pc = pc])
  BY DEF SlotsInv, Sound, WritingPC, BatchPC, Invocation, At
<1> QED
  BY <1>1, <1>2, GotoSound

\* To a pc before the first batch is in hand.
LEMMA GotoRead ==
  ASSUME SlotsInv, StoreStep, NEW w \in Slots, slot[w].pc \in WritingPC,
         NEW pc \in {"markProcessing", "openStream", "readBatch"}, Goto(w, pc)
  PROVE  SlotsInv'
<1>1. pc \in PC
  BY DEF PC
<1>2. Sound(Safe', slot[w])
  BY SoundStays DEF SlotsInv
<1>3. Sound(Safe', [slot[w] EXCEPT !.pc = pc])
  BY <1>2 DEF SlotsInv, Sound, WritingPC, BatchPC, Invocation
<1> QED
  BY <1>1, <1>3, GotoSound

LEMMA FreedSound ==
  ASSUME SlotsInv, StoreStep, NEW w \in Slots, Freed(w)
  PROVE  SlotsInv'
<1>1. Idle \in Invocation /\ Sound(Safe', Idle)
  BY DEF Idle, Invocation, PC, Sound, WritingPC, BatchPC
<1> QED
  BY <1>1, OneSlot DEF Freed

\* An update of the row after which, or after whose failure, the invocation
\* has nothing to rely on but what it relies on already.
LEMMA UpdateKeeps ==
  ASSUME StoreInv, RowsInv, SlotsInv, NEW w \in Slots, ~At(w, "idle"),
         NEW s \in {"processing", "completed", "failed", "cancelled"},
         s = "completed" => Len(File[ImportOf(w)]) \in Safe[ImportOf(w)],
         NEW next \in {"openStream", "resolve"}, NEW onError \in {"reject", "markFailed"},
         next = "openStream" => slot[w].pc \in WritingPC,
         Update(w, SetStatus(ImportOf(w), s), next, onError)
  PROVE  StoreStep /\ SlotsInv'
<1>1. ImportOf(w) \in Imports
  BY DEF SlotsInv, Sound, At, ImportOf
<1>2. SetStatus(ImportOf(w), s) \/ UNCHANGED storeVars
  BY DEF Update
<1>3. StoreStep
  BY <1>1, <1>2, StatusStep, Quiet
<1>4. Goto(w, next) \/ Goto(w, onError)
  BY DEF Update
<1>5. SlotsInv'
  BY <1>3, <1>4, GotoEnd, GotoRead
<1> QED
  BY <1>3, <1>5

------------------------------------------------------------------------------
\* The steps of an invocation.

LEMMA TakeStep ==
  ASSUME WorkerInv, NEW w \in Slots, Take(w)
  PROVE  StoreStep /\ SlotsInv'
<1>1. StoreStep
  BY Quiet DEF WorkerInv, Take
<1>2. PICK j \in Jobs :
        slot' = [slot EXCEPT ![w] = [Idle EXCEPT !.pc = "findById", !.import = j.import]]
  BY DEF Take
<1>3. j.import \in Imports
  BY DEF Jobs
<1> DEFINE s == [Idle EXCEPT !.pc = "findById", !.import = j.import]
<1>4. s \in Invocation /\ Sound(Safe', s)
  BY <1>3 DEF Idle, Invocation, PC, Sound, WritingPC, BatchPC
<1> QED
  BY <1>1, <1>2, <1>4, OneSlot DEF WorkerInv

LEMMA FindByIdStep ==
  ASSUME WorkerInv, NEW w \in Slots, FindById(w)
  PROVE  StoreStep /\ SlotsInv'
<1>1. StoreStep
  BY Quiet DEF WorkerInv, FindById
<1> DEFINE i == ImportOf(w)
<1>2. i \in Imports /\ slot[w] \in Invocation /\ ~At(w, "idle")
  BY DEF WorkerInv, SlotsInv, Sound, FindById, At, ImportOf
<1>3. row[i].checkpoint \in Safe[i] /\ row[i].checkpoint \in Nat
  BY <1>2 DEF WorkerInv, RowsInv, StoreInv, StoreTypeOK, Row
<1>4. row[i].checkpoint \in Safe'[i]
  BY <1>1, <1>2, <1>3 DEF StoreStep
<1>5. CASE Goto(w, "reject")
  BY <1>1, <1>2, <1>5, GotoEnd DEF WorkerInv
<1>6. ASSUME NEW next \in {"resolve", "cancelAtStart", "getUploadedFile"},
             slot' = [slot EXCEPT ![w].pc = next, ![w].position = row[i].checkpoint]
      PROVE  SlotsInv'
  <2> DEFINE s == [slot[w] EXCEPT !.pc = next, !.position = row[i].checkpoint]
  <2>1. s.pc = next /\ s.import = i /\ s.position = row[i].checkpoint
    BY <1>2 DEF Invocation, ImportOf
  <2>2. s \in Invocation
    BY <1>2, <1>3 DEF Invocation, PC
  <2>3. Sound(Safe', s)
    BY <1>2, <1>4, <2>1 DEF Sound, WritingPC, BatchPC
  <2>4. slot' = [slot EXCEPT ![w] = s]
    BY <1>6 DEF WorkerInv, SlotsInv
  <2> HIDE DEF s
  <2> QED
    BY <1>1, <2>2, <2>3, <2>4, OneSlot DEF WorkerInv
<1> QED
  BY <1>1, <1>5, <1>6 DEF FindById

LEMMA GetUploadedFileStep ==
  ASSUME WorkerInv, NEW w \in Slots, GetUploadedFile(w)
  PROVE  StoreStep /\ SlotsInv'
<1>1. StoreStep
  BY Quiet DEF WorkerInv, GetUploadedFile
<1>2. slot[w].pc \in WritingPC /\ ~At(w, "idle")
  BY DEF GetUploadedFile, At, WritingPC
<1>3. Goto(w, "markProcessing") \/ Goto(w, "markFailed") \/ Goto(w, "reject")
  BY DEF GetUploadedFile
<1> QED
  BY <1>1, <1>2, <1>3, GotoEnd, GotoRead DEF WorkerInv

LEMMA OpenStreamStep ==
  ASSUME WorkerInv, NEW w \in Slots, OpenStream(w)
  PROVE  StoreStep /\ SlotsInv'
<1>1. StoreStep
  BY Quiet DEF WorkerInv, OpenStream
<1>2. slot[w].pc \in WritingPC /\ ~At(w, "idle")
  BY DEF OpenStream, At, WritingPC
<1>3. Goto(w, "readBatch") \/ Goto(w, "markFailed")
  BY DEF OpenStream
<1> QED
  BY <1>1, <1>2, <1>3, GotoEnd, GotoRead DEF WorkerInv

LEMMA UpdateSteps ==
  ASSUME WorkerInv, NEW w \in Slots,
         \/ CancelAtStart(w) \/ StartProcessing(w) \/ CancelAtBoundary(w)
         \/ Complete(w) \/ GiveUp(w)
  PROVE  StoreStep /\ SlotsInv'
<1> USE DEF WorkerInv
<1>1. CASE CancelAtStart(w)
  BY <1>1, UpdateKeeps DEF CancelAtStart, MarkCancelled, At
<1>2. CASE StartProcessing(w)
  <2>1. slot[w].pc \in WritingPC /\ ~At(w, "idle")
    BY <1>2 DEF StartProcessing, At, WritingPC
  <2> QED
    BY <1>2, <2>1, UpdateKeeps DEF StartProcessing, MarkProcessing
<1>3. CASE CancelAtBoundary(w)
  BY <1>3, UpdateKeeps DEF CancelAtBoundary, MarkCancelled, At
<1>4. CASE Complete(w)
  <2>1. Len(File[ImportOf(w)]) \in Safe[ImportOf(w)] /\ ~At(w, "idle")
    BY <1>4 DEF Complete, SlotsInv, Sound, At, ImportOf
  <2> QED
    BY <1>4, <2>1, UpdateKeeps DEF Complete, MarkCompleted
<1>5. CASE GiveUp(w)
  BY <1>5, UpdateKeeps DEF GiveUp, MarkFailed, At
<1> QED
  BY <1>1, <1>2, <1>3, <1>4, <1>5

\* What an invocation with a batch in hand, or at the end of its file, relies on.
LEMMA BatchSound ==
  ASSUME NEW safe, NEW s, NEW i \in Imports, NEW p \in safe[i], NEW end,
         s.import = i, s.position = p, s.batchEnd = end,
         p < end, end <= Len(File[i]), end \in {p + BatchSize, Len(File[i])},
         \/ s.pc \in {"commitGuard", "commitWrites"}
         \/ s.pc = "boundary" /\ end \in safe[i]
  PROVE  Sound(safe, s)
BY DEF Sound, WritingPC, BatchPC

LEMMA EndSound ==
  ASSUME NEW safe, NEW s, s.import \in Imports, s.pc = "markCompleted",
         Len(File[s.import]) \in safe[s.import]
  PROVE  Sound(safe, s)
BY DEF Sound, WritingPC, BatchPC

\* What is read is the next BatchSize lines, or what is left of the file.
LEMMA ReadBatchStep ==
  ASSUME WorkerInv, NEW w \in Slots, ReadBatch(w)
  PROVE  StoreStep /\ SlotsInv'
<1>1. StoreStep
  BY Quiet DEF WorkerInv, ReadBatch
<1> DEFINE i == ImportOf(w)
           p == slot[w].position
           length == Len(File[i])
           end == IF p + BatchSize <= length THEN p + BatchSize ELSE length
<1>2. /\ i \in Imports /\ slot[w] \in Invocation /\ ~At(w, "idle")
      /\ p \in Safe[i]
  BY DEF WorkerInv, SlotsInv, Sound, ReadBatch, At, ImportOf, WritingPC
<1>3. p \in Safe'[i]
  BY <1>1, <1>2 DEF StoreStep
<1>4. length \in Nat /\ p \in Nat /\ p <= length /\ BatchSize \in Nat \ {0}
  BY <1>2, Lengths, WorkerAssumption DEF Safe
<1>5. /\ end \in Nat /\ p <= end /\ end <= length
      /\ end \in {p + BatchSize, length}
      /\ p = end => end = length
  BY <1>4
<1>6. CASE Goto(w, "markFailed")
  BY <1>1, <1>2, <1>6, GotoEnd DEF WorkerInv
<1>7. CASE slot' = [slot EXCEPT ![w].pc = IF p = end THEN "markCompleted" ELSE "commitGuard",
                                ![w].batchEnd = end, ![w].attempt = 1]
  <2> DEFINE s == [slot[w] EXCEPT !.pc = IF p = end THEN "markCompleted" ELSE "commitGuard",
                                  !.batchEnd = end, !.attempt = 1]
  <2>1. /\ s.import = i /\ s.position = p /\ s.batchEnd = end
        /\ s.pc = IF p = end THEN "markCompleted" ELSE "commitGuard"
    BY <1>2 DEF Invocation, ImportOf
  <2>2. s \in Invocation
    BY <1>2, <1>5 DEF Invocation, PC
  <2>3. slot' = [slot EXCEPT ![w] = s]
    BY <1>7 DEF WorkerInv, SlotsInv
  <2> HIDE DEF s, end
  <2>4. Sound(Safe', s)
    <3>1. CASE p = end
      <4>1. s.pc = "markCompleted" /\ s.import = i /\ Len(File[i]) \in Safe'[i]
        BY <1>3, <1>5, <2>1, <3>1
      <4> QED
        BY <1>2, <4>1, EndSound
    <3>2. CASE p # end
      <4>1. p < end /\ s.pc = "commitGuard"
        BY <1>4, <1>5, <2>1, <3>2
      <4> QED
        BY <1>2, <1>3, <1>5, <2>1, <4>1, BatchSound
    <3> QED
      BY <3>1, <3>2
  <2> QED
    BY <1>1, <2>2, <2>3, <2>4, OneSlot DEF WorkerInv
<1>8. FileLength(w) = length
  BY DEF FileLength
<1> QED
  BY <1>1, <1>6, <1>7, <1>8 DEF ReadBatch

\* A checkpoint at or beyond the batch vouches for its lines: another attempt,
\* or another invocation, has committed them.
LEMMA CommitGuardStep ==
  ASSUME WorkerInv, NEW w \in Slots, CommitGuard(w)
  PROVE  StoreStep /\ SlotsInv'
<1>1. StoreStep
  BY Quiet DEF WorkerInv, CommitGuard
<1> DEFINE i == slot[w].import
           hi == slot[w].batchEnd
           next == IF AlreadyCommitted(i, hi) THEN "boundary" ELSE "commitWrites"
           s == [slot[w] EXCEPT !.pc = next]
<1>2. /\ i \in Imports /\ slot[w] \in Invocation
      /\ slot[w].position \in Safe[i]
      /\ slot[w].position < hi /\ hi <= Len(File[i])
      /\ hi \in {slot[w].position + BatchSize, Len(File[i])}
  BY DEF WorkerInv, SlotsInv, Sound, CommitGuard, At, WritingPC, BatchPC
<1>3. hi \in Nat /\ row[i].checkpoint \in Safe[i] /\ row[i].checkpoint \in Nat
  BY <1>2 DEF Invocation, WorkerInv, RowsInv, StoreInv, StoreTypeOK, Row
<1>4. AlreadyCommitted(i, hi) => hi \in Safe[i]
  BY <1>2, <1>3, Prefixes DEF AlreadyCommitted
<1>5. /\ slot[w].position \in Safe'[i]
      /\ AlreadyCommitted(i, hi) => hi \in Safe'[i]
  BY <1>1, <1>2, <1>4 DEF StoreStep
<1>6. /\ s.import = i /\ s.position = slot[w].position /\ s.batchEnd = hi /\ s.pc = next
      /\ next \in PC
  BY <1>2 DEF Invocation, PC
<1>7. Goto(w, next)
  BY DEF CommitGuard, ImportOf
<1> HIDE DEF s
<1>8. Sound(Safe', s)
  BY <1>2, <1>5, <1>6, BatchSound
<1> USE DEF s
<1>9. Sound(Safe', [slot[w] EXCEPT !.pc = next])
  BY <1>8
<1> HIDE DEF next, s
<1> QED
  BY <1>1, <1>6, <1>7, <1>9, GotoSound DEF WorkerInv

\* What CommitHere does, and what it leaves the invocation with.
LEMMA CommitHereStep ==
  ASSUME WorkerInv, NEW w \in Slots, CommitHere(w), slot[w].pc \in BatchPC
  PROVE  /\ StoreStep
         /\ slot[w].batchEnd \in Safe'[slot[w].import]
<1> DEFINE i == slot[w].import
<1>1. /\ i \in Imports /\ slot[w].batchEnd \in Nat
      /\ slot[w].position \in Safe[i]
      /\ slot[w].position < slot[w].batchEnd /\ slot[w].batchEnd <= Len(File[i])
  BY DEF WorkerInv, SlotsInv, Sound, WritingPC, BatchPC, Invocation
<1>2. CommitBatch(i, slot[w].position, slot[w].batchEnd)
  BY DEF CommitHere, ImportOf
<1> QED
  BY <1>1, <1>2, CommitStep DEF WorkerInv

LEMMA CommitWritesStep ==
  ASSUME WorkerInv, NEW w \in Slots, CommitWrites(w)
  PROVE  StoreStep /\ SlotsInv'
<1> DEFINE i == slot[w].import
           s == [slot[w] EXCEPT !.pc = "boundary"]
<1>1. StoreStep /\ slot[w].batchEnd \in Safe'[i]
  BY CommitHereStep DEF CommitWrites, At, BatchPC
<1>2. /\ slot[w] \in Invocation /\ i \in Imports
      /\ slot[w].position \in Safe[i]
      /\ slot[w].position < slot[w].batchEnd /\ slot[w].batchEnd <= Len(File[i])
      /\ slot[w].batchEnd \in {slot[w].position + BatchSize, Len(File[i])}
  BY DEF WorkerInv, SlotsInv, Sound, CommitWrites, At, WritingPC, BatchPC
<1>3. slot[w].position \in Safe'[i]
  BY <1>1, <1>2 DEF StoreStep
<1>4. /\ s.import = i /\ s.position = slot[w].position
      /\ s.batchEnd = slot[w].batchEnd /\ s.pc = "boundary" /\ "boundary" \in PC
  BY <1>2 DEF Invocation, PC
<1> HIDE DEF s
<1>5. Sound(Safe', s)
  BY <1>1, <1>2, <1>3, <1>4, BatchSound
<1> USE DEF s
<1> QED
  BY <1>1, <1>4, <1>5, GotoSound DEF WorkerInv, CommitWrites

\* The transaction is rolled back, or commits and is reported as failed.
LEMMA CommitFailsStep ==
  ASSUME WorkerInv, NEW w \in Slots, CommitFails(w)
  PROVE  StoreStep /\ SlotsInv'
<1>1. slot[w].pc \in {"commitGuard", "commitWrites"} /\ slot[w].pc \in BatchPC
  BY DEF CommitFails, At, BatchPC
<1>2. StoreStep
  BY <1>1, CommitHereStep, Quiet DEF CommitFails, WorkerInv
<1> DEFINE i == slot[w].import
           s == [slot[w] EXCEPT !.pc = "commitGuard", !.attempt = @ + 1]
<1>3. /\ slot[w] \in Invocation /\ i \in Imports
      /\ slot[w].position \in Safe[i]
      /\ slot[w].position < slot[w].batchEnd /\ slot[w].batchEnd <= Len(File[i])
      /\ slot[w].batchEnd \in {slot[w].position + BatchSize, Len(File[i])}
  BY <1>1 DEF WorkerInv, SlotsInv, Sound, WritingPC, BatchPC
<1>4. slot[w].position \in Safe'[i]
  BY <1>2, <1>3 DEF StoreStep
<1>5. CASE Goto(w, "markFailed")
  BY <1>1, <1>2, <1>5, GotoEnd DEF WorkerInv, At
<1>6. CASE slot' = [slot EXCEPT ![w].pc = "commitGuard", ![w].attempt = @ + 1]
  <2> DEFINE n == slot[w].attempt + 1
  <2>1. /\ n \in Nat
        /\ s = [slot[w] EXCEPT !.pc = "commitGuard", !.attempt = n]
    BY <1>3 DEF Invocation
  <2> HIDE DEF n
  <2>2. s \in Invocation
    BY <1>3, <2>1 DEF Invocation, PC
  <2> USE DEF n
  <2>3. slot' = [slot EXCEPT ![w] = s]
    BY <1>3, <1>6 DEF WorkerInv, SlotsInv, Invocation
  <2>4. /\ s.import = i /\ s.position = slot[w].position
        /\ s.batchEnd = slot[w].batchEnd /\ s.pc = "commitGuard"
    BY <1>3 DEF Invocation
  <2> HIDE DEF s
  <2>5. Sound(Safe', s)
    BY <1>3, <1>4, <2>4, BatchSound
  <2> QED
    BY <1>2, <2>2, <2>3, <2>5, OneSlot DEF WorkerInv
<1> QED
  BY <1>2, <1>5, <1>6 DEF CommitFails, RetryOrThrow

\* A batch that is not full ends the file.
LEMMA BoundaryStep ==
  ASSUME WorkerInv, NEW w \in Slots, Boundary(w)
  PROVE  StoreStep /\ SlotsInv'
<1>1. StoreStep
  BY Quiet DEF WorkerInv, Boundary
<1> DEFINE i == slot[w].import
           hi == slot[w].batchEnd
<1>2. /\ slot[w] \in Invocation /\ i \in Imports /\ ~At(w, "idle")
      /\ hi \in Safe[i] /\ hi \in {slot[w].position + BatchSize, Len(File[i])}
  BY DEF WorkerInv, SlotsInv, Sound, Boundary, At, BatchPC
<1>3. hi \in Safe'[i]
  BY <1>1, <1>2 DEF StoreStep
<1>4. CASE Goto(w, "markFailed")
  BY <1>1, <1>2, <1>4, GotoEnd DEF WorkerInv
<1>5. ASSUME NEW next \in {"cancelAtBoundary", "reenqueue", "readBatch", "markCompleted"},
             next = "markCompleted" => hi = Len(File[i]),
             slot' = [slot EXCEPT ![w].pc = next, ![w].position = slot[w].batchEnd]
      PROVE  SlotsInv'
  <2> DEFINE s == [slot[w] EXCEPT !.pc = next, !.position = hi]
  <2>1. s.pc = next /\ s.import = i /\ s.position = hi
    BY <1>2 DEF Invocation
  <2>2. s \in Invocation /\ slot' = [slot EXCEPT ![w] = s]
    BY <1>2, <1>5 DEF Invocation, PC, WorkerInv, SlotsInv
  <2> HIDE DEF s
  <2>3. Sound(Safe', s)
    BY <1>2, <1>3, <1>5, <2>1 DEF Sound, WritingPC, BatchPC
  <2> QED
    BY <1>1, <2>2, <2>3, OneSlot DEF WorkerInv
<1> QED
  BY <1>1, <1>2, <1>4, <1>5 DEF Boundary

LEMMA ReenqueueStep ==
  ASSUME WorkerInv, NEW w \in Slots, Reenqueue(w)
  PROVE  StoreStep /\ SlotsInv'
<1>1. StoreStep
  BY Quiet DEF WorkerInv, Reenqueue
<1>2. Goto(w, "resolve") \/ Goto(w, "markFailed")
  BY DEF Reenqueue
<1> QED
  BY <1>1, <1>2, GotoEnd DEF WorkerInv, Reenqueue, At

LEMMA LeaveStep ==
  ASSUME WorkerInv, NEW w \in Slots, Resolve(w) \/ Reject(w)
  PROVE  StoreStep /\ SlotsInv'
<1>1. StoreStep
  BY Quiet DEF WorkerInv, Resolve, Reject
<1> QED
  BY <1>1, FreedSound DEF WorkerInv, Resolve, Reject

\* All the slots of a host at once.
LEMMA CrashStep ==
  ASSUME WorkerInv, NEW h \in Hosts, Crash(h)
  PROVE  StoreStep /\ SlotsInv'
<1>1. StoreStep
  BY Quiet DEF WorkerInv, Crash
<1>2. Idle \in Invocation /\ Sound(Safe', Idle)
  BY DEF Idle, Invocation, PC, Sound, WritingPC, BatchPC
<1>3. \A v \in Slots : Sound(Safe', slot[v])
  BY <1>1, SoundStays DEF WorkerInv, SlotsInv
<1>4. /\ slot' \in [Slots -> Invocation]
      /\ \A v \in Slots : slot'[v] = Idle \/ slot'[v] = slot[v]
  BY <1>2 DEF Crash, WorkerInv, SlotsInv
<1> QED
  BY <1>1, <1>2, <1>3, <1>4 DEF SlotsInv

\* The steps around process that leave the slots alone.
LEMMA OtherSteps ==
  ASSUME WorkerInv,
         \/ UNCHANGED vars
         \/ \E w \in Slots : LoseLock(w)
         \/ \E i \in Imports : ReadForCancel(i) \/ WriteCancel(i)
         \/ \E h \in Hosts : Shutdown(h) \/ Restart(h)
  PROVE  StoreStep /\ SlotsInv'
<1>1. UNCHANGED slot
  BY DEF vars, workerVars, LoseLock, ReadForCancel, WriteCancel, Shutdown, Restart
<1>2. UNCHANGED storeVars \/ \E i \in Imports : WriteCancellation(i)
  BY DEF vars, LoseLock, ReadForCancel, WriteCancel, Shutdown, Restart
<1>3. StoreStep
  BY <1>2, Quiet, CancellationStep DEF WorkerInv
<1> QED
  BY <1>1, <1>3, SlotsKept DEF WorkerInv

------------------------------------------------------------------------------
\* The invariant and what follows from it.

LEMMA WorkerNext == WorkerInv /\ [Next]_vars => StoreStep /\ WorkerInv'
<1> SUFFICES ASSUME WorkerInv, [Next]_vars PROVE StoreStep /\ SlotsInv'
  BY DEF WorkerInv, StoreStep
<1>1. ASSUME NEW w \in Slots, Take(w) PROVE StoreStep /\ SlotsInv'
  BY <1>1, TakeStep
<1>2. ASSUME NEW w \in Slots, Process(w) PROVE StoreStep /\ SlotsInv'
  BY <1>2, FindByIdStep, GetUploadedFileStep, OpenStreamStep, UpdateSteps,
     ReadBatchStep, CommitGuardStep, CommitWritesStep, CommitFailsStep,
     BoundaryStep, ReenqueueStep, LeaveStep DEF Process
<1>3. ASSUME NEW h \in Hosts, Crash(h) PROVE StoreStep /\ SlotsInv'
  BY <1>3, CrashStep
<1> QED
  BY <1>1, <1>2, <1>3, OtherSteps DEF Next

LEMMA WorkerInit == Init => WorkerInv
<1> SUFFICES ASSUME Init PROVE WorkerInv
  OBVIOUS
<1>1. StoreTypeOK
  BY DEF Init, StoreTypeOK, Row, NewRow, Status, EmptyBag, SetToBag, IsABag
<1>2. CountsBalance
  BY DEF Init, CountsBalance, NewRow
<1>3. AcceptedMatchesRows
  BY FS_EmptySet DEF Init, AcceptedMatchesRows, NewRow
<1>4. UniqueTransactions /\ RowsComeFromTheirLines
  BY DEF Init, UniqueTransactions, RowsComeFromTheirLines, EmptyBag, SetToBag, BagToSet
<1>5. StoreInv
  BY <1>1, <1>2, <1>3, <1>4 DEF StoreInv
<1>6. SlotsInv
  BY DEF Init, SlotsInv, Idle, Invocation, PC, Sound, WritingPC, BatchPC
<1>7. \A i \in Imports : 0 \in Safe[i]
  BY Lengths DEF Safe, Covered
<1>8. RowsInv
  BY <1>7 DEF Init, RowsInv, NewRow, Exists
<1> QED
  BY <1>5, <1>6, <1>8 DEF WorkerInv

LEMMA WorkerInvAlways == Spec => []WorkerInv
BY WorkerInit, WorkerNext, PTL DEF Spec

\* However workers, retries, redeliveries, crashes, pauses and cancellations
\* overlap, also when two invocations write the same import: the records up to
\* an import's checkpoint, and all records of a completed import, are in the
\* database.
THEOREM NoRecordIsSkipped == Spec => []NothingSkipped
<1>1. WorkerInv => NothingSkipped
  BY DEF WorkerInv, RowsInv, Safe, NothingSkipped
<1> QED
  BY <1>1, WorkerInvAlways, PTL

\* The workers only ever do to the store what StoreSpec allows, so that its
\* invariants hold beside any number of them.
THEOREM WorkersKeepTheStore ==
  Spec => /\ [][StoreNext]_storeVars
          /\ [](/\ StoreTypeOK /\ CountsBalance /\ AcceptedMatchesRows
                /\ UniqueTransactions /\ RowsComeFromTheirLines)
<1>1. WorkerInv /\ [Next]_vars => [StoreNext]_storeVars
  BY WorkerNext DEF StoreStep
<1>2. WorkerInv => /\ StoreTypeOK /\ CountsBalance /\ AcceptedMatchesRows
                   /\ UniqueTransactions /\ RowsComeFromTheirLines
  BY DEF WorkerInv, StoreInv
<1> QED
  BY <1>1, <1>2, WorkerInvAlways, PTL DEF Spec

------------------------------------------------------------------------------
\* The types of the queue, the slots and the budgets.

RestTypeOK == QueueTypeOK /\ WorkerTypeOK

LEMMA StallTypes ==
  ASSUME QueueTypeOK, NEW W \in SUBSET Slots, StallJobs(W)
  PROVE  QueueTypeOK'
<1> DEFINE lost == {w \in W : Holds(w)}
           Again(j) == {w \in lost : /\ active[w].import = j.import
                                     /\ active[w].stalls + 1 = j.stalls}
<1>1. \A j \in Jobs : Cardinality(Again(j)) \in Nat
  <2> SUFFICES ASSUME NEW j \in Jobs PROVE Cardinality(Again(j)) \in Nat
    OBVIOUS
  <2>1. Again(j) \in SUBSET Slots
    OBVIOUS
  <2> HIDE DEF Again
  <2> QED
    BY <2>1, WorkerAssumption, FS_Subset, FS_CardinalityType
<1>2. waiting' = [j \in Jobs |-> waiting[j] + Cardinality(Again(j))]
  BY DEF StallJobs
<1>3. waiting' \in [Jobs -> Nat]
  <2> HIDE DEF Again
  <2> QED
    BY <1>1, <1>2 DEF QueueTypeOK
<1>4. active' \in [Slots -> Jobs \cup {NoJob}]
  BY DEF StallJobs, QueueTypeOK
<1>5. \A w \in lost : active[w].import \in Imports
  BY DEF QueueTypeOK, Holds, Jobs
<1>6. failedJobs' \in SUBSET Imports
  BY <1>5 DEF StallJobs, QueueTypeOK
<1> QED
  BY <1>3, <1>4, <1>6 DEF QueueTypeOK

LEMMA EnqueueTypes ==
  ASSUME QueueTypeOK, NEW i \in Imports, Enqueue(i)
  PROVE  QueueTypeOK'
<1>1. [import |-> i, stalls |-> 0] \in Jobs
  BY WorkerAssumption DEF Jobs
<1> QED
  BY <1>1 DEF Enqueue, QueueTypeOK

LEMMA TakeTypes ==
  ASSUME QueueTypeOK, NEW w \in Slots, NEW j \in Jobs, TakeJob(w, j)
  PROVE  QueueTypeOK'
<1>1. waiting[j] - 1 \in Nat
  BY DEF TakeJob, QueueTypeOK
<1> QED
  BY <1>1 DEF TakeJob, QueueTypeOK

LEMMA LeaveTypes ==
  ASSUME QueueTypeOK, NEW w \in Slots, CompleteJob(w) \/ FailJob(w)
  PROVE  QueueTypeOK'
<1>1. Holds(w) => active[w].import \in Imports
  BY DEF QueueTypeOK, Holds, Jobs
<1> QED
  BY <1>1 DEF CompleteJob, FailJob, QueueTypeOK

LEMMA QueueTypes ==
  ASSUME WorkerInv, QueueTypeOK, [Next]_vars
  PROVE  QueueTypeOK'
<1>1. CASE UNCHANGED queueVars
  BY <1>1 DEF queueVars, QueueTypeOK
<1>2. ASSUME NEW w \in Slots, Take(w) PROVE QueueTypeOK'
  BY <1>2, TakeTypes DEF Take
<1>3. ASSUME NEW w \in Slots, Reenqueue(w) PROVE QueueTypeOK'
  <2>1. ImportOf(w) \in Imports
    BY <1>3 DEF Reenqueue, At, ImportOf, WorkerInv, SlotsInv, Sound
  <2> QED
    BY <1>1, <1>3, <2>1, EnqueueTypes DEF Reenqueue
<1>4. ASSUME NEW w \in Slots, Resolve(w) \/ Reject(w) PROVE QueueTypeOK'
  BY <1>4, LeaveTypes DEF Resolve, Reject
<1>5. ASSUME NEW w \in Slots, LoseLock(w) PROVE QueueTypeOK'
  BY <1>5, StallTypes DEF LoseLock
<1>6. ASSUME NEW h \in Hosts, Crash(h) PROVE QueueTypeOK'
  BY <1>6, StallTypes DEF Crash
<1>7. ASSUME NEW w \in Slots, Process(w), ~Reenqueue(w), ~Resolve(w), ~Reject(w)
      PROVE  QueueTypeOK'
  BY <1>1, <1>7 DEF Process, ProcessFrame, FindById, CancelAtStart, GetUploadedFile,
     StartProcessing, OpenStream, ReadBatch, CommitGuard, CommitWrites, CommitFails,
     Boundary, CancelAtBoundary, Complete, GiveUp
<1>8. ASSUME NEW i \in Imports, ReadForCancel(i) \/ WriteCancel(i) PROVE QueueTypeOK'
  BY <1>1, <1>8 DEF ReadForCancel, WriteCancel
<1>9. ASSUME NEW h \in Hosts, Shutdown(h) \/ Restart(h) PROVE QueueTypeOK'
  BY <1>1, <1>9 DEF Shutdown, Restart
<1> QED
  BY <1>1, <1>2, <1>3, <1>4, <1>5, <1>6, <1>7, <1>8, <1>9 DEF Next, vars

Budgets == /\ faults \in 0 .. MaxFaults
           /\ crashes \in 0 .. MaxCrashes
           /\ lockLosses \in 0 .. MaxLockLosses
           /\ shutdowns \in 0 .. MaxShutdowns

LEMMA BudgetTypes ==
  ASSUME Budgets, [Next]_vars
  PROVE  Budgets'
<1> USE WorkerAssumption DEF Budgets
<1>1. CASE UNCHANGED budgetVars
  BY <1>1 DEF budgetVars
<1>2. CASE Fault
  BY <1>2 DEF Fault
<1>3. ASSUME NEW w \in Slots, Take(w) \/ LoseLock(w) PROVE Budgets'
  <2>1. CASE Take(w)
    BY <1>1, <2>1 DEF Take
  <2>2. CASE LoseLock(w)
    BY <2>2 DEF LoseLock
  <2> QED
    BY <1>3, <2>1, <2>2
<1>4. ASSUME NEW w \in Slots, Process(w) PROVE Budgets'
  <2>1. UNCHANGED budgetVars \/ Fault
    BY <1>4, Zenon DEF Process, Update, FindById, CancelAtStart, GetUploadedFile,
       StartProcessing, OpenStream, ReadBatch, CommitGuard, CommitWrites, CommitFails,
       Boundary, CancelAtBoundary, Reenqueue, Complete, GiveUp, Resolve, Reject
  <2> QED
    BY <1>1, <1>2, <2>1
<1>5. ASSUME NEW i \in Imports, ReadForCancel(i) \/ WriteCancel(i) PROVE Budgets'
  BY <1>1, <1>5 DEF ReadForCancel, WriteCancel
<1>6. ASSUME NEW h \in Hosts, Shutdown(h) \/ Restart(h) \/ Crash(h) PROVE Budgets'
  <2>1. CASE Shutdown(h)
    BY <2>1 DEF Shutdown
  <2>2. CASE Restart(h)
    BY <1>1, <2>2 DEF Restart
  <2>3. CASE Crash(h)
    BY <2>3 DEF Crash
  <2> QED
    BY <1>6, <2>1, <2>2, <2>3
<1> QED
  BY <1>1, <1>3, <1>4, <1>5, <1>6 DEF Next, vars

\* A slot changes only to a slot that is busy, or to the idle one.
LEMMA SlotChanges ==
  ASSUME WorkerInv, [Next]_vars, NEW v \in Slots
  PROVE  slot'[v] = slot[v] \/ slot'[v] = Idle \/ slot'[v].pc # "idle"
<1> USE DEF WorkerInv, SlotsInv
<1>1. CASE UNCHANGED slot
  BY <1>1
<1>2. ASSUME NEW w \in Slots, NEW pc \in PC \ {"idle"}, Goto(w, pc)
      PROVE  slot'[v] = slot[v] \/ slot'[v].pc # "idle"
  BY <1>2 DEF Goto, Invocation
<1>3. ASSUME NEW w \in Slots, Take(w) \/ Process(w)
      PROVE  slot'[v] = slot[v] \/ slot'[v] = Idle \/ slot'[v].pc # "idle"
  <2>1. CASE Take(w) \/ Resolve(w) \/ Reject(w)
    BY <2>1 DEF Take, Resolve, Reject, Freed, Idle
  <2>2. CASE FindById(w) \/ ReadBatch(w) \/ Boundary(w)
    BY <1>2, <2>2 DEF FindById, ReadBatch, Boundary, Invocation, PC
  <2>3. CASE CancelAtStart(w) \/ StartProcessing(w) \/ CancelAtBoundary(w)
             \/ Complete(w) \/ GiveUp(w)
    BY <1>2, <2>3 DEF CancelAtStart, StartProcessing, CancelAtBoundary, Complete,
       GiveUp, Update, PC
  <2>4. CASE GetUploadedFile(w) \/ OpenStream(w) \/ CommitGuard(w) \/ CommitWrites(w)
             \/ Reenqueue(w)
    BY <1>2, <2>4 DEF GetUploadedFile, OpenStream, CommitGuard, CommitWrites,
       Reenqueue, PC
  <2>5. CASE CommitFails(w)
    BY <1>2, <2>5 DEF CommitFails, RetryOrThrow, Invocation, PC
  <2> QED
    BY <1>3, <2>1, <2>2, <2>3, <2>4, <2>5 DEF Process
<1>4. ASSUME NEW w \in Slots, LoseLock(w) PROVE UNCHANGED slot
  BY <1>4 DEF LoseLock, workerVars
<1>5. ASSUME NEW i \in Imports, ReadForCancel(i) \/ WriteCancel(i) PROVE UNCHANGED slot
  BY <1>5 DEF ReadForCancel, WriteCancel
<1>6. ASSUME NEW h \in Hosts, Shutdown(h) \/ Restart(h) PROVE UNCHANGED slot
  BY <1>6 DEF Shutdown, Restart
<1>7. ASSUME NEW h \in Hosts, Crash(h) PROVE slot'[v] = slot[v] \/ slot'[v] = Idle
  BY <1>7 DEF Crash
<1> QED
  BY <1>1, <1>3, <1>4, <1>5, <1>6, <1>7 DEF Next, vars, workerVars

\* The type invariant of the worker, for every number of slots and hosts and
\* every bound on failures.
THEOREM TypeCorrect == Spec => []TypeOK
<1> DEFINE Inv == WorkerInv /\ RestTypeOK
<1>1. Init => Inv
  <2> SUFFICES ASSUME Init PROVE RestTypeOK
    BY WorkerInit
  <2>1. QueueTypeOK
    BY DEF Init, QueueTypeOK
  <2>2. slot \in [Slots -> Invocation] /\ (\A w \in Slots : slot[w] = Idle)
    BY DEF Init, Idle, Invocation, PC
  <2>3. Budgets
    BY WorkerAssumption DEF Init, Budgets
  <2> QED
    BY <2>1, <2>2, <2>3 DEF RestTypeOK, WorkerTypeOK, Budgets, Init, Idle
<1>2. Inv /\ [Next]_vars => Inv'
  <2> SUFFICES ASSUME WorkerInv, RestTypeOK, [Next]_vars PROVE RestTypeOK'
    BY WorkerNext
  <2>1. QueueTypeOK'
    BY QueueTypes DEF RestTypeOK
  <2>2. Budgets'
    BY BudgetTypes DEF RestTypeOK, WorkerTypeOK, Budgets
  <2>3. slot' \in [Slots -> Invocation]
    BY WorkerNext DEF WorkerInv, SlotsInv
  <2>4. \A v \in Slots : slot'[v].pc # "idle" => slot'[v].import \in Imports
    BY WorkerNext DEF WorkerInv, SlotsInv, Sound
  <2>5. \A v \in Slots : slot'[v].pc = "idle" => slot'[v].import = "none"
    BY SlotChanges DEF RestTypeOK, WorkerTypeOK, Idle
  <2>6. shuttingDown' \in SUBSET Hosts /\ cancelReads' \in SUBSET Imports
    <3>1. /\ shuttingDown' = shuttingDown
             \/ \E h \in Hosts : shuttingDown' \in {shuttingDown \cup {h}, shuttingDown \ {h}}
          /\ cancelReads' = cancelReads
             \/ \E i \in Imports : cancelReads' \in {cancelReads \cup {i}, cancelReads \ {i}}
      BY DEF Next, vars, workerVars, Take, Process, ProcessFrame, FindById,
         CancelAtStart, GetUploadedFile, StartProcessing, OpenStream, ReadBatch,
         CommitGuard, CommitWrites, CommitFails, Boundary, CancelAtBoundary,
         Reenqueue, Complete, GiveUp, Resolve, Reject, LoseLock, ReadForCancel,
         WriteCancel, Shutdown, Restart, Crash
    <3> QED
      BY <3>1 DEF RestTypeOK, WorkerTypeOK
  <2> QED
    BY <2>1, <2>2, <2>3, <2>4, <2>5, <2>6, WorkerAssumption
       DEF RestTypeOK, WorkerTypeOK, Budgets
<1>3. Inv => TypeOK
  BY DEF WorkerInv, StoreInv, RestTypeOK, TypeOK
<1> QED
  BY <1>1, <1>2, <1>3, PTL DEF Spec
==============================================================================
