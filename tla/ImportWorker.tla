---------------------------- MODULE ImportWorker -----------------------------
(* The worker processes: ImportProcessor.process on every slot, against the   *)
(* import store and the job queue, with what can happen to it: database and   *)
(* storage errors, lost acknowledgements, crashes, lost job locks, graceful   *)
(* shutdowns and cancellation requests.                                       *)
(*                                                                            *)
(* One step is one await of process: what runs up to the next one belongs to  *)
(* it.  Other slots, requests and crashes come between any two steps.         *)
EXTENDS ImportStore

CONSTANTS Slots,          \* what the worker processes run at once, over all
          MaxStalled,     \* BullMQ's maxStalledCount
          Hosts,          \* worker processes
          HostOf,         \* the process that each slot belongs to
          BatchSize,      \* BATCH_SIZE
          MaxAttempts,    \* the retry policy's maxAttempts
          Cancellable,    \* imports that clients ask to cancel
          MaxFaults,      \* bound: calls that fail
          MaxCrashes,     \* bound: worker processes that die
          MaxLockLosses,  \* bound: job locks lost by a live process
          MaxShutdowns    \* bound: graceful shutdowns

ASSUME WorkerAssumption ==
  /\ "none" \notin Imports /\ "nobody" \notin Imports
  /\ IsFiniteSet(Slots)
  /\ MaxStalled \in Nat
  /\ HostOf \in [Slots -> Hosts]
  /\ BatchSize \in Nat \ {0}
  /\ MaxAttempts \in Nat \ {0}
  /\ Cancellable \subseteq Imports
  /\ {MaxFaults, MaxCrashes, MaxLockLosses, MaxShutdowns} \subseteq Nat

VARIABLES waiting, active, failedJobs,   \* the job queue
          slot,          \* slot[w]: the invocation of process on w
          shuttingDown,  \* hosts whose ShutdownSignal is set
          cancelReads,   \* imports with a requestCancellation past its guard
          faults, crashes, lockLosses, shutdowns   \* spent so far

INSTANCE JobQueue

queueVars == <<waiting, active, failedJobs>>
budgetVars == <<faults, crashes, lockLosses, shutdowns>>
workerVars == <<slot, shuttingDown, cancelReads>>
vars == <<storeVars, queueVars, workerVars, budgetVars>>

\* Where an invocation stands: the await it makes next.
PC == {"idle", "findById", "cancelAtStart", "getUploadedFile", "markProcessing",
       "openStream", "readBatch", "commitGuard", "commitWrites", "boundary",
       "cancelAtBoundary", "reenqueue", "markCompleted", "markFailed",
       "resolve", "reject"}

\* position and batchEnd count lines: the stream has delivered the lines up to
\* position, and the batch in hand is the lines after it up to batchEnd.
Invocation == [pc : PC, import : Imports \cup {"none"}, position : Nat,
               batchEnd : Nat, attempt : Nat]

Idle == [pc |-> "idle", import |-> "none", position |-> 0, batchEnd |-> 0,
         attempt |-> 0]

WorkerTypeOK == /\ slot \in [Slots -> Invocation]
                /\ \A w \in Slots : (slot[w].pc = "idle") <=> (slot[w].import = "none")
                /\ shuttingDown \in SUBSET Hosts
                /\ cancelReads \in SUBSET Imports
                /\ faults \in 0 .. MaxFaults
                /\ crashes \in 0 .. MaxCrashes
                /\ lockLosses \in 0 .. MaxLockLosses
                /\ shutdowns \in 0 .. MaxShutdowns

TypeOK == StoreTypeOK /\ QueueTypeOK /\ WorkerTypeOK

\* createImport has returned for every import: its row, its file and one job.
Init == /\ row = [i \in Imports |-> NewRow("pending")]
        /\ uploaded = Imports
        /\ stored = [i \in Imports |-> {}]
        /\ rejections = [i \in Imports |-> EmptyBag]
        /\ waiting = [j \in Jobs |-> IF j.stalls = 0 THEN 1 ELSE 0]
        /\ active = [w \in Slots |-> NoJob]
        /\ failedJobs = {}
        /\ slot = [w \in Slots |-> Idle]
        /\ shuttingDown = {}
        /\ cancelReads = {}
        /\ faults = 0 /\ crashes = 0 /\ lockLosses = 0 /\ shutdowns = 0

------------------------------------------------------------------------------
\* Helpers of the steps of an invocation.

At(w, pc) == slot[w].pc = pc
Goto(w, pc) == slot' = [slot EXCEPT ![w].pc = pc]

\* The slot is free again.  Mutant: it still names the import.
Left(w) == Goto(w, "idle")
Freed(w) == slot' = [slot EXCEPT ![w] = Idle]

ImportOf(w) == slot[w].import
FileLength(w) == Len(File[ImportOf(w)])

\* A call that fails, of those the bound allows.
Fault == /\ faults < MaxFaults
         /\ faults' = faults + 1
         /\ UNCHANGED <<crashes, lockLosses, shutdowns>>

\* An UPDATE of the import row: it succeeds, or fails having taken effect or
\* not (the acknowledgement may be what was lost).
Update(w, update, next, onError) ==
  \/ update /\ Goto(w, next) /\ UNCHANGED budgetVars
  \/ Fault /\ (update \/ UNCHANGED storeVars) /\ Goto(w, onError)

\* Everything but the store, the slot and the budgets.
ProcessFrame == UNCHANGED <<queueVars, shuttingDown, cancelReads>>

------------------------------------------------------------------------------
\* process(importId), await by await.

\* The worker's callback starts on a job.  A worker that closes takes none.
Take(w) ==
  /\ At(w, "idle")
  /\ HostOf[w] \notin shuttingDown
  /\ \E j \in Jobs :
       /\ TakeJob(w, j)
       /\ slot' = [slot EXCEPT ![w] =
                     [Idle EXCEPT !.pc = "findById", !.import = j.import]]
  /\ UNCHANGED <<storeVars, shuttingDown, cancelReads, budgetVars>>

\* Neither pending nor processing: finished, or being cancelled.
\* Mutant: only a cancelled import is left alone.
SkipsCancelled(r) == r.status = "cancelled"
Skips(r) == r.status \notin {"pending", "processing"}

\* The only read of the row before the loop: its checkpoint is where this
\* invocation starts, whatever is committed meanwhile.
FindById(w) ==
  LET r == row[ImportOf(w)]
      next == IF Skips(r) THEN "resolve"
              ELSE IF r.cancelRequested THEN "cancelAtStart"
              ELSE "getUploadedFile"
  IN /\ At(w, "findById")
     /\ \/ /\ slot' = [slot EXCEPT ![w].pc = next, ![w].position = r.checkpoint]
           /\ UNCHANGED budgetVars
        \/ Fault /\ Goto(w, "reject")
     /\ ProcessFrame /\ UNCHANGED storeVars

CancelAtStart(w) ==
  /\ At(w, "cancelAtStart")
  /\ Update(w, MarkCancelled(ImportOf(w)), "resolve", "reject")
  /\ ProcessFrame

GetUploadedFile(w) ==
  /\ At(w, "getUploadedFile")
  /\ \/ /\ Goto(w, IF ImportOf(w) \in uploaded THEN "markProcessing" ELSE "markFailed")
        /\ UNCHANGED budgetVars
     \/ Fault /\ Goto(w, "reject")
  /\ ProcessFrame /\ UNCHANGED storeVars

StartProcessing(w) ==
  /\ At(w, "markProcessing")
  /\ Update(w, MarkProcessing(ImportOf(w)), "openStream", "reject")
  /\ ProcessFrame

\* A ranged GET: the object store refuses a range that starts at the end of
\* the object, so an import that resumes after its last line gets an error.
RangeError(w) == slot[w].position > 0 /\ slot[w].position = FileLength(w)

OpenStream(w) ==
  /\ At(w, "openStream")
  /\ \/ Goto(w, IF RangeError(w) THEN "markFailed" ELSE "readBatch") /\ UNCHANGED budgetVars
     \/ Fault /\ Goto(w, "markFailed")
  /\ ProcessFrame /\ UNCHANGED storeVars

\* The loop collects a batch, validates and scores it.  The last batch may be
\* empty, and is then not flushed.  The stream, the scorer and what is made of a
\* record (BatchIntake) may fail.
ReadBatch(w) ==
  LET p == slot[w].position
      end == IF p + BatchSize <= FileLength(w) THEN p + BatchSize ELSE FileLength(w)
  IN /\ At(w, "readBatch")
     /\ \/ /\ slot' = [slot EXCEPT ![w].pc = IF p = end THEN "markCompleted" ELSE "commitGuard",
                                   ![w].batchEnd = end, ![w].attempt = 1]
           /\ UNCHANGED budgetVars
        \/ Fault /\ Goto(w, "markFailed")
     /\ ProcessFrame /\ UNCHANGED storeVars

\* The guard of commitBatchOnce, a plain read inside the transaction.
CommitGuard(w) ==
  /\ At(w, "commitGuard")
  /\ Goto(w, IF AlreadyCommitted(ImportOf(w), slot[w].batchEnd)
             THEN "boundary" ELSE "commitWrites")
  /\ ProcessFrame /\ UNCHANGED <<storeVars, budgetVars>>

CommitHere(w) == CommitBatch(ImportOf(w), slot[w].position, slot[w].batchEnd)

CommitWrites(w) ==
  /\ At(w, "commitWrites")
  /\ CommitHere(w)
  /\ Goto(w, "boundary")
  /\ ProcessFrame /\ UNCHANGED budgetVars

\* The retry policy runs a transaction again, guard first, when the error is
\* retryable and attempts are left; else the error ends in process's catch.
\* Mutant: the last error is swallowed.
RetryOrSkip(w) ==
  \/ /\ slot[w].attempt < MaxAttempts
     /\ slot' = [slot EXCEPT ![w].pc = "commitGuard", ![w].attempt = @ + 1]
  \/ Goto(w, "boundary")
RetryOrThrow(w) ==
  \/ /\ slot[w].attempt < MaxAttempts
     /\ slot' = [slot EXCEPT ![w].pc = "commitGuard", ![w].attempt = @ + 1]
  \/ Goto(w, "markFailed")

\* The transaction fails, rolled back or with only its acknowledgement lost.
CommitFails(w) ==
  /\ At(w, "commitGuard") \/ At(w, "commitWrites")
  /\ Fault
  /\ \/ UNCHANGED storeVars
     \/ At(w, "commitWrites") /\ CommitHere(w)
  /\ RetryOrThrow(w)
  /\ ProcessFrame

\* The end of flush: cancellation first, then shutdown, then on with the file.
\* A batch that is not full was the last one.
Boundary(w) ==
  LET full == slot[w].batchEnd = slot[w].position + BatchSize
      next == IF row[ImportOf(w)].cancelRequested THEN "cancelAtBoundary"
              ELSE IF HostOf[w] \in shuttingDown THEN "reenqueue"
              ELSE IF full THEN "readBatch"
              ELSE "markCompleted"
  IN /\ At(w, "boundary")
     /\ \/ /\ slot' = [slot EXCEPT ![w].pc = next, ![w].position = slot[w].batchEnd]
           /\ UNCHANGED budgetVars
        \/ Fault /\ Goto(w, "markFailed")
     /\ ProcessFrame /\ UNCHANGED storeVars

\* Mutant: process returns without a word.
StopAtBoundary(w) ==
  /\ At(w, "cancelAtBoundary")
  /\ Goto(w, "resolve")
  /\ ProcessFrame /\ UNCHANGED <<storeVars, budgetVars>>
CancelAtBoundary(w) ==
  /\ At(w, "cancelAtBoundary")
  /\ Update(w, MarkCancelled(ImportOf(w)), "resolve", "markFailed")
  /\ ProcessFrame

\* The paused import gets a fresh job before this one completes.
\* Mutants: it gets none; or it is not paused.
PauseOnly(w) ==
  /\ At(w, "reenqueue")
  /\ Goto(w, "resolve")
  /\ UNCHANGED <<storeVars, queueVars, shuttingDown, cancelReads, budgetVars>>
EnqueueAndGoOn(w) ==
  /\ At(w, "reenqueue")
  /\ Enqueue(ImportOf(w)) /\ Goto(w, "readBatch")
  /\ UNCHANGED <<storeVars, shuttingDown, cancelReads, budgetVars>>
Reenqueue(w) ==
  /\ At(w, "reenqueue")
  /\ \/ Enqueue(ImportOf(w)) /\ Goto(w, "resolve") /\ UNCHANGED budgetVars
     \/ /\ Fault
        /\ Enqueue(ImportOf(w)) \/ UNCHANGED queueVars
        /\ Goto(w, "markFailed")
  /\ UNCHANGED <<storeVars, shuttingDown, cancelReads>>

Complete(w) ==
  /\ At(w, "markCompleted")
  /\ Update(w, MarkCompleted(ImportOf(w)), "resolve", "markFailed")
  /\ ProcessFrame

\* Three places mark an import failed; an error there rejects the invocation.
GiveUp(w) ==
  /\ At(w, "markFailed")
  /\ Update(w, MarkFailed(ImportOf(w)), "resolve", "reject")
  /\ ProcessFrame

Resolve(w) ==
  /\ At(w, "resolve")
  /\ CompleteJob(w)
  /\ Freed(w)
  /\ UNCHANGED <<storeVars, shuttingDown, cancelReads, budgetVars>>

Reject(w) ==
  /\ At(w, "reject")
  /\ FailJob(w)
  /\ Freed(w)
  /\ UNCHANGED <<storeVars, shuttingDown, cancelReads, budgetVars>>

Process(w) ==
  \/ FindById(w) \/ CancelAtStart(w) \/ GetUploadedFile(w) \/ StartProcessing(w)
  \/ OpenStream(w) \/ ReadBatch(w) \/ CommitGuard(w) \/ CommitWrites(w)
  \/ CommitFails(w) \/ Boundary(w) \/ CancelAtBoundary(w) \/ Reenqueue(w)
  \/ Complete(w) \/ GiveUp(w) \/ Resolve(w) \/ Reject(w)

------------------------------------------------------------------------------
\* Around process: requests, shutdowns, lost locks and crashes.

\* cancelImport reads the row, and answers when there is nothing to cancel.
ReadForCancel(i) ==
  /\ i \in Cancellable
  /\ MayCancel(i)
  /\ cancelReads' = cancelReads \cup {i}
  /\ UNCHANGED <<storeVars, queueVars, slot, shuttingDown, budgetVars>>

\* Its update comes in a statement of its own, possibly never; of several
\* requests, others may still be between the two.
WriteCancel(i) ==
  /\ i \in cancelReads
  /\ WriteCancellation(i)
  /\ cancelReads' \in {cancelReads, cancelReads \ {i}}
  /\ UNCHANGED <<queueVars, slot, shuttingDown, budgetVars>>

\* SIGTERM: set the signal and stop taking jobs.
Shutdown(h) ==
  /\ shutdowns < MaxShutdowns
  /\ h \notin shuttingDown
  /\ shuttingDown' = shuttingDown \cup {h}
  /\ shutdowns' = shutdowns + 1
  /\ UNCHANGED <<storeVars, queueVars, slot, cancelReads, faults, crashes, lockLosses>>

\* worker.close() has waited for every invocation; the process starts again.
Restart(h) ==
  /\ h \in shuttingDown
  /\ \A w \in Slots : HostOf[w] = h => At(w, "idle")
  /\ shuttingDown' = shuttingDown \ {h}
  /\ UNCHANGED <<storeVars, queueVars, slot, cancelReads, budgetVars>>

\* The process dies, also when the grace period of a shutdown expires; it
\* starts again, and its jobs are redelivered as stalled.
Crash(h) ==
  LET mine == {w \in Slots : HostOf[w] = h}
  IN /\ crashes < MaxCrashes
     /\ \E w \in mine : ~At(w, "idle")
     /\ StallJobs(mine)
     /\ slot' = [w \in Slots |-> IF w \in mine THEN Idle ELSE slot[w]]
     /\ shuttingDown' = shuttingDown \ {h}
     /\ crashes' = crashes + 1
     /\ UNCHANGED <<storeVars, cancelReads, faults, lockLosses, shutdowns>>

\* A lock is not renewed in time: the job is redelivered as stalled while its
\* invocation goes on.
LoseLock(w) ==
  /\ lockLosses < MaxLockLosses
  /\ Holds(w)
  /\ StallJobs({w})
  /\ lockLosses' = lockLosses + 1
  /\ UNCHANGED <<storeVars, workerVars, faults, crashes, shutdowns>>

Next == \/ \E w \in Slots : Take(w) \/ Process(w) \/ LoseLock(w)
        \/ \E i \in Imports : ReadForCancel(i) \/ WriteCancel(i)
        \/ \E h \in Hosts : Shutdown(h) \/ Restart(h) \/ Crash(h)

Spec == Init /\ [][Next]_vars

\* Node keeps running what is ready on every slot, BullMQ hands a waiting job
\* to a free slot, and a process that was shut down is started again.  Clients
\* and failures owe nothing.
Fairness == /\ \A w \in Slots : WF_vars(Take(w)) /\ WF_vars(Process(w))
            /\ \A h \in Hosts : WF_vars(Restart(h))

FairSpec == Spec /\ Fairness

------------------------------------------------------------------------------
\* Safety.

\* The records of the first n lines of i are in the database: a valid line's
\* key is in the transaction table, a bad line has a rejected_record row.
Covered(i, n) ==
  \A m \in 1 .. n : /\ File[i][m] \in Keys => HasKey(i, m)
                    /\ File[i][m] = Bad => BagIn(m, rejections[i])

\* Nothing is skipped: what the checkpoint claims is in the database, and so is
\* the whole file of a completed import.  Two workers on one import, replayed
\* batches, lost acknowledgements and restarts included, where a checkpoint may
\* even go back.
NothingSkipped ==
  \A i \in Imports :
    /\ Covered(i, row[i].checkpoint)
    /\ row[i].status = "completed" => Covered(i, Len(File[i]))

\* One import has one job at a time while no live process loses a lock and no
\* process dies where one has paused.  Otherwise a process may lose the lock of an
\* import it goes on with, or die between the two ends of a pause; WorkerOverlap
\* and FindingDoubleCount are about that.
Undisturbed == lockLosses = 0 /\ (crashes = 0 \/ shutdowns = 0)

\* Nothing is counted twice: the tables and counters of an import are exactly
\* what one pass over the lines up to its checkpoint leaves (ARCHITECTURE.md
\* section 12, "no duplicate rows, no double-counted progress").
ProgressIsExact ==
  \A i \in Imports :
    LET r == row[i]
        read == r.checkpoint
    IN /\ stored[i] \subseteq 1 .. read
       /\ rejections[i] = SetToBag(Rejected(i, 0, read))
       /\ r.rejected = Cardinality(Rejected(i, 0, read))
       /\ r.processed = Cardinality(Valid(i, 0, read)) + r.rejected

\* An invocation that has read the row and may still write batches.
Writing(w) == slot[w].pc \in {"getUploadedFile", "markProcessing", "openStream",
                              "readBatch", "commitGuard", "commitWrites", "boundary"}

\* At most one invocation at a time writes the batches of an import: nothing
\* but the queue sees to that.
OneWriter ==
  \A v, w \in Slots : Writing(v) /\ Writing(w) /\ ImportOf(v) = ImportOf(w) => v = w

\* A completed or cancelled import stays as it is: no restart, redelivery, pause
\* or second job touches it again.  What can is a cancellation that was past its
\* guard, and an invocation that fails, as when the answer to the update that
\* finished the import was lost.
FinishedStaysFinished ==
  [][\A i \in Imports :
       row[i].status \in {"completed", "cancelled"} /\ row'[i].status # row[i].status
         => \/ i \in cancelReads /\ row'[i].status = "cancelling"
            \/ /\ row'[i].status = "failed"
               /\ \E w \in Slots : At(w, "markFailed") /\ ImportOf(w) = i]_vars

\* "never regresses a finished job back into a cancelling-looking state"
\* (ARCHITECTURE.md:232): cancelling a finished import changes nothing.
FinishedNeverCancelling ==
  [][\A i \in Imports :
       row[i].status \in Terminal => row'[i].status # "cancelling"]_vars

\* An import fails only when some call failed.
FailureHasACause ==
  \A i \in Imports : row[i].status = "failed" => faults > 0

\* The worker keeps its promise: with `accepted' and the owners of the keys
\* read off the transaction table.
OwnerOf(pk) ==
  LET mine(i) == {n \in stored[i] : ProviderOf[i] = pk[1] /\ File[i][n] = pk[2]}
      rows == UNION {{i} \X mine(i) : i \in Imports}
  IN IF rows = {} THEN <<"nobody", 0>> ELSE CHOOSE r \in rows : TRUE

Once == INSTANCE EffectivelyOnce WITH
  done  <- [i \in Imports |-> row[i].checkpoint],
  owner <- [pk \in Providers \X Keys |-> OwnerOf(pk)],
  tally <- [i \in Imports |-> [processed |-> row[i].processed,
                               accepted  |-> row[i].accepted,
                               rejected  |-> row[i].rejected]]

\* Batches are committed effectively once: behind every interleaving of
\* restarts, retries, pauses and redeliveries there is a single pass per file.
ImplementsOnce == Once!Spec

------------------------------------------------------------------------------
\* Liveness.

\* Every import nobody cancels comes to an end and stays there, or its job lies
\* in BullMQ's failed set.
EveryImportEnds ==
  \A i \in Imports \ Cancellable :
    <>[](row[i].status \in Terminal \/ i \in failedJobs)

\* A cancellation that an invocation in progress can still see is acted on: the
\* import ends, unless a call fails or a worker dies.
CancelIsAnswered ==
  \A i \in Imports :
    (row[i].cancelRequested /\ \E w \in Slots : Writing(w) /\ ImportOf(w) = i)
      ~> row[i].status \in Terminal \/ faults + crashes > 0

\* "on the next boundary, marks the import cancelled and stops"
\* (ARCHITECTURE.md:225): an import does not stay cancelling.
CancellingEnds ==
  \A i \in Imports : row[i].status = "cancelling" ~> row[i].status # "cancelling"
==============================================================================
