# A verification project for the reconciliation backend

The repository is an HTTP API and a background worker that import NDJSON files of
transactions: a client uploads a file under an `Idempotency-Key`, the API stores it in MinIO,
adds a row to Postgres and a job to BullMQ, and a worker reads the file in batches of 500 lines,
validates and scores every record and commits each batch with its counters and a checkpoint.
This directory holds TLA+ modules of that system, TLC configurations that check them, and TLAPS
proofs. Paths below are relative to the root of the repository.

## 1. Inventory

| Component | State it keeps | Operations | Correct when | Modelled in |
|---|---|---|---|---|
| Import repository, writes: `src/modules/imports/imports.repository.ts`, `prisma/schema.prisma` | rows of `import`, `uploaded_file`, `transaction`, `rejected_record` | create, attach, cancel, four status updates, `commitBatch` | tables, counters and checkpoint agree; one row per (provider, transactionId); first write wins | `ImportStore` |
| Import repository, reads: `getSummary`, `getRejections`, `cursor.ts` | none; the client holds a cursor | three statements; a page | a summary is never behind its totals; a walk passes over nothing that was there | `ImportReads` |
| Import processor, `imports.processor.ts`, `worker.ts` | per invocation: the start checkpoint, the batch, the stream | `process(importId)` on each concurrent slot of each worker process | every record is committed effectively once; every import ends; finished imports stay finished | `ImportWorker` |
| Job queue, `imports.jobQueue.ts` and BullMQ | waiting, active and failed jobs, locks, stall counts | add, take, complete, fail, stall | at-least-once delivery, one live job per import | `JobQueue` |
| Retry policy, `src/shared/adapters/exponentialBackoffRetryPolicy.ts` | attempt count | `execute` | bounded, and repeats nothing that took effect | `ImportWorker` |
| Import service and upload handler, `imports.service.ts`, `imports.controller.ts` | per request: whether it has been answered, where the upload stands | `createImport`, `cancelImport`, getters | one import per key; a job only behind row, file and object; one answer | `ImportCreation` |
| API process, `server.ts`, `gracefulShutdown.ts`, readiness | listening or not, a readiness flag, open connections, the shutdown's steps | boot, shutdown, forced exit, crash, probe | clients are answered; a shutdown ends and loses nothing silently | `ApiProcess` |
| Registration, `src/modules/auth/` | the `user` table | register, login | an account, once given, is kept; refusals are true | `Registration` |
| Line parser, `src/shared/utils/ndjsonLines.ts` | buffer, byte offset, line number | an async generator | no byte lost or parsed twice, whatever the chunks and the restarts | `NdjsonLines` |
| Record rules: `normalize.ts`, `imports.validation.ts`, `fingerprint.ts`, `riskScore.ts` | none | functions of one record | one stored form for each value; nothing breaks a batch | `RecordRules` |
| The batch loop: `validateAndScoreBatch`, `piscinaRiskScorer.ts` | the batch | screen, score, flush | each line is screened once, each record has its own score, and the outcome is the file's | `BatchIntake` |
| Object storage, `MinioFileStorage.ts` | objects | `store`, ranged `read` | external | in its callers |
| Metrics, HTTP plumbing, composition | gauges and counters | see `PROJECT.json` | - | not modelled |

How they interact: the API process and the worker processes share nothing but Postgres, MinIO
and Redis. The `import` row is what they communicate through: the API sets `cancelRequested`, the
worker reads it at each batch boundary. Jobs carry only an import's id. Within a process the
code is single-threaded, and interleaves at every `await`.

What makes it hard: two statements where one was meant (`requestCancellation`, the guard of
`commitBatchOnce`, `register`); acknowledgements lost after the effect; a process that dies between
any two awaits; BullMQ redelivering a job whose invocation may still run; a paused import that has two
jobs for a moment; busboy's events racing the outcome of `createImport`; a shutdown that waits for
connections nobody closes; readers between a writer's batches; chunk boundaries. `PROJECT.json` lists
these hazards with the line each one bites at and the property that guards it.

## 2. The modules

```
                 ImportStore (Postgres)                      NdjsonLines    RecordRules
        +------------+--------------+                        (the parser)   (one record)
        |            |              |                                \         /
   ImportReads   ImportWorker   ImportCreation                       BatchIntake
                  | JobQueue        |                        (batches, screening, scoring)
                  | EffectivelyOnce | IdempotentCreation
                                ApiProcess
                                    | Registration

   proofs:  ImportStoreProofs <- ImportReadsProofs            NdjsonLinesProofs
            ImportStoreProofs <- ImportWorkerProofs           NdjsonLinesProofs <- BatchIntakeProofs
                                 <- WorkerOnceProofs
            ImportCreationProofs <- ApiProcessProofs
```

**`ImportStore`** is the write side of `PrismaImportRepository`. `row` is the `import` table,
`uploaded` and `stored` are the imports with an `uploaded_file` row and the lines with a
`transaction` row, `rejections` is the bag of `rejected_record` lines. Each writing statement, or
`$transaction`, is an action: `CreatePendingImport`, `AttachUploadedFile`, `WriteCancellation` (the
second statement of `requestCancellation`; `MayCancel` is the guard the first one reads for),
`MarkProcessing` ... `MarkCancelled`, `CommitBatch`. The guard of `commitBatchOnce` is separate
(`AlreadyCommitted`), since under Postgres' default isolation it locks nothing and another
transaction may commit behind it. `StoreSpec` lets any caller issue any write at any time.

*Data.* A file is a sequence of lines; a line is the transactionId it carries when it validates,
`Bad` when it is rejected, `Blank` when it is skipped. A transaction row is named by the import and
line it came from. `checkpointOffset` and `checkpointLineNumber` are written together from one
parsed line, so `checkpoint` counts lines; how lines and bytes relate is `NdjsonLines`' subject.

**`ImportReads`** adds the readers: a client that walks through the rejections page by page
(`NextPage`: `First`, `Behind` and `CursorOf` are `orderBy`, the `where` of the cursor and its
choice), and one that asks for a summary (`ReadTotals`, then `ReadByCurrency` and `ReadByRiskLevel` in
either order, as `Promise.all` runs them). Any writer may come between two statements. `records` are
the `rejected_record` rows with their ids, which are random: a new id may sort anywhere. `strayed` is
history: imports that had a batch committed from elsewhere than their checkpoint.

**`JobQueue`** is BullMQ (external) as the code configures it: `attempts: 1`, `removeOnComplete`,
the default `maxStalledCount` of 1. A job is its import and how often it stalled. A job whose slot
dies or loses its lock waits again, or goes to the failed set when it stalled too often.

**`ImportWorker`** runs `ImportProcessor.process` on every slot, one action per await. `slot[w].pc`
is the await an invocation makes next; `position` and `batchEnd` are where the stream and the batch
stand. `Update` is an awaited row update that succeeds, fails, or takes effect and loses its
answer. `CommitGuard`, `CommitWrites` and `CommitFails` are one attempt of `commitBatch` and
`RetryOrThrow` the retry policy around it. `Boundary` is the end of `flush`: cancellation, then
shutdown, then on. Around it: `ReadForCancel` and `WriteCancel` (a request's two statements),
`Shutdown`, `Restart`, `Crash` (also the forced exit at the end of the grace period) and `LoseLock`.

| pc | `imports.processor.ts` | | pc | source |
|---|---|---|---|---|
| findById | 39-53 | | boundary | 130, 137 |
| cancelAtStart | 68-72 | | cancelAtBoundary | 132 |
| getUploadedFile | 74-80 | | reenqueue | 149 |
| markProcessing | 82 | | markCompleted | 170 |
| openStream | 87-98 | | markFailed | 76, 91, 175 |
| readBatch | 159-167, 106 | | resolve, reject | `worker.ts` 30, 38 |
| commitGuard, commitWrites | repository 258-264, 266-312 | | | |

**`EffectivelyOnce`** is what the worker promises: each file is read once, front to back, each key
goes to the first line that claimed it, and the tally is that of the lines read. `ImportWorker`
implements it (`ImplementsOnce`) with `done` the checkpoint, `owner` read off the transaction table
and `tally` the counters.

**`ImportCreation`** is `POST /v1/imports`. A request is named by the id its import would get. Its
`pc` goes through the fast path, the body, the insert, the lookup of a lost race, the upload,
`attachUploadedFile` and the enqueueing; `answer` is what the client was told. Calls may fail with
or without effect, the `limit` event may come while the file streams, an error of busboy at any time
(`Malformed`: the client is refused, and `createImport` goes on), and the process may end, with
the jobs that were being added added or not.

**`IdempotentCreation`** is what the endpoint promises: of the requests with one key the first creates the
import, for good, it is handed to the workers once, and everybody gets one answer: an error, or the import that
has the key. `ImportCreation` implements it (`ImplementsPromise`) with `created` the rows, `queued` the imports with
a job, and `told` the answers. It promises no progress: an import may be created and never queued
(finding 6).

**`Registration`** is register and login, one action per database call; the bcrypt call between
`FindByEmail` and `CreateUser` is what makes the race of two registrations likely. An account is named by the client
whose password it holds.

**`ApiProcess`** composes `ImportCreation` (extended) and `Registration` (an instance, `Auth`) in the
process that serves both. To connect is one step (`Connection`) and to send a request over the connection
another: `unused` is who has a connection open that carries no request. A request that comes over one after the
shutdown began is served, and a readiness probe is then told 503. `Boot`, `Shutdown` (readiness is
flipped *and* the server stops listening in one turn of the event loop, since `mark-not-ready` returns a resolved
promise, so that the window for load balancers that ARCHITECTURE.md:275 speaks of is empty; Node closes connections that wait for a further request, but not those that have had none: external), `HttpServerClosed`
(once no waiting request, unused connection or websocket is left), `Exit`, `ForceExit` (the timer, armed
from the first step on) and `Crash`, which may strike at any time: also, in this code, when a body ends
inside its file part or the fast-path lookup rejects, which nothing handles. The end of the process
ends every request (`Gone` = `ProcessEnds` and `Auth!Dropped`); inserts under way may still take effect.

**`NdjsonLines`** is `parseNdjsonLines` byte by byte, with chunks of any size; `Resume` starts the
parse again behind any line already yielded, as a redelivered job does behind its checkpoint.

**`RecordRules`** is what becomes of one record, as functions of the parsed JSON value:
`SelectAt` (what is left of a text or a list, in order, by a set of positions, so that no recursion is needed),
`NormalizeRecord`, `Satisfies` (`transactionSchema`), `Throws` (what breaks `normalizeRecord`), `Stored` (what the
columns hold of it), `Fingerprint`, `RiskLevel`. A text is a sequence of words, white space, control or NUL characters, and
halves of surrogate pairs. An amount is in thousandths, with a flag for a double that lies below the decimal it
was written as: `toFixed` rounds the double (`FixedCents`), the column the decimal (`ColumnCents`). `InstantOf` maps every
spelling that `normalizeTimestamp` accepts; what it makes of one may be no such spelling, when the offset moves it out of the years 0 to 9999.

**`BatchIntake`** is the loop of `process` over the lines the parser yields: full batches and the last
one are screened (`IsBlank`, `IsValid`, `ReasonCode`), scored (`ToScore` with its `AcceptedIndex`, and `LevelOf`, which
writes the scores back by it) and committed, or the import fails: because `normalizeRecord` throws (`BatchThrows`), because
a column refuses what it is given (`Unstorable`), or because it may (`Dubious`). `Restart` resumes behind the last committed
batch. A byte other than newline and CR stands for a whole JSON text. What a jsonb column makes of the `rawValue` of a rejected line is
external: a value says in `refused`, and a text that is not JSON by being one of `RefusedTexts`, that it holds what the column does not take
once `capRawValue` has cut it.

`MC*` modules give the constants small values; `*Proofs` hold the theorems.

## 3. What the runs check

| Run (cfg) | Bounds | Question |
|---|---|---|
| `store` (`MCImportReads`) | 2 imports of one provider, 2 files that share a key, pages of 1, 2 ids, `ReadsBound` | do the tables agree, whoever calls, and what do readers see between the writes? |
| `worker_once` (`WorkerOnce`) | 2 imports, 2 processes of 1 slot, batches of 2, 1 failing call, 2 crashes or 2 shutdowns, 1 import cancellable | are files committed effectively once, by one writer, and do finished imports stay finished? |
| `worker_overlap` (`WorkerOverlap`) | the same, 1 each of failing call, crash, lost lock and shutdown in one behaviour | is a record ever skipped, even when two workers run on one import? |
| `worker_ends` (`WorkerEnds`) | the same, 1 each of failing call, crash and shutdown, fairness | does every import end, and is a cancellation acted on? |
| `creation` (`ApiProcess`) | 2 uploads with one key, 2 registrations of one address, 1 websocket, 1 load balancer, 1 each of failing call, crash and shutdown, `OneKind`, fairness | one import per key, jobs behind their files, cut files refused, one answer each, the promise of `IdempotentCreation`, accounts that stay, also across a shutdown? |
| `lines` (`MCBatchIntake`) | every file of up to 5 bytes over newline, CR and two others; MAX_LINE_BYTES 2, batches of 2, 1 restart; 18 pairs of a record and what is beside it | do the lines partition the file, and is what becomes of it the file's alone? |

The properties worth a word:

- `CountsBalance`, `AcceptedMatchesRows`, `RejectedMatchesRows` relate counters to tables, and hold
  even where batches are counted twice: the tables and the counters drift together.
- `PagesAscend` and `OldRejectionsAreSeen` hold beside any writers, also when a line was rejected twice and its
  rows tie. That a page ends before rows that are inserted later is the paging's nature; `PagesHaveNoGaps`
  says that none are inserted behind the client while one worker commits in order. `SummaryIsNotBehind` is the best the
  separate statements can promise: the groups may be ahead of the totals, and the code reads the totals first.
- `ProgressIsExact` and `ImplementsOnce` say that nothing is counted twice. They hold under crashes,
  retries and lost acknowledgements as long as one writer is on an import, which `OneWriter` says
  and which only the queue ensures: while `Undisturbed` (below). `NothingSkipped` needs no such thing.
- `FinishedStaysFinished` excepts what the code does: a cancellation past its guard, and the
  `markFailed` of an invocation whose own update lost its answer. A *failed* import may be taken up
  again when the pause's `queue.add` took effect but its answer was lost; the property is therefore
  about completed and cancelled imports.
- `JobsHaveTheirFile` and `OwnImportIsQueued` are the order of `createImport`'s four effects. `FilesAreAccountedFor` adds what
  the stream's events do to them: a refused upload may well leave its row, its object and even its job (`finding_cut_file`); but nothing is
  stored without a row, a file that was cut was refused, and whoever was told of the import it created has its whole file stored.
- `EveryClientIsAnswered` and `NoSilentLoss` are the promise of an orderly shutdown: every client that stays is
  answered, and an import without a job was refused. Both except what was killed, by a crash or by the timer; a
  websocket that stays open makes every shutdown a forced one (`ShutdownEnds`).
- `NoByteLost` holds with oversized lines as well; `LinesAreTheFiles` and `OutcomeIsTheFiles` only without, since
  where an oversized line is cut depends on the chunks and its pieces are numbered as lines.
- `StoredIsCanonical`: what the columns hold of a transaction, submitted again, is the same key; it is refused only when the amount
  was less than half a cent, and has the fingerprint on record but for a cent of the amount. That much the code leaves: the column and
  `toFixed` round differently (1.005), and an instant outside the years 0 to 9999 has no spelling that validates.
- `FatalRecordsAreKnown`: an import fails in the loop only for the kinds of line it lists (findings 7 to 9).

### Bounds

Two imports are needed for competing keys and two slots for overlapping invocations; two batches for
a resume in mid-file; a file whose last batch is full for the empty final flush and for a
checkpoint at the end of the file. A third import or slot adds no new kind of pair; the proofs cover
any number. One fault is enough for every single lost acknowledgement, two crashes for a job that
stalls more often than BullMQ allows. `MaxStalled` is BullMQ's default; `MaxAttempts = 2` reaches both
"retry" and "give up" (the code's default is 4). The bounds `MaxFaults`, `MaxCrashes`,
`MaxLockLosses`, `MaxShutdowns` and `MaxResumes` are guards of their actions. Constraints:

- `Undisturbed` (`worker_once`): no lost lock, and not a crash *and* a pause in one behaviour. With both `ProgressIsExact`
  fails, which is `finding_double_count`. The theorems about this run have the same condition, and no other bound.
- `ReadsBound` (`store`) bounds the counters, which batches that are committed again move without end, keeps one
  status of each kind, which neither batches nor reads look at, and one reader at a time, since readers change nothing.
- `OneKind` (`creation`) leaves out behaviours with two of uploads, registrations and probes: they share only the process
  and the count of failing calls. It cuts a behaviour only where somebody connects for the first time, which nothing is bound to do,
  so liveness is not weakened; the theorems of `ApiProcessProofs` have no such restriction.

Files of five bytes hold a line, a CR LF pair split by a chunk, an oversized line, blank lines and three
batches. `CHECK_DEADLOCK FALSE` everywhere the system may stop: all imports ended, all requests answered, the parse done.

### Fairness

`Take` and each slot's `Process` are weakly fair: Node runs what is ready, and BullMQ hands a waiting
job to a free worker that is not closing. `Restart` is weakly fair: a process that was shut down is
started again. In `ImportCreation` and `ApiProcess` each request's `Handle` is: uploads that have begun end, because
the client stays. `AnswerProbe` is a database call, and `ForceExit` is a timer of Node's own. No fairness is assumed
of clients' connections and requests, of websockets that close, of failures, or of `StreamEvent`, and none of the orderly steps of
a shutdown. A lost lock is excluded from `worker_ends`: the second job of the import may be used
up while the invocation that lost its lock fails later, and then the import does stay `processing`.

## 4. Findings

The first six are runs whose one property states what a document or a comment says, and which TLC refutes; the
others are properties that hold and state what the code does instead of what is written.

1. `finding_double_count` - a process that dies after re-enqueueing a paused import and before
   completing its job leaves two jobs; two workers pass the unlocked checkpoint guard with one batch
   and count it twice, against ARCHITECTURE.md section 12.
2. `finding_cancel_race` - `requestCancellation` is check-then-act: a finished import may become
   `cancelling`, against ARCHITECTURE.md:230.
3. `finding_cancel_pending` - an import cancelled while no invocation is past `findById` stays
   `cancelling` for ever, since `process` skips that status, against ARCHITECTURE.md:223.
4. `finding_resume_at_end` - an import whose worker dies, or pauses, behind the last batch is marked
   `failed` when it resumes: a ranged read from the end of an object is refused. Rests on the object
   store's answer to such a range (external), against ARCHITECTURE.md:270.
5. `finding_cut_file` - a file over the limit is refused with 413 and imported truncated, against
   README.md:144.
6. `finding_lost_upload` - after a crash of the API between the insert and the enqueueing, a repeated
   key is answered 202 for an import without a job, against docs/adr/001:40.
7. `lines` - a record whose `description` is a number, a boolean or an object makes `normalizeRecord` throw, and
   fails the whole import instead of being rejected, against ARCHITECTURE.md:122.
8. `lines` - so does a rejected record, another JSON value, or a text that is not JSON, when what is kept of it
   holds a NUL, which jsonb (external) refuses.
9. `lines` - so does an accepted record with an amount of 1e16 or more, which overflows Decimal(18,2).
10. `creation` - the second of two concurrent registrations of an address is answered 500
    (`RefusalsHaveACause`), where auth.openapi.ts:36 documents 409.

## 5. What is proved

Every invariant, action property and refinement of the passing runs is the conclusion of a theorem; only liveness
is not. The theorems hold for every value of the constants that satisfies the modules' assumptions:

- `ImportsAssumption`: finitely many imports; `FileAssumption`; `ReadsAssumption`: a positive page size.
- `WorkerAssumption`: finitely many slots, positive batch size and attempts, budgets that are naturals, and no import
  named "nobody", which stands for the owner of a key that is not stored.
- `CreationAssumption`, `ApiAssumption`: budgets that are naturals, ids that are not the names of the special answers, and
  uploads that are not named like clients of the auth routes.
- `FilesAssumption`: files are finite sequences, `MaxLineBytes` is positive.
- `RulesAssumption`: upper case has no upper case of its own and is not white space; what `toISOString` makes of an instant is left
  as it is when it is a spelling of its own, which it need not be; scores lie in 0..100. `IntakeAssumption`: every byte of a file that is not
  a line ending has a value, and the texts in a value are finite sequences.

`ImportStoreProofs`
- `StoreTyped`, `CountersBalance`, `AcceptedIsWhatIsStored`, `KeysAreStoredOnce`, `RowsHaveTheirLine`: the
  invariants of `StoreSpec`. They are inductive together (`StoreInv`): `AcceptedMatchesRows`
  needs that the lines a batch inserts were not stored (they have a key the table lacks), which is
  also what keeps `UniqueTransactions`; the counters are naturals because the inserted lines are among
  the valid ones. The lemmas are about the cardinalities of these sets.
- `RejectedIsWhatIsStored`: `RejectedMatchesRows`. The size of the bag of rejected lines is counted as that of the set of
  its copies (`Copies`), since a sum over a bag cannot be reasoned about by induction here.
- `RowsAreKept`: `FirstWriteWins`.

`ImportReadsProofs`
- `ReadersKeepTheStore`: readers stutter on the store, so that the theorems about `StoreSpec` hold beside them.
- `PagesAreInOrder`, `NothingIsPassedOver`: `PagesAscend`, `OldRejectionsAreSeen`. A page is an initial segment, in the
  order of (lineNumber, id), of what lies behind the cursor (`PageFacts`); it has the cursor's next rows because
  each row of a finite set has finitely many before it. `CursorInv`: the cursor is the last row that was sent.
- `NothingSlipsIn`: `PagesHaveNoGaps`, from `RecordsInv`: the rows of an import that nobody has strayed from are of
  lines up to its checkpoint, and a batch that begins there rejects lines behind it only.
- `GroupsCoverTheTotal`: `SummaryIsNotBehind`, from `SummaryInv`: the total is that of rows that are still there, and
  the groups of a set of rows, which partition it, add up to its size (`SumsUp`, by induction on a finite set of groups
  whose induction hypothesis is a set, as the prover needs it).

`ImportWorkerProofs`
- `NoRecordIsSkipped`: `Spec => []NothingSkipped`. `NothingSkipped` is not inductive: it speaks of the
  checkpoint, and an invocation commits from its own, possibly stale, position. `WorkerInv` adds that
  every prefix an invocation stands on is covered: `Safe[i]` is the set of covered lengths of i, the
  checkpoint of every row is in it, and `Sound` says for each pc which of `position` and `batchEnd` are.
  A batch committed from a covered position to `batchEnd` leaves `batchEnd` covered; the guard lets a
  batch be passed over only when the checkpoint, and hence a covered prefix, is at or beyond it; and
  coverage never shrinks because rows are kept. Nothing in this needs that writers are alone.
- `WorkersKeepTheStore`: every worker step is a store step or stutters on the store, so that
  the invariants of the store carry over.
- `TypeCorrect`: `Spec => []TypeOK`.

`WorkerOnceProofs`, while `Undisturbed`: the first two conclude an invariant wherever it still holds, the last two suppose it
throughout. There may be any number of crashes, or else of pauses, and of failing calls, lost acknowledgements, cancellations and
redeliveries. The condition is the one that `finding_double_count` and a lost lock (`worker_overlap`) break.
- `WritersAreAlone`: `OneWriter`. `Exclusive` says that the right to an import is in one waiting job or with one slot (`OneClaim`),
  that every slot still holds the lock of its job (`LocksKept`), and that nothing pauses before a shutdown (`NoPause`). What
  a slot's claim is depends on the behaviour: without shutdowns it lasts until the job is gone, as only a crash hands it
  back; without crashes it ends where the fresh job of a pause is added, though the old job is still locked.
- `CountedOnce`: `ProgressIsExact`. `Knowing` adds what the invocation with the claim knows of its row: its position
  is the checkpoint, or, behind the commit of its batch, the end of the batch is (`InStep`). The guard of
  `commitBatchOnce` then lets a batch be passed over only when it is the one that was just committed and whose acknowledgement was lost.
- `FinishedIsLeftAlone`: `FinishedStaysFinished`, from `Rests`: an invocation on a finished import has yet to read its status.
- `WorkersReadOnce`: `ImplementsOnce`. A commit is `EffectivelyOnce`'s step from the checkpoint to the end of the batch: the keys it
  inserts are those without an owner, each by its first line in the batch; every other step leaves checkpoints, owners and
  counters alone. `UniqueTransactions` makes the owner of a key well-defined.

`ImportCreationProofs`
- `CreationTyped`, `KeysAreUnique`, `JobsComeLast`, `FilesHaveTheirImport`, `OwnJobIsThere`. None of these properties
  is inductive, as they say nothing of requests under way. `CreationInv` adds `DoneBy`: where a request stands tells
  which of the four effects (row, object, `uploaded_file`, job) have happened, and a job presupposes the other
  three; and `HonestTo`: what a client was told is an import that exists, under the client's own key. A step of one request
  leaves the others alone and creates a row only for a key nobody holds (`StepOf`, `StepInv`), so that each
  action needs to be looked at for its own request only. Failing calls keep it because each of them either
  did or did not do what its next step would rely on, and no next step comes.
  `FilesHaveTheirImport` (`FilesAreAccountedFor`) adds `FileOf`: where a request stands tells what its object may be, and a file that was cut
  was refused from the moment of the limit event on, as the first answer stands.
- `FirstAnswerStands`: `AnsweredOnce`.
- `HandlerKeepsItsPromise`: `ImplementsPromise`. Under `CreationInv` a step of a request (`Serves`) creates at most its
  own import, queues at most its own and answers at most its own client (`OwnEffects`, `OthersAlone`); the end
  of the process (`Abandons`) only settles which jobs got through.

`ApiProcessProofs`
- `ApiTyped`, `UploadsSurvive`: registrations share only the count of faults with uploads, and every step of the
  process is a step of `ImportCreation` or leaves it alone but for that count.
- `AccountsStay`, `RefusalsAreTrue`: `Truthful`, which adds that no account is a client's own while its insert is
  still to come; accounts that are there are never replaced.
- `LossesAreTold`: `NoSilentLoss`, from `Accounted` (a request under way has been told of no import) and
  `ProcessInv` (from `HttpServerClosed` on, every request has its answer, and no connection is left that another could come over).

`NdjsonLinesProofs`
- `EveryByteIsInOneLine`: `NoByteLost`. It is not inductive, since it says nothing of the buffer. `ParseInv` adds that
  the buffer holds the file from `byteOffset` to `read`, that a chunk is awaited only with no newline and at most
  `MaxLineBytes` in it, and that `lineNumber` and `byteOffset` are those of the last line, which is what a restart sets them to.
- `ShortLinesAreKept`: `LinesAreTheFiles`, from `ShortInv`: between chunks as many lines were yielded as newlines passed.
- `ParserTyped`: `TypeOK`.

`BatchIntakeProofs`
- `IntakeParses`: `IntakeSpec => Spec`: the batch loop implements the parser, so that `NoByteIsLost` and `LinesAreIntact` hold in it.
- `EachLineIsScreenedOnce`: `ScreenedOnce`. `ScreenedInv` says that what was accepted lists the rows of the valid lines up to
  `committed`, each once and in order, and likewise for the rejected (`Listed`); a batch appends the listing of its own lines
  (`BatchListing`, `JoinedListing`), and a restart keeps the lines up to `committed`, whose rows are hence the same.
- `IntakeTyped`: `IntakeTypeOK`: the lines that are not blank are at most as many as the bytes.
- `NothingElseIsFatal`: `FatalRecordsAreKnown`: a batch that throws or cannot be stored has a line that is to blame, which holds one value, a
  byte of the file, or is a piece of the file that is not JSON.
- `StoredIsInNormalForm`: `StoredIsCanonical`, from the idempotence of trimming, of removing control characters, of upper case and of
  timestamps, from trimming last (`NormalForm` fails for the other order), and from how far the two roundings may lie apart (`CentsAgree`).
- `OutcomeDependsOnTheFile`: `OutcomeIsTheFiles`. The k-th line of a parsed short file holds the bytes between two newlines but for a CR
  (`FileLineIs`) and hence one value or none (`FileValueIs`), every byte is in a line (`BytesAreInLines`), a completed import has committed all
  lines, and the level that is written back to a record is its own, since `AcceptedIndex` counts the valid lines up to it (`LevelsAreTheirs`).

Only model-checked: the four liveness properties (`EveryImportEnds`, `CancelIsAnswered`, `EveryClientIsAnswered`, `ShutdownEnds`) and
that the assumptions are met by the runs' instances. Liveness rests on fairness and ENABLED, which the prover does not
handle. Induction over data is out of its reach too: the definitions use sets of positions, cardinalities and functions where
recursion would be the habit, and the lemmas' inductions go over sets (`SUBSET Nat` with a least element, subsets of a finite
set) rather than over formulas. What the code does outside `Undisturbed` has its runs: `worker_overlap`, whose property is proved
without the condition, and `finding_double_count`.

## 6. What is not modelled

- What `capJsonValue` leaves of a rejected line, but for whether a column takes it, and the weights and hashes of the risk
  score: functions no other state depends on. The score is any function of the record.
- Metrics (nothing reads them back), including the drift of `active_imports` when an await of `process` rejects
  outside its `try`.
- Tokens and `authenticate`, rate limiting, request ids, error formatting, OpenAPI, configuration, wiring:
  no state that a property is about.
- The sums of amounts in a summary, and the text of a cursor, which stands for the pair it encodes.
- Time: retry delays and grace periods are nondeterminism.
- Uploads whose client goes away: they never end, and hold a connection and a row without a job.
- Deletion of rows: no code deletes any. `findById` of a row that does not exist: every job names an existing import.

## 7. Plan

1. Proofs: exactness of one import while only *its* queue history is undisturbed, in place of the global `Undisturbed`.
2. Proofs: that a cancellation that was read at a boundary is not lost (the safety part of `CancelIsAnswered`), and which
   of the queue's jobs an unfinished import has (the safety part of `EveryImportEnds`).
3. The drift of `active_imports` as a counter beside `ImportWorker`.
