--------------------------- MODULE WorkerOnceProofs ---------------------------
(* What holds of the workers while every import has one job (Undisturbed),    *)
(* for any number of processes, slots, imports, files, batch sizes and        *)
(* failing calls: one invocation at a time writes an import, its progress is  *)
(* exact, what is finished stays finished, and the worker implements          *)
(* EffectivelyOnce.                                                           *)
(*                                                                            *)
(* The argument.  The right to an import is passed on and never doubled: it   *)
(* lies in one waiting job or with one slot (OneClaim).  In a behaviour       *)
(* without shutdowns a slot has it until its job is gone, since a crash hands *)
(* the job back; in one without crashes it has it only until it pauses, which *)
(* hands it on to the fresh job.  Whoever has it finds the checkpoint where   *)
(* it left it (InStep).                                                       *)
EXTENDS ImportWorkerProofs

\* Where an invocation may still write to an import that is not at its end, or
\* hand it on.
CurrentPC == WritingPC \cup {"findById", "cancelAtStart", "cancelAtBoundary",
                             "reenqueue", "markCompleted"}

Claims(w) == IF shutdowns = 0 THEN slot[w].pc # "idle" ELSE slot[w].pc \in CurrentPC

OneClaim ==
  /\ \A v, w \in Slots : Claims(v) /\ Claims(w) /\ ImportOf(v) = ImportOf(w) => v = w
  /\ \A j \in Jobs : waiting[j] <= 1
  /\ \A j, k \in Jobs : waiting[j] > 0 /\ waiting[k] > 0 /\ j.import = k.import => j = k
  /\ \A j \in Jobs, w \in Slots : waiting[j] > 0 /\ Claims(w) => j.import # ImportOf(w)

LocksKept == \A w \in Slots : active[w].import = slot[w].import

NoPause == shutdowns = 0 =>
  shuttingDown = {} /\ \A w \in Slots : ~At(w, "reenqueue")

Exclusive == Undisturbed => LocksKept /\ NoPause /\ OneClaim

\* What the invocation s knows of the row r of its import.
InStep(s, r) ==
  /\ s.pc \in WritingPC \ BatchPC => r.checkpoint = s.position
  /\ s.pc = "commitGuard" => r.checkpoint \in {s.position, s.batchEnd}
  /\ s.pc = "commitWrites" => r.checkpoint = s.position
  /\ s.pc = "boundary" => r.checkpoint = s.batchEnd
  /\ s.pc \in BatchPC => s.batchEnd <= s.position + BatchSize

\* A finished import is left to an invocation that has yet to read its row.
Rests(s, r) ==
  r.status \in {"completed", "cancelled"} /\ s.pc \in CurrentPC => s.pc = "findById"

Knowing == \A w \in Slots :
  slot[w].pc # "idle" => InStep(slot[w], row[ImportOf(w)]) /\ Rests(slot[w], row[ImportOf(w)])

OnceInv == Exclusive /\ (Undisturbed => Knowing /\ ProgressIsExact)

\* What the earlier proofs establish of every state.
BaseInv == WorkerInv /\ RestTypeOK

LEMMA BaseAlways == Spec => []BaseInv
<1>1. TypeOK => RestTypeOK
  BY DEF TypeOK, RestTypeOK
<1>2. BaseInv <=> WorkerInv /\ RestTypeOK
  BY DEF BaseInv
<1> QED
  BY <1>1, <1>2, WorkerInvAlways, TypeCorrect, PTL

------------------------------------------------------------------------------
\* What the steps do to slots, queue and budgets.

\* The steps of an invocation after which it goes on.
Goes(w) == Process(w) /\ ~Reenqueue(w) /\ ~Resolve(w) /\ ~Reject(w)

\* The types of the slots, as the steps need them.
LEMMA StateFacts ==
  ASSUME BaseInv
  PROVE  /\ slot \in [Slots -> Invocation]
         /\ active \in [Slots -> Jobs \cup {NoJob}]
         /\ waiting \in [Jobs -> Nat]
         /\ crashes \in Nat /\ shutdowns \in Nat /\ lockLosses \in Nat
         /\ "none" \notin Imports
BY WorkerAssumption
   DEF BaseInv, WorkerInv, SlotsInv, RestTypeOK, WorkerTypeOK, QueueTypeOK

LEMMA SlotFacts ==
  ASSUME BaseInv, NEW w \in Slots
  PROVE  /\ slot \in [Slots -> Invocation] /\ slot[w] \in Invocation
         /\ slot[w].pc = "idle" <=> slot[w].import = "none"
         /\ slot[w].pc # "idle" => slot[w].import \in Imports
         /\ active \in [Slots -> Jobs \cup {NoJob}]
         /\ waiting \in [Jobs -> Nat]
         /\ "none" \notin Imports
BY StateFacts DEF BaseInv, WorkerInv, SlotsInv, Sound, RestTypeOK, WorkerTypeOK

\* What has been disturbed stays disturbed, and a lost lock disturbs.
LEMMA BudgetsGrow ==
  ASSUME BaseInv, [Next]_vars
  PROVE  /\ crashes' \in {crashes, crashes + 1}
         /\ shutdowns' \in {shutdowns, shutdowns + 1}
         /\ lockLosses' \in {lockLosses, lockLosses + 1}
         /\ Undisturbed' => Undisturbed
         /\ \A w \in Slots : LoseLock(w) => ~Undisturbed'
<1>1. \/ UNCHANGED <<crashes, lockLosses, shutdowns>>
      \/ crashes' = crashes + 1 /\ UNCHANGED <<lockLosses, shutdowns>>
      \/ shutdowns' = shutdowns + 1 /\ UNCHANGED <<lockLosses, crashes>>
      \/ lockLosses' = lockLosses + 1 /\ UNCHANGED <<crashes, shutdowns>>
  <2>1. CASE UNCHANGED budgetVars
    BY <2>1 DEF budgetVars
  <2>2. CASE Fault
    BY <2>2 DEF Fault
  <2>3. ASSUME NEW w \in Slots, Take(w) \/ LoseLock(w)
        PROVE  \/ UNCHANGED budgetVars
               \/ lockLosses' = lockLosses + 1 /\ UNCHANGED <<crashes, shutdowns>>
    BY <2>3 DEF Take, LoseLock
  <2>4. ASSUME NEW w \in Slots, Process(w) PROVE UNCHANGED budgetVars \/ Fault
    BY <2>4, Zenon DEF Process, Update, FindById, CancelAtStart, GetUploadedFile,
       StartProcessing, OpenStream, ReadBatch, CommitGuard, CommitWrites, CommitFails,
       Boundary, CancelAtBoundary, Reenqueue, Complete, GiveUp, Resolve, Reject
  <2>5. ASSUME NEW i \in Imports, ReadForCancel(i) \/ WriteCancel(i) PROVE UNCHANGED budgetVars
    BY <2>5 DEF ReadForCancel, WriteCancel
  <2>6. ASSUME NEW h \in Hosts, Shutdown(h) \/ Restart(h) \/ Crash(h)
        PROVE  \/ UNCHANGED budgetVars
               \/ crashes' = crashes + 1 /\ UNCHANGED <<lockLosses, shutdowns>>
               \/ shutdowns' = shutdowns + 1 /\ UNCHANGED <<lockLosses, crashes>>
    BY <2>6 DEF Shutdown, Restart, Crash
  <2> QED
    BY <2>1, <2>2, <2>3, <2>4, <2>5, <2>6 DEF Next, vars, budgetVars
<1>2. crashes \in Nat /\ shutdowns \in Nat /\ lockLosses \in Nat
  BY DEF BaseInv, RestTypeOK, WorkerTypeOK
<1>3. \A w \in Slots : LoseLock(w) => lockLosses' = lockLosses + 1
  BY DEF LoseLock
<1> QED
  BY <1>1, <1>2, <1>3 DEF Undisturbed

\* An invocation that goes on keeps its import, and does not claim it anew.
LEMMA GoesOn ==
  ASSUME BaseInv, NEW w \in Slots, Goes(w)
  PROVE  /\ slot' = [slot EXCEPT ![w] = slot'[w]]
         /\ slot'[w].import = slot[w].import
         /\ slot[w].pc # "idle" /\ slot'[w].pc # "idle"
         /\ slot'[w].pc \in CurrentPC => slot[w].pc \in CurrentPC
         /\ slot'[w].pc = "reenqueue" => HostOf[w] \in shuttingDown
         /\ UNCHANGED <<queueVars, shuttingDown, cancelReads>>
         /\ UNCHANGED <<crashes, lockLosses, shutdowns>>
<1> USE DEF At
<1>1. slot \in [Slots -> Invocation] /\ slot[w] \in Invocation
  BY SlotFacts
<1>2. ASSUME NEW pc \in PC \ {"idle", "reenqueue"}, Goto(w, pc),
             pc \in CurrentPC => slot[w].pc \in CurrentPC
      PROVE  /\ slot' = [slot EXCEPT ![w] = slot'[w]]
             /\ slot'[w].import = slot[w].import
             /\ slot'[w].pc # "idle" /\ slot'[w].pc # "reenqueue"
             /\ slot'[w].pc \in CurrentPC => slot[w].pc \in CurrentPC
  BY <1>1, <1>2 DEF Goto, Invocation
<1>3. /\ UNCHANGED <<queueVars, shuttingDown, cancelReads>>
      /\ UNCHANGED budgetVars \/ Fault
      /\ slot[w].pc # "idle"
  BY Zenon DEF Goes, Process, ProcessFrame, Update, FindById, CancelAtStart,
     GetUploadedFile, StartProcessing, OpenStream, ReadBatch, CommitGuard, CommitWrites,
     CommitFails, Boundary, CancelAtBoundary, Complete, GiveUp
<1>4. UNCHANGED <<crashes, lockLosses, shutdowns>>
  BY <1>3 DEF budgetVars, Fault
<1>5. CASE FindById(w)
  BY <1>1, <1>2, <1>3, <1>4, <1>5 DEF FindById, Invocation, CurrentPC, WritingPC, PC
<1>6. CASE CancelAtStart(w) \/ StartProcessing(w) \/ CancelAtBoundary(w)
           \/ Complete(w) \/ GiveUp(w)
  BY <1>2, <1>3, <1>4, <1>6 DEF CancelAtStart, StartProcessing, CancelAtBoundary,
     Complete, GiveUp, Update, CurrentPC, WritingPC, PC
<1>7. CASE GetUploadedFile(w) \/ OpenStream(w) \/ CommitGuard(w) \/ CommitWrites(w)
  BY <1>2, <1>3, <1>4, <1>7 DEF GetUploadedFile, OpenStream, CommitGuard, CommitWrites,
     CurrentPC, WritingPC, PC
<1>8. CASE ReadBatch(w)
  BY <1>1, <1>2, <1>3, <1>4, <1>8 DEF ReadBatch, Invocation, CurrentPC, WritingPC, PC
<1>9. CASE CommitFails(w)
  BY <1>1, <1>2, <1>3, <1>4, <1>9 DEF CommitFails, RetryOrThrow, Invocation, CurrentPC,
     WritingPC, PC
<1>10. CASE Boundary(w)
  BY <1>1, <1>2, <1>3, <1>4, <1>10 DEF Boundary, Invocation, CurrentPC, WritingPC, PC
<1> QED
  BY <1>5, <1>6, <1>7, <1>8, <1>9, <1>10 DEF Goes, Process

------------------------------------------------------------------------------
\* One claim per import.

\* No claim is added where the queue, the imports and the claims of the slots
\* stay, or shrink.
LEMMA ClaimsShrink ==
  ASSUME OneClaim, LocksKept, UNCHANGED <<waiting, active>>,
         \A v \in Slots : slot'[v].import = slot[v].import,
         \A v \in Slots : Claims(v)' => Claims(v)
  PROVE  OneClaim' /\ LocksKept'
BY DEF OneClaim, LocksKept, ImportOf, Jobs

LEMMA TakeClaim ==
  ASSUME BaseInv, OneClaim, LocksKept, NEW w \in Slots, Take(w)
  PROVE  OneClaim' /\ LocksKept'
<1>1. PICK j \in Jobs : /\ TakeJob(w, j)
                        /\ slot' = [slot EXCEPT ![w] =
                              [Idle EXCEPT !.pc = "findById", !.import = j.import]]
  BY DEF Take
<1>2. /\ slot'[w].pc = "findById" /\ slot'[w].import = j.import
      /\ \A v \in Slots \ {w} : slot'[v] = slot[v]
      /\ slot[w].pc = "idle"
      /\ UNCHANGED shutdowns
  BY <1>1, SlotFacts DEF Take, Idle, At, budgetVars
<1>3. /\ waiting[j] = 1 /\ waiting'[j] = 0
      /\ \A k \in Jobs \ {j} : waiting'[k] = waiting[k]
      /\ active'[w] = j
      /\ \A v \in Slots \ {w} : active'[v] = active[v]
  BY <1>1, SlotFacts DEF TakeJob, OneClaim
<1>4. \A k \in Jobs : waiting'[k] > 0 => k.import # j.import
  BY <1>3, SlotFacts DEF OneClaim
<1>5. \A v \in Slots \ {w} : /\ Claims(v)' <=> Claims(v)
                             /\ Claims(v) => slot[v].import # j.import
  BY <1>2, <1>3 DEF OneClaim, Claims, ImportOf
<1>6. LocksKept'
  BY <1>2, <1>3 DEF LocksKept
<1>7. \A u, v \in Slots : Claims(u)' /\ Claims(v)' /\ slot'[u].import = slot'[v].import => u = v
  BY <1>2, <1>5 DEF OneClaim, ImportOf
<1>8. \A k \in Jobs : waiting'[k] <= 1 /\ (waiting'[k] > 0 => waiting[k] > 0)
  BY <1>3 DEF OneClaim
<1>9. \A k \in Jobs, v \in Slots : waiting'[k] > 0 /\ Claims(v)' => k.import # slot'[v].import
  BY <1>2, <1>4, <1>5, <1>8 DEF OneClaim, ImportOf
<1> QED
  BY <1>6, <1>7, <1>8, <1>9 DEF OneClaim, ImportOf

\* A pause, in a behaviour with shutdowns: the fresh job has the import, and the
\* invocation no longer.
LEMMA ReenqueueClaim ==
  ASSUME BaseInv, OneClaim, LocksKept, NoPause, NEW w \in Slots, Reenqueue(w)
  PROVE  OneClaim' /\ LocksKept'
<1>1. /\ slot[w].pc = "reenqueue" /\ slot[w].pc \in CurrentPC
      /\ Goto(w, "resolve") \/ Goto(w, "markFailed")
      /\ UNCHANGED <<shuttingDown, shutdowns>>
  BY DEF Reenqueue, At, CurrentPC, Fault, budgetVars
<1>2. /\ slot'[w].pc \notin CurrentPC /\ slot'[w].import = slot[w].import
      /\ \A v \in Slots \ {w} : slot'[v] = slot[v]
  BY <1>1, SlotFacts DEF Goto, Invocation, CurrentPC, WritingPC
<1>3. shutdowns # 0 /\ shutdowns' # 0
  BY <1>1 DEF NoPause, At
<1>4. /\ Claims(w) /\ ~Claims(w)'
      /\ \A v \in Slots \ {w} : Claims(v)' <=> Claims(v)
  BY <1>1, <1>2, <1>3 DEF Claims
<1>5. \A v \in Slots : slot'[v].import = slot[v].import
  BY <1>2
<1>6. CASE UNCHANGED queueVars
  BY <1>4, <1>5, <1>6, ClaimsShrink DEF queueVars
<1>7. CASE Enqueue(slot[w].import)
  <2> DEFINE i == slot[w].import
             j == [import |-> i, stalls |-> 0]
  <2>1. i \in Imports /\ j \in Jobs /\ j.import = i
    BY <1>1, SlotFacts, WorkerAssumption DEF Jobs
  <2>2. /\ \A v \in Slots \ {w} : Claims(v) => slot[v].import # i
        /\ \A k \in Jobs : waiting[k] > 0 => k.import # i
    BY <1>4 DEF OneClaim, ImportOf
  <2>3. waiting[j] = 0 /\ \A k \in Jobs : waiting[k] \in Nat
    BY <2>1, <2>2, SlotFacts
  <2>4. waiting' = [waiting EXCEPT ![j] = waiting[j] + 1] /\ active' = active
    BY <1>7 DEF Enqueue
  <2> HIDE DEF j
  <2>5. waiting'[j] = 1 /\ \A k \in Jobs \ {j} : waiting'[k] = waiting[k]
    BY <2>1, <2>3, <2>4, SlotFacts
  <2>6. \A k, l \in Jobs : waiting'[k] > 0 /\ waiting'[l] > 0 /\ k.import = l.import => k = l
    BY <2>1, <2>2, <2>5 DEF OneClaim
  <2>7. \A k \in Jobs, v \in Slots : waiting'[k] > 0 /\ Claims(v)' => k.import # slot'[v].import
    BY <1>4, <1>5, <2>1, <2>2, <2>5 DEF OneClaim, ImportOf
  <2>8. \A u, v \in Slots : Claims(u)' /\ Claims(v)' /\ slot'[u].import = slot'[v].import => u = v
    BY <1>4, <1>5 DEF OneClaim, ImportOf
  <2>9. \A k \in Jobs : waiting'[k] <= 1
    BY <2>5 DEF OneClaim
  <2>10. LocksKept'
    BY <1>5, <2>4 DEF LocksKept
  <2> QED
    BY <2>6, <2>7, <2>8, <2>9, <2>10 DEF OneClaim, ImportOf
<1> QED
  BY <1>6, <1>7 DEF Reenqueue, ImportOf

LEMMA LeaveClaim ==
  ASSUME BaseInv, OneClaim, LocksKept, NEW w \in Slots, Resolve(w) \/ Reject(w)
  PROVE  OneClaim' /\ LocksKept'
<1>1. /\ slot'[w] = Idle /\ \A v \in Slots \ {w} : slot'[v] = slot[v]
      /\ active'[w] = NoJob /\ \A v \in Slots \ {w} : active'[v] = active[v]
      /\ UNCHANGED <<waiting, shutdowns>>
  BY SlotFacts DEF Resolve, Reject, Freed, CompleteJob, FailJob, budgetVars
<1>2. LocksKept'
  BY <1>1 DEF LocksKept, Idle, NoJob
<1>3. ~Claims(w)' /\ \A v \in Slots \ {w} : Claims(v)' <=> Claims(v)
  BY <1>1 DEF Claims, Idle, CurrentPC, WritingPC
<1>4. \A v \in Slots : Claims(v)' => Claims(v) /\ slot'[v].import = slot[v].import
  BY <1>1, <1>3
<1> QED
  BY <1>1, <1>2, <1>4 DEF OneClaim, ImportOf

\* A crash, in a behaviour without shutdowns: each slot of the host hands back
\* the one job of its import.
LEMMA CrashClaim ==
  ASSUME BaseInv, OneClaim, LocksKept, shutdowns = 0, NEW h \in Hosts, Crash(h)
  PROVE  OneClaim' /\ LocksKept'
<1> DEFINE mine == {w \in Slots : HostOf[w] = h}
           lost == {w \in mine : Holds(w)}
           Again(j) == {w \in lost : /\ active[w].import = j.import
                                     /\ active[w].stalls + 1 = j.stalls}
<1>1. /\ waiting' = [j \in Jobs |-> waiting[j] + Cardinality(Again(j))]
      /\ active' = [w \in Slots |-> IF w \in mine THEN NoJob ELSE active[w]]
      /\ slot' = [w \in Slots |-> IF w \in mine THEN Idle ELSE slot[w]]
      /\ shutdowns' = 0
  BY DEF Crash, StallJobs
<1>2. LocksKept'
  BY <1>1 DEF LocksKept, Idle, NoJob
<1>3. \A v \in Slots : Claims(v)' =>
         v \notin mine /\ Claims(v) /\ slot'[v].import = slot[v].import
  BY <1>1 DEF Claims, Idle
<1>4. \A v \in lost : Claims(v) /\ slot[v].import = active[v].import
  <2> SUFFICES ASSUME NEW v \in lost
               PROVE  Claims(v) /\ slot[v].import = active[v].import
    OBVIOUS
  <2>1. active[v].import = slot[v].import /\ active[v] \in Jobs
    BY SlotFacts DEF Holds, LocksKept
  <2>2. slot[v].pc # "idle"
    BY <2>1, SlotFacts DEF Jobs
  <2> QED
    BY <2>1, <2>2 DEF Claims
<1>5. ASSUME NEW j \in Jobs
      PROVE  \/ Again(j) = {}
             \/ \E v \in lost : /\ Again(j) = {v} /\ Claims(v) /\ v \in mine
                                /\ slot[v].import = j.import
                                /\ active[v].stalls + 1 = j.stalls
  <2> SUFFICES ASSUME NEW v \in Again(j)
               PROVE  /\ v \in lost /\ Again(j) = {v} /\ Claims(v) /\ v \in mine
                      /\ slot[v].import = j.import
                      /\ active[v].stalls + 1 = j.stalls
    OBVIOUS
  <2>1. ASSUME NEW u \in Again(j) PROVE u = v
    <3>1. /\ Claims(u) /\ slot[u].import = active[u].import /\ u \in Slots
          /\ Claims(v) /\ slot[v].import = active[v].import /\ v \in Slots
          /\ active[u].import = active[v].import
      BY <1>4
    <3> QED
      BY <3>1 DEF OneClaim, ImportOf
  <2> QED
    BY <1>4, <2>1
<1>6. ASSUME NEW j \in Jobs
      PROVE  \/ waiting'[j] = waiting[j]
             \/ /\ waiting[j] = 0 /\ waiting'[j] = 1
                /\ \E v \in lost : /\ Claims(v) /\ v \in mine /\ slot[v].import = j.import
                                   /\ active[v].stalls + 1 = j.stalls
  <2> HIDE DEF Again
  <2>1. waiting'[j] = waiting[j] + Cardinality(Again(j)) /\ waiting[j] \in Nat
    BY <1>1, StateFacts
  <2>2. CASE Again(j) = {}
    BY <2>1, <2>2, FS_EmptySet
  <2>3. ASSUME NEW v \in lost, Again(j) = {v}, Claims(v), v \in mine,
               slot[v].import = j.import, active[v].stalls + 1 = j.stalls
        PROVE  waiting[j] = 0 /\ waiting'[j] = 1
    <3>1. Cardinality(Again(j)) = 1
      BY <2>3, FS_Singleton
    <3>2. ~(waiting[j] > 0)
      BY <2>3 DEF OneClaim, ImportOf
    <3> QED
      BY <2>1, <3>1, <3>2
  <2> HIDE DEF lost, mine
  <2> QED
    BY <1>5, <2>1, <2>2, <2>3
<1> HIDE DEF lost, mine
<1>7. \A j \in Jobs : waiting'[j] <= 1
  BY <1>6 DEF OneClaim
<1>8. \A j, k \in Jobs : waiting'[j] > 0 /\ waiting'[k] > 0 /\ j.import = k.import => j = k
  <2> SUFFICES ASSUME NEW j \in Jobs, NEW k \in Jobs, waiting'[j] > 0, waiting'[k] > 0,
                      j.import = k.import
               PROVE  j = k
    OBVIOUS
  <2>1. CASE waiting'[j] = waiting[j] /\ waiting'[k] = waiting[k]
    BY <2>1 DEF OneClaim
  <2>2. ASSUME NEW v \in lost, Claims(v), v \in mine, slot[v].import = j.import
        PROVE  ~(waiting[j] > 0) /\ ~(waiting[k] > 0)
    BY <2>2 DEF OneClaim, ImportOf, lost, mine
  <2>3. ASSUME NEW v \in lost, Claims(v), slot[v].import = j.import,
               active[v].stalls + 1 = j.stalls,
               NEW u \in lost, Claims(u), slot[u].import = k.import,
               active[u].stalls + 1 = k.stalls
        PROVE  j = k
    <3>1. u = v
      BY <2>3 DEF OneClaim, ImportOf, lost, mine
    <3> QED
      BY <2>3, <3>1 DEF Jobs
  <2> QED
    BY <1>6, <2>1, <2>2, <2>3
<1>9. \A j \in Jobs, v \in Slots : waiting'[j] > 0 /\ Claims(v)' => j.import # slot'[v].import
  <2> SUFFICES ASSUME NEW j \in Jobs, NEW v \in Slots, waiting'[j] > 0, Claims(v)'
               PROVE  j.import # slot'[v].import
    OBVIOUS
  <2>1. v \notin mine /\ Claims(v) /\ slot'[v].import = slot[v].import
    BY <1>3
  <2>2. CASE waiting'[j] = waiting[j]
    BY <2>1, <2>2 DEF OneClaim, ImportOf
  <2>3. ASSUME NEW u \in lost, Claims(u), u \in mine, slot[u].import = j.import
        PROVE  j.import # slot'[v].import
    BY <2>1, <2>3 DEF OneClaim, ImportOf, lost, mine
  <2> QED
    BY <1>6, <2>2, <2>3
<1> QED
  BY <1>2, <1>3, <1>7, <1>8, <1>9 DEF OneClaim, ImportOf

\* Every other step leaves the queue and the slots alone.
LEMMA AsideStep ==
  ASSUME \/ UNCHANGED vars
         \/ \E i \in Imports : ReadForCancel(i) \/ WriteCancel(i)
         \/ \E h \in Hosts : Shutdown(h) \/ Restart(h)
  PROVE  /\ UNCHANGED <<waiting, active, slot>>
         /\ \/ UNCHANGED shutdowns /\ shuttingDown' \subseteq shuttingDown
            \/ shutdowns' = shutdowns + 1
BY DEF vars, workerVars, queueVars, budgetVars, ReadForCancel, WriteCancel, Shutdown, Restart

LEMMA ExclusiveStep == BaseInv /\ Exclusive /\ [Next]_vars => Exclusive'
<1> SUFFICES ASSUME BaseInv, [Next]_vars, Undisturbed', LocksKept, NoPause, OneClaim
             PROVE  LocksKept' /\ NoPause' /\ OneClaim'
  BY BudgetsGrow DEF Exclusive
<1> USE DEF At
<1>1. ASSUME NEW w \in Slots, Take(w) PROVE LocksKept' /\ NoPause' /\ OneClaim'
  <2>1. NoPause'
    BY <1>1, SlotFacts DEF Take, NoPause, Idle, budgetVars
  <2> QED
    BY <1>1, <2>1, TakeClaim
<1>2. ASSUME NEW w \in Slots, Goes(w) PROVE LocksKept' /\ NoPause' /\ OneClaim'
  <2>1. /\ slot' = [slot EXCEPT ![w] = slot'[w]]
        /\ slot'[w].import = slot[w].import
        /\ slot[w].pc # "idle" /\ slot'[w].pc # "idle"
        /\ slot'[w].pc \in CurrentPC => slot[w].pc \in CurrentPC
        /\ slot'[w].pc = "reenqueue" => HostOf[w] \in shuttingDown
        /\ UNCHANGED <<waiting, active, shuttingDown, shutdowns>>
    BY <1>2, GoesOn DEF queueVars
  <2>2. \A v \in Slots \ {w} : slot'[v] = slot[v]
    BY <2>1, SlotFacts
  <2>3. NoPause'
    BY <2>1, <2>2 DEF NoPause
  <2>4. \A v \in Slots : Claims(v)' => Claims(v)
    BY <2>1, <2>2 DEF Claims
  <2> QED
    BY <2>1, <2>2, <2>3, <2>4, ClaimsShrink
<1>3. ASSUME NEW w \in Slots, Reenqueue(w) PROVE LocksKept' /\ NoPause' /\ OneClaim'
  <2>1. shutdowns' # 0
    BY <1>3 DEF Reenqueue, NoPause, Fault, budgetVars
  <2> QED
    BY <1>3, <2>1, ReenqueueClaim DEF NoPause
<1>4. ASSUME NEW w \in Slots, Resolve(w) \/ Reject(w) PROVE LocksKept' /\ NoPause' /\ OneClaim'
  <2>1. NoPause'
    BY <1>4, SlotFacts DEF Resolve, Reject, Freed, Idle, NoPause, budgetVars
  <2> QED
    BY <1>4, <2>1, LeaveClaim
<1>5. ASSUME NEW h \in Hosts, Crash(h) PROVE LocksKept' /\ NoPause' /\ OneClaim'
  <2>1. crashes' # 0 /\ shutdowns' = shutdowns
    BY <1>5, StateFacts DEF Crash
  <2>2. shutdowns = 0
    BY <2>1 DEF Undisturbed
  <2>3. NoPause'
    BY <1>5, <2>2 DEF Crash, NoPause, Idle
  <2> QED
    BY <1>5, <2>2, <2>3, CrashClaim
<1>6. CASE \/ UNCHANGED vars
           \/ \E i \in Imports : ReadForCancel(i) \/ WriteCancel(i)
           \/ \E h \in Hosts : Shutdown(h) \/ Restart(h)
  <2>1. /\ UNCHANGED <<waiting, active, slot>>
        /\ \/ UNCHANGED shutdowns /\ shuttingDown' \subseteq shuttingDown
           \/ shutdowns' = shutdowns + 1
    BY <1>6, AsideStep
  <2>2. shutdowns' = 0 => shutdowns = 0 /\ shuttingDown' \subseteq shuttingDown
    BY <2>1, StateFacts
  <2>3. NoPause'
    BY <2>1, <2>2 DEF NoPause
  <2>4. \A v \in Slots : Claims(v)' => Claims(v)
    BY <2>1, <2>2 DEF Claims, CurrentPC, WritingPC
  <2> QED
    BY <2>1, <2>3, <2>4, ClaimsShrink
<1>7. \A w \in Slots : ~LoseLock(w)
  BY BudgetsGrow
<1>8. \A w \in Slots : Process(w) => Goes(w) \/ Reenqueue(w) \/ Resolve(w) \/ Reject(w)
  BY DEF Goes
<1> QED
  BY <1>1, <1>2, <1>3, <1>4, <1>5, <1>6, <1>7, <1>8 DEF Next

LEMMA ExclusiveInit == Init => Exclusive
<1> SUFFICES ASSUME Init PROVE LocksKept /\ NoPause /\ OneClaim
  BY DEF Exclusive
<1>1. LocksKept /\ NoPause
  BY DEF Init, LocksKept, NoPause, Idle, NoJob, At
<1>2. \A w \in Slots : ~Claims(w)
  BY DEF Init, Claims, Idle
<1>3. /\ waiting = [j \in Jobs |-> IF j.stalls = 0 THEN 1 ELSE 0]
      /\ \A j, k \in Jobs : j.stalls = 0 /\ k.stalls = 0 /\ j.import = k.import => j = k
  BY DEF Init, Jobs
<1>4. \A j \in Jobs : waiting[j] <= 1 /\ (waiting[j] > 0 => j.stalls = 0)
  BY <1>3
<1>5. OneClaim
  BY <1>2, <1>3, <1>4 DEF OneClaim
<1> QED
  BY <1>1, <1>5

LEMMA ExclusiveAlways == Spec => []Exclusive
BY ExclusiveInit, ExclusiveStep, BaseAlways, PTL DEF Spec

\* While every import has one job, two slots never write the batches of one
\* import, on however many slots and processes, also across crashes and
\* redeliveries, or pauses and fresh jobs (imports.processor.ts:149).
THEOREM WritersAreAlone == Spec => [](Undisturbed => OneWriter)
<1>1. Exclusive => (Undisturbed => OneWriter)
  BY DEF Exclusive, OneWriter, OneClaim, Writing, Claims, CurrentPC, WritingPC
<1> QED
  BY <1>1, ExclusiveAlways, PTL

------------------------------------------------------------------------------
\* What an invocation knows of its row, and the progress of an import.

\* A step that changes no table and no number.
NoProgress ==
  /\ UNCHANGED <<stored, rejections>>
  /\ \A i \in Imports : /\ row'[i].checkpoint = row[i].checkpoint
                        /\ row'[i].processed = row[i].processed
                        /\ row'[i].accepted = row[i].accepted
                        /\ row'[i].rejected = row[i].rejected

\* The only way a row changes that the invocation on w is not about.
RowSteps(i) == \/ UNCHANGED storeVars
               \/ \E s \in {"processing", "completed", "failed", "cancelled"} : SetStatus(i, s)
               \/ WriteCancellation(i)

LEMMA RowStepsKeep ==
  ASSUME BaseInv, NEW i \in Imports, RowSteps(i)
  PROVE  NoProgress /\ \A j \in Imports \ {i} : row'[j] = row[j]
BY DEF BaseInv, WorkerInv, StoreInv, StoreTypeOK, Row, RowSteps, SetStatus,
       WriteCancellation, storeVars, NoProgress

\* What a step of an invocation does to the store.
LEMMA GoesStore ==
  ASSUME BaseInv, NEW w \in Slots, Goes(w)
  PROVE  RowSteps(ImportOf(w)) \/ (At(w, "commitWrites") /\ CommitHere(w))
<1>1. CASE FindById(w) \/ GetUploadedFile(w) \/ OpenStream(w) \/ ReadBatch(w)
           \/ CommitGuard(w) \/ Boundary(w)
  BY <1>1 DEF FindById, GetUploadedFile, OpenStream, ReadBatch, CommitGuard, Boundary, RowSteps
<1>2. CASE CancelAtStart(w) \/ StartProcessing(w) \/ CancelAtBoundary(w)
           \/ Complete(w) \/ GiveUp(w)
  BY <1>2, Zenon DEF CancelAtStart, StartProcessing, CancelAtBoundary, Complete, GiveUp, Update,
     MarkCancelled, MarkProcessing, MarkCompleted, MarkFailed, RowSteps
<1>3. CASE CommitWrites(w) \/ CommitFails(w)
  BY <1>3 DEF CommitWrites, CommitFails, RowSteps
<1> QED
  BY <1>1, <1>2, <1>3 DEF Goes, Process

LEMMA Progress ==
  ASSUME BaseInv, [Next]_vars
  PROVE  NoProgress \/ \E w \in Slots : At(w, "commitWrites") /\ CommitHere(w)
<1>1. CASE UNCHANGED storeVars
  BY <1>1 DEF storeVars, NoProgress
<1>2. ASSUME NEW w \in Slots, Goes(w)
      PROVE  NoProgress \/ (At(w, "commitWrites") /\ CommitHere(w))
  <2>1. ImportOf(w) \in Imports
    BY <1>2, GoesOn, SlotFacts DEF ImportOf
  <2> QED
    BY <1>2, <2>1, GoesStore, RowStepsKeep
<1>3. ASSUME NEW i \in Imports, WriteCancel(i) PROVE NoProgress
  BY <1>3, RowStepsKeep DEF WriteCancel, RowSteps
<1>4. ASSUME NEW w \in Slots, Take(w) \/ Reenqueue(w) \/ Resolve(w) \/ Reject(w) \/ LoseLock(w)
      PROVE  UNCHANGED storeVars
  BY <1>4 DEF Take, Reenqueue, Resolve, Reject, LoseLock
<1>5. ASSUME NEW h \in Hosts, Shutdown(h) \/ Restart(h) \/ Crash(h)
      PROVE  UNCHANGED storeVars
  BY <1>5 DEF Shutdown, Restart, Crash
<1>6. ASSUME NEW i \in Imports, ReadForCancel(i) PROVE UNCHANGED storeVars
  BY <1>6 DEF ReadForCancel
<1> QED
  BY <1>1, <1>2, <1>3, <1>4, <1>5, <1>6 DEF Next, Goes, vars

\* The row of the import after its batch is committed.
LEMMA CommitRow ==
  ASSUME BaseInv, NEW w \in Slots, At(w, "commitWrites"), CommitHere(w)
  PROVE  /\ ImportOf(w) \in Imports
         /\ row'[ImportOf(w)].checkpoint = slot[w].batchEnd
         /\ row'[ImportOf(w)].status = row[ImportOf(w)].status
         /\ \A j \in Imports \ {ImportOf(w)} : row'[j] = row[j]
<1>1. ImportOf(w) \in Imports
  BY SlotFacts DEF At, ImportOf
<1> QED
  BY <1>1 DEF CommitHere, CommitBatch, BaseInv, WorkerInv, StoreInv, StoreTypeOK, Row

LEMMA Unknowing ==
  ASSUME NEW s, s.pc \notin CurrentPC, NEW r
  PROVE  InStep(s, r) /\ Rests(s, r)
BY DEF InStep, Rests, CurrentPC, WritingPC, BatchPC

\* The other slots: their import is another one, or they rely on nothing, or
\* the invocation on w is giving up.
LEMMA OthersKnow ==
  ASSUME BaseInv, OneClaim, Knowing, NEW w \in Slots, Goes(w),
         NEW v \in Slots \ {w}, slot[v].pc # "idle"
  PROVE  InStep(slot[v], row'[ImportOf(v)]) /\ Rests(slot[v], row'[ImportOf(v)])
<1> DEFINE i == ImportOf(v)
<1>1. /\ i \in Imports /\ ImportOf(w) \in Imports
      /\ InStep(slot[v], row[i]) /\ Rests(slot[v], row[i])
  BY GoesOn, SlotFacts DEF Knowing, ImportOf
<1>2. CASE slot[v].pc \notin CurrentPC
  BY <1>2, Unknowing
<1>3. CASE i # ImportOf(w)
  <2>1. row'[i] = row[i]
    BY <1>1, <1>3, GoesStore, RowStepsKeep, CommitRow
  <2> QED
    BY <1>1, <2>1
<1>4. CASE slot[v].pc \in CurrentPC /\ i = ImportOf(w)
  <2>1. Claims(v)
    BY <1>4 DEF Claims, CurrentPC, WritingPC
  <2>2. ~Claims(w) /\ slot[w].pc # "idle"
    BY <1>4, <2>1, GoesOn DEF OneClaim
  <2>3. slot[w].pc \notin CurrentPC
    BY <2>2 DEF Claims
  <2>4. GiveUp(w)
    BY <2>3 DEF Goes, Process, At, CurrentPC, WritingPC, FindById, CancelAtStart,
       GetUploadedFile, StartProcessing, OpenStream, ReadBatch, CommitGuard, CommitWrites,
       CommitFails, Boundary, CancelAtBoundary, Complete
  <2>5. SetStatus(i, "failed") \/ UNCHANGED storeVars
    BY <1>4, <2>4, Zenon DEF GiveUp, Update, MarkFailed
  <2>6. /\ row'[i].checkpoint = row[i].checkpoint
        /\ row'[i].status \in {row[i].status, "failed"}
    BY <1>1, <2>5 DEF SetStatus, storeVars, BaseInv, WorkerInv, StoreInv, StoreTypeOK, Row
  <2> QED
    BY <1>1, <2>6 DEF InStep, Rests
<1> QED
  BY <1>2, <1>3, <1>4

\* The invocation itself, at the pcs where it relies on nothing but its position.
LEMMA OwnPosition ==
  ASSUME NEW s, NEW r, s.pc \in (CurrentPC \ BatchPC) \ {"findById"},
         s.pc \in WritingPC => r.checkpoint = s.position,
         r.status \notin {"completed", "cancelled"}
  PROVE  InStep(s, r) /\ Rests(s, r)
BY DEF InStep, Rests, CurrentPC, WritingPC, BatchPC

LEMMA OwnKnows ==
  ASSUME BaseInv, Knowing, NEW w \in Slots, Goes(w)
  PROVE  InStep(slot'[w], row'[ImportOf(w)]) /\ Rests(slot'[w], row'[ImportOf(w)])
<1> DEFINE i == ImportOf(w)
           Known == InStep(slot'[w], row'[i]) /\ Rests(slot'[w], row'[i])
<1>1. /\ i \in Imports /\ slot[w] \in Invocation /\ slot \in [Slots -> Invocation]
      /\ InStep(slot[w], row[i]) /\ Rests(slot[w], row[i])
  BY GoesOn, SlotFacts DEF Knowing, ImportOf
<1>2. /\ Sound(Safe, slot[w])
      /\ row \in [Imports -> Row]
      /\ BatchSize \in Nat
  BY WorkerAssumption DEF BaseInv, WorkerInv, SlotsInv, StoreInv, StoreTypeOK
<1>3. ASSUME NEW pc \in PC, Goto(w, pc)
      PROVE  slot'[w] = [slot[w] EXCEPT !.pc = pc]
  BY <1>1, <1>3 DEF Goto
<1>4. ASSUME NEW pc \in PC \ CurrentPC, Goto(w, pc) PROVE Known
  <2>1. slot'[w].pc = pc
    BY <1>1, <1>3, <1>4 DEF Invocation
  <2> QED
    BY <1>4, <2>1, Unknowing
<1>5. CASE FindById(w)
  <2> DEFINE r == row[i]
  <2>1. row'[i] = r
    BY <1>5 DEF FindById, storeVars
  <2>2. CASE Goto(w, "reject")
    BY <1>4, <2>2 DEF PC, CurrentPC, WritingPC
  <2>3. ASSUME NEW next \in {"resolve", "cancelAtStart", "getUploadedFile"},
               next # "resolve" => ~Skips(r),
               slot' = [slot EXCEPT ![w].pc = next, ![w].position = r.checkpoint]
        PROVE  Known
    <3>1. slot'[w].pc = next /\ slot'[w].position = r.checkpoint
      BY <1>1, <2>3 DEF Invocation
    <3>2. CASE next = "resolve"
      BY <3>1, <3>2, Unknowing DEF CurrentPC, WritingPC
    <3>3. CASE next # "resolve"
      <4>1. r.status \notin {"completed", "cancelled"}
        BY <2>3, <3>3 DEF Skips
      <4> QED
        BY <2>1, <2>3, <3>1, <3>3, <4>1, OwnPosition DEF CurrentPC, WritingPC, BatchPC
    <3> QED
      BY <3>2, <3>3
  <2> QED
    BY <1>5, <2>2, <2>3 DEF FindById
<1>6. CASE GetUploadedFile(w) \/ OpenStream(w)
  <2>1. row'[i] = row[i] /\ slot[w].pc \in {"getUploadedFile", "openStream"}
    BY <1>6 DEF GetUploadedFile, OpenStream, storeVars, At
  <2>2. ASSUME NEW pc \in {"markProcessing", "readBatch"}, Goto(w, pc) PROVE Known
    <3>1. slot'[w].pc = pc /\ slot'[w].position = slot[w].position
      BY <1>1, <1>3, <2>2 DEF Invocation, PC
    <3>2. /\ row[i].checkpoint = slot[w].position
          /\ row[i].status \notin {"completed", "cancelled"}
      BY <1>1, <2>1 DEF InStep, Rests, WritingPC, BatchPC, CurrentPC
    <3> QED
      BY <2>1, <3>1, <3>2, OwnPosition DEF CurrentPC, WritingPC, BatchPC
  <2> QED
    BY <1>4, <1>6, <2>2 DEF GetUploadedFile, OpenStream, PC, CurrentPC, WritingPC
<1>7. CASE StartProcessing(w)
  <2>1. CASE Goto(w, "reject")
    BY <1>4, <2>1 DEF PC, CurrentPC, WritingPC
  <2>2. CASE SetStatus(i, "processing") /\ Goto(w, "openStream")
    <3>1. slot'[w].pc = "openStream" /\ slot'[w].position = slot[w].position
      BY <1>1, <1>3, <2>2 DEF Invocation, PC
    <3>2. row'[i].checkpoint = row[i].checkpoint /\ row'[i].status = "processing"
      BY <1>1, <1>2, <2>2 DEF SetStatus, Row
    <3>3. row[i].checkpoint = slot[w].position
      BY <1>1, <1>7 DEF StartProcessing, At, InStep, WritingPC, BatchPC
    <3> QED
      BY <3>1, <3>2, <3>3, OwnPosition DEF CurrentPC, WritingPC, BatchPC
  <2> QED
    BY <1>7, <2>1, <2>2 DEF StartProcessing, Update, MarkProcessing
<1>8. CASE CancelAtStart(w) \/ CancelAtBoundary(w) \/ Complete(w) \/ GiveUp(w)
  <2>1. Goto(w, "resolve") \/ Goto(w, "reject") \/ Goto(w, "markFailed")
    BY <1>8 DEF CancelAtStart, CancelAtBoundary, Complete, GiveUp, Update
  <2> QED
    BY <1>4, <2>1 DEF PC, CurrentPC, WritingPC
<1>9. CASE ReadBatch(w)
  <2> DEFINE p == slot[w].position
             length == FileLength(w)
             end == IF p + BatchSize <= length THEN p + BatchSize ELSE length
             next == IF p = end THEN "markCompleted" ELSE "commitGuard"
  <2>1. row'[i] = row[i] /\ slot[w].pc = "readBatch"
    BY <1>9 DEF ReadBatch, storeVars, At
  <2>2. /\ row[i].checkpoint = p
        /\ row[i].status \notin {"completed", "cancelled"}
    BY <1>1, <2>1 DEF InStep, Rests, WritingPC, BatchPC, CurrentPC
  <2>3. p \in Nat /\ length \in Nat /\ end <= p + BatchSize
    BY <1>1, <1>2, Lengths DEF Invocation, FileLength
  <2>4. CASE Goto(w, "markFailed")
    BY <1>4, <2>4 DEF PC, CurrentPC, WritingPC
  <2>5. CASE slot' = [slot EXCEPT ![w].pc = next, ![w].batchEnd = end, ![w].attempt = 1]
    <3> HIDE DEF end
    <3>1. /\ slot'[w].pc = next /\ slot'[w].position = p /\ slot'[w].batchEnd = end
      BY <1>1, <2>5 DEF Invocation
    <3>2. CASE p = end
      BY <2>1, <2>2, <3>1, <3>2, OwnPosition DEF CurrentPC, WritingPC, BatchPC
    <3>3. CASE p # end
      BY <2>1, <2>2, <2>3, <3>1, <3>3 DEF InStep, Rests, WritingPC, BatchPC
    <3> QED
      BY <3>2, <3>3
  <2> QED
    BY <1>9, <2>4, <2>5 DEF ReadBatch
<1>10. CASE CommitGuard(w)
  <2> DEFINE next == IF AlreadyCommitted(i, slot[w].batchEnd) THEN "boundary" ELSE "commitWrites"
  <2>1. row'[i] = row[i] /\ slot[w].pc = "commitGuard" /\ Goto(w, next)
    BY <1>10 DEF CommitGuard, storeVars, At
  <2>2. /\ slot'[w].pc = next /\ slot'[w].position = slot[w].position
        /\ slot'[w].batchEnd = slot[w].batchEnd
    BY <1>1, <1>3, <2>1 DEF Invocation, PC
  <2>3. /\ row[i].checkpoint \in {slot[w].position, slot[w].batchEnd}
        /\ slot[w].position < slot[w].batchEnd
        /\ slot[w].batchEnd <= slot[w].position + BatchSize
        /\ row[i].status \notin {"completed", "cancelled"}
    BY <1>1, <1>2, <2>1 DEF InStep, Rests, Sound, BatchPC, CurrentPC, WritingPC
  <2>4. AlreadyCommitted(i, slot[w].batchEnd) <=> row[i].checkpoint = slot[w].batchEnd
    BY <1>1, <2>3 DEF AlreadyCommitted, Invocation
  <2> QED
    BY <2>1, <2>2, <2>3, <2>4 DEF InStep, Rests, WritingPC, BatchPC
<1>11. CASE CommitWrites(w)
  <2>1. slot[w].pc = "commitWrites" /\ CommitHere(w) /\ Goto(w, "boundary")
    BY <1>11 DEF CommitWrites, At
  <2>2. row'[i].checkpoint = slot[w].batchEnd /\ row'[i].status = row[i].status
    BY <2>1, CommitRow DEF At
  <2>3. /\ slot'[w].pc = "boundary" /\ slot'[w].position = slot[w].position
        /\ slot'[w].batchEnd = slot[w].batchEnd
    BY <1>1, <1>3, <2>1 DEF Invocation, PC
  <2>4. /\ slot[w].batchEnd <= slot[w].position + BatchSize
        /\ row[i].status \notin {"completed", "cancelled"}
    BY <1>1, <2>1 DEF InStep, Rests, BatchPC, CurrentPC, WritingPC
  <2> QED
    BY <2>2, <2>3, <2>4 DEF InStep, Rests, WritingPC, BatchPC
<1>12. CASE CommitFails(w)
  <2>1. CASE Goto(w, "markFailed")
    BY <1>4, <2>1 DEF PC, CurrentPC, WritingPC
  <2>2. CASE slot' = [slot EXCEPT ![w].pc = "commitGuard", ![w].attempt = @ + 1]
    <3>1. /\ slot'[w].pc = "commitGuard" /\ slot'[w].position = slot[w].position
          /\ slot'[w].batchEnd = slot[w].batchEnd
      BY <1>1, <2>2 DEF Invocation
    <3>2. /\ slot[w].pc \in {"commitGuard", "commitWrites"}
          /\ UNCHANGED storeVars \/ (At(w, "commitWrites") /\ CommitHere(w))
      BY <1>12 DEF CommitFails, At
    <3>3. /\ row'[i].checkpoint \in {row[i].checkpoint, slot[w].batchEnd}
          /\ row'[i].status = row[i].status
      BY <3>2, CommitRow DEF storeVars
    <3>4. /\ row[i].checkpoint \in {slot[w].position, slot[w].batchEnd}
          /\ slot[w].batchEnd <= slot[w].position + BatchSize
          /\ row[i].status \notin {"completed", "cancelled"}
      BY <1>1, <3>2 DEF InStep, Rests, BatchPC, CurrentPC, WritingPC
    <3> QED
      BY <3>1, <3>3, <3>4 DEF InStep, Rests, WritingPC, BatchPC
  <2> QED
    BY <1>12, <2>1, <2>2 DEF CommitFails, RetryOrThrow
<1>13. CASE Boundary(w)
  <2>1. row'[i] = row[i] /\ slot[w].pc = "boundary"
    BY <1>13 DEF Boundary, storeVars, At
  <2>2. /\ row[i].checkpoint = slot[w].batchEnd
        /\ row[i].status \notin {"completed", "cancelled"}
    BY <1>1, <2>1 DEF InStep, Rests, CurrentPC, WritingPC
  <2>3. CASE Goto(w, "markFailed")
    BY <1>4, <2>3 DEF PC, CurrentPC, WritingPC
  <2>4. ASSUME NEW next \in {"cancelAtBoundary", "reenqueue", "readBatch", "markCompleted"},
               slot' = [slot EXCEPT ![w].pc = next, ![w].position = slot[w].batchEnd]
        PROVE  Known
    <3>1. slot'[w].pc = next /\ slot'[w].position = slot[w].batchEnd
      BY <1>1, <2>4 DEF Invocation
    <3> QED
      BY <2>1, <2>2, <2>4, <3>1, OwnPosition DEF CurrentPC, WritingPC, BatchPC
  <2> QED
    BY <1>13, <2>3, <2>4 DEF Boundary
<1> QED
  BY <1>5, <1>6, <1>7, <1>8, <1>9, <1>10, <1>11, <1>12, <1>13 DEF Goes, Process

LEMMA KnowingStep ==
  ASSUME BaseInv, OneClaim, Knowing, [Next]_vars
  PROVE  Knowing'
<1> SUFFICES ASSUME NEW v \in Slots, slot'[v].pc # "idle"
             PROVE  /\ InStep(slot'[v], row'[slot'[v].import])
                    /\ Rests(slot'[v], row'[slot'[v].import])
  BY DEF Knowing, ImportOf
<1> DEFINE Known == /\ InStep(slot'[v], row'[slot'[v].import])
                    /\ Rests(slot'[v], row'[slot'[v].import])
<1>1. CASE slot'[v] = slot[v] /\ UNCHANGED row
  BY <1>1 DEF Knowing, ImportOf
<1>2. ASSUME NEW w \in Slots, Goes(w) PROVE Known
  <2>1. /\ slot' = [slot EXCEPT ![w] = slot'[w]]
        /\ slot'[w].import = slot[w].import
    BY <1>2, GoesOn
  <2>2. CASE v = w
    BY <1>2, <2>1, <2>2, OwnKnows DEF ImportOf
  <2>3. CASE v # w
    <3>1. slot'[v] = slot[v]
      BY <2>1, <2>3, SlotFacts
    <3> QED
      BY <1>2, <2>3, <3>1, OthersKnow DEF ImportOf
  <2> QED
    BY <2>2, <2>3
<1>3. ASSUME NEW w \in Slots, Take(w) \/ Reenqueue(w) \/ Resolve(w) \/ Reject(w)
      PROVE  Known
  <2>1. UNCHANGED row
    BY <1>3 DEF Take, Reenqueue, Resolve, Reject, storeVars
  <2>2. /\ slot' = [slot EXCEPT ![w] = slot'[w]]
        /\ slot'[w].pc \in {"findById", "resolve", "markFailed", "idle"}
    <3>1. CASE Take(w)
      BY <3>1, SlotFacts DEF Take, Idle
    <3>2. CASE Reenqueue(w)
      BY <3>2, SlotFacts DEF Reenqueue, Goto, Invocation
    <3>3. CASE Resolve(w) \/ Reject(w)
      BY <3>3, SlotFacts DEF Resolve, Reject, Freed, Idle
    <3> QED
      BY <1>3, <3>1, <3>2, <3>3
  <2>3. CASE v # w
    BY <1>1, <2>1, <2>2, <2>3, SlotFacts
  <2>4. CASE v = w
    <3>1. slot'[v].pc \in {"findById", "resolve", "markFailed"}
      BY <2>2, <2>4
    <3> QED
      BY <3>1 DEF InStep, Rests, CurrentPC, WritingPC, BatchPC
  <2> QED
    BY <2>3, <2>4
<1>4. ASSUME NEW h \in Hosts, Crash(h) PROVE Known
  <2>1. slot'[v] = slot[v] /\ UNCHANGED row
    BY <1>4 DEF Crash, Idle, storeVars
  <2> QED
    BY <1>1, <2>1
<1>5. ASSUME NEW i \in Imports, WriteCancel(i) PROVE Known
  <2>1. slot'[v] = slot[v] /\ slot[v].import \in Imports
    BY <1>5, SlotFacts DEF WriteCancel
  <2>2. /\ row'[slot[v].import].checkpoint = row[slot[v].import].checkpoint
        /\ row'[slot[v].import].status \in {row[slot[v].import].status, "cancelling"}
    BY <1>5, <2>1 DEF WriteCancel, WriteCancellation, BaseInv, WorkerInv, StoreInv,
       StoreTypeOK, Row
  <2> QED
    BY <2>1, <2>2 DEF Knowing, ImportOf, InStep, Rests
<1>6. CASE \/ UNCHANGED vars
           \/ \E w \in Slots : LoseLock(w)
           \/ \E i \in Imports : ReadForCancel(i)
           \/ \E h \in Hosts : Shutdown(h) \/ Restart(h)
  <2>1. slot'[v] = slot[v] /\ UNCHANGED row
    BY <1>6 DEF vars, workerVars, storeVars, LoseLock, ReadForCancel, Shutdown, Restart
  <2> QED
    BY <1>1, <2>1
<1>7. \A w \in Slots : Process(w) => Goes(w) \/ Reenqueue(w) \/ Resolve(w) \/ Reject(w)
  BY DEF Goes
<1> QED
  BY <1>2, <1>3, <1>4, <1>5, <1>6, <1>7 DEF Next

------------------------------------------------------------------------------
\* Progress is exact.

\* The lines up to hi are those up to lo and those of the batch.
LEMMA PrefixAndBatch ==
  ASSUME NEW i \in Imports, NEW lo \in Nat, NEW hi \in Nat, lo <= hi
  PROVE  /\ Valid(i, 0, hi) = Valid(i, 0, lo) \cup Valid(i, lo, hi)
         /\ Valid(i, 0, lo) \cap Valid(i, lo, hi) = {}
         /\ Rejected(i, 0, hi) = Rejected(i, 0, lo) \cup Rejected(i, lo, hi)
         /\ Rejected(i, 0, lo) \cap Rejected(i, lo, hi) = {}
BY DEF Valid, Rejected

LEMMA DisjointUnion ==
  ASSUME NEW S, NEW T, IsFiniteSet(S), IsFiniteSet(T), S \cap T = {}
  PROVE  /\ Cardinality(S \cup T) = Cardinality(S) + Cardinality(T)
         /\ Cardinality(S) \in Nat /\ Cardinality(T) \in Nat
         /\ SetToBag(S \cup T) = SetToBag(S) (+) SetToBag(T)
<1>1. Cardinality(S \cup T) = Cardinality(S) + Cardinality(T) - Cardinality({})
  BY FS_Union
<1>2. Cardinality(S) \in Nat /\ Cardinality(T) \in Nat /\ Cardinality({}) = 0
  BY FS_CardinalityType, FS_EmptySet
<1>3. SetToBag(S \cup T) = SetToBag(S) (+) SetToBag(T)
  BY DEF SetToBag, (+)
<1> QED
  BY <1>1, <1>2, <1>3

LEMMA CommitExact ==
  ASSUME StoreInv, ProgressIsExact, NEW i \in Imports, NEW hi \in Nat,
         row[i].checkpoint < hi, CommitBatch(i, row[i].checkpoint, hi)
  PROVE  ProgressIsExact'
<1> DEFINE lo == row[i].checkpoint
<1>1. lo \in Nat /\ row[i] \in Row /\ lo <= hi
  BY DEF StoreInv, StoreTypeOK, Row
<1>2. /\ stored'[i] = stored[i] \cup NewLines(i, lo, hi)
      /\ rejections'[i] = rejections[i] (+) SetToBag(Rejected(i, lo, hi))
      /\ row'[i].checkpoint = hi
      /\ row'[i].rejected = row[i].rejected + Cardinality(Rejected(i, lo, hi))
      /\ row'[i].processed = row[i].processed + ProcessedIn(i, lo, hi)
      /\ \A j \in Imports \ {i} : /\ stored'[j] = stored[j]
                                  /\ rejections'[j] = rejections[j]
                                  /\ row'[j] = row[j]
  BY DEF CommitBatch, Inserted, RejectionsAdded, StoreInv, StoreTypeOK, Row
<1>3. /\ stored[i] \subseteq 1 .. lo
      /\ rejections[i] = SetToBag(Rejected(i, 0, lo))
      /\ row[i].rejected = Cardinality(Rejected(i, 0, lo))
      /\ row[i].processed = Cardinality(Valid(i, 0, lo)) + row[i].rejected
  BY DEF ProgressIsExact
<1>4. /\ IsFiniteSet(Valid(i, 0, lo)) /\ IsFiniteSet(Valid(i, lo, hi))
      /\ IsFiniteSet(Rejected(i, 0, lo)) /\ IsFiniteSet(Rejected(i, lo, hi))
  BY <1>1, BatchSets
<1> HIDE DEF lo
<1>5. stored'[i] \subseteq 1 .. hi
  BY <1>1, <1>2, <1>3 DEF NewLines, Valid
<1>6. rejections'[i] = SetToBag(Rejected(i, 0, hi))
  <2>1. /\ Rejected(i, 0, hi) = Rejected(i, 0, lo) \cup Rejected(i, lo, hi)
        /\ Rejected(i, 0, lo) \cap Rejected(i, lo, hi) = {}
    BY <1>1, PrefixAndBatch
  <2>2. SetToBag(Rejected(i, 0, hi)) =
          SetToBag(Rejected(i, 0, lo)) (+) SetToBag(Rejected(i, lo, hi))
    BY <1>4, <2>1, DisjointUnion
  <2> QED
    BY <1>2, <1>3, <2>2
<1>7. row'[i].rejected = Cardinality(Rejected(i, 0, hi))
  <2>1. Rejected(i, 0, hi) = Rejected(i, 0, lo) \cup Rejected(i, lo, hi)
    BY <1>1, PrefixAndBatch
  <2>2. Cardinality(Rejected(i, 0, hi)) =
          Cardinality(Rejected(i, 0, lo)) + Cardinality(Rejected(i, lo, hi))
    BY <1>1, <1>4, <2>1, PrefixAndBatch, DisjointUnion
  <2> QED
    BY <1>2, <1>3, <2>2
<1>8. row'[i].processed = Cardinality(Valid(i, 0, hi)) + row'[i].rejected
  <2> DEFINE a == Cardinality(Valid(i, 0, lo))
             b == Cardinality(Valid(i, lo, hi))
             c == Cardinality(Rejected(i, 0, lo))
             d == Cardinality(Rejected(i, lo, hi))
  <2>1. a \in Nat /\ b \in Nat /\ c \in Nat /\ d \in Nat
    BY <1>4, FS_CardinalityType
  <2>2. Cardinality(Valid(i, 0, hi)) = a + b
    BY <1>1, <1>4, PrefixAndBatch, DisjointUnion
  <2>3. row[i].processed = a + c /\ row'[i].rejected = c + d
    BY <1>2, <1>3
  <2>4. row'[i].processed = row[i].processed + (b + d)
    BY <1>2 DEF ProcessedIn
  <2> HIDE DEF a, b, c, d
  <2>5. (a + c) + (b + d) = (a + b) + (c + d)
    BY <2>1
  <2> QED
    BY <2>2, <2>3, <2>4, <2>5
<1>9. \A j \in Imports : /\ stored'[j] \subseteq 1 .. row'[j].checkpoint
                         /\ rejections'[j] = SetToBag(Rejected(j, 0, row'[j].checkpoint))
                         /\ row'[j].rejected = Cardinality(Rejected(j, 0, row'[j].checkpoint))
                         /\ row'[j].processed =
                              Cardinality(Valid(j, 0, row'[j].checkpoint)) + row'[j].rejected
  BY <1>2, <1>5, <1>6, <1>7, <1>8 DEF ProgressIsExact
<1> QED
  BY <1>9 DEF ProgressIsExact, Rejected, Valid

\* A batch is committed from the checkpoint, and is no longer than BatchSize.
LEMMA CommitsFollow ==
  ASSUME BaseInv, Knowing, NEW w \in Slots, At(w, "commitWrites"), CommitHere(w)
  PROVE  /\ ImportOf(w) \in Imports /\ slot[w].batchEnd \in Nat
         /\ row[ImportOf(w)].checkpoint \in Nat
         /\ row[ImportOf(w)].checkpoint < slot[w].batchEnd
         /\ slot[w].batchEnd <= Len(File[ImportOf(w)])
         /\ slot[w].batchEnd <= row[ImportOf(w)].checkpoint + BatchSize
         /\ CommitBatch(ImportOf(w), row[ImportOf(w)].checkpoint, slot[w].batchEnd)
<1>1. /\ Sound(Safe, slot[w]) /\ slot[w] \in Invocation /\ slot[w].pc = "commitWrites"
      /\ row \in [Imports -> Row]
  BY DEF BaseInv, WorkerInv, SlotsInv, At, StoreInv, StoreTypeOK
<1>2. InStep(slot[w], row[ImportOf(w)])
  BY <1>1 DEF Knowing
<1>3. row[ImportOf(w)].checkpoint = slot[w].position /\ ImportOf(w) \in Imports
  BY <1>1, <1>2 DEF InStep, Sound, ImportOf
<1> QED
  BY <1>1, <1>2, <1>3 DEF InStep, Sound, BatchPC, ImportOf, CommitHere, Invocation

LEMMA ExactStep ==
  ASSUME BaseInv, Knowing, ProgressIsExact, [Next]_vars
  PROVE  ProgressIsExact'
<1>1. CASE NoProgress
  BY <1>1 DEF NoProgress, ProgressIsExact, Rejected, Valid
<1>2. ASSUME NEW w \in Slots, At(w, "commitWrites"), CommitHere(w) PROVE ProgressIsExact'
  BY <1>2, CommitsFollow, CommitExact DEF BaseInv, WorkerInv
<1> QED
  BY <1>1, <1>2, Progress

LEMMA OnceInit == Init => OnceInv
<1> SUFFICES ASSUME Init PROVE Knowing /\ ProgressIsExact
  BY ExclusiveInit DEF OnceInv
<1>1. Knowing
  BY DEF Init, Knowing, Idle
<1>2. \A i \in Imports : Rejected(i, 0, 0) = {} /\ Valid(i, 0, 0) = {}
  BY DEF Rejected, Valid
<1>3. \A i \in Imports : /\ row[i].checkpoint = 0 /\ row[i].rejected = 0
                         /\ row[i].processed = 0
                         /\ stored[i] = {} /\ rejections[i] = SetToBag({})
  BY DEF Init, NewRow, EmptyBag
<1>4. Cardinality({}) = 0
  BY FS_EmptySet
<1>5. ProgressIsExact
  <2> SUFFICES ASSUME NEW i \in Imports
               PROVE  /\ stored[i] \subseteq 1 .. 0
                      /\ rejections[i] = SetToBag(Rejected(i, 0, 0))
                      /\ row[i].rejected = Cardinality(Rejected(i, 0, 0))
                      /\ row[i].processed = Cardinality(Valid(i, 0, 0)) + row[i].rejected
    BY <1>3 DEF ProgressIsExact
  <2>1. Rejected(i, 0, 0) = {} /\ Valid(i, 0, 0) = {}
    BY <1>2
  <2>2. /\ stored[i] = {} /\ rejections[i] = SetToBag({})
        /\ row[i].rejected = 0 /\ row[i].processed = 0
    BY <1>3
  <2> QED
    BY <2>1, <2>2, <1>4
<1> QED
  BY <1>1, <1>5

LEMMA OnceStep == BaseInv /\ OnceInv /\ [Next]_vars => OnceInv'
<1> SUFFICES ASSUME BaseInv, OnceInv, [Next]_vars PROVE OnceInv'
  OBVIOUS
<1>1. Exclusive'
  BY ExclusiveStep DEF OnceInv
<1>2. ASSUME Undisturbed' PROVE Knowing' /\ ProgressIsExact'
  <2>1. Undisturbed
    BY <1>2, BudgetsGrow
  <2>2. OneClaim /\ Knowing /\ ProgressIsExact
    BY <2>1 DEF OnceInv, Exclusive
  <2> QED
    BY <2>2, KnowingStep, ExactStep
<1> QED
  BY <1>1, <1>2 DEF OnceInv

LEMMA OnceAlways == Spec => []OnceInv
BY OnceInit, OnceStep, BaseAlways, PTL DEF Spec

\* While every import has one job, tables and counters are those of one pass
\* over the lines up to the checkpoint, after any crashes, retries, lost
\* acknowledgements, pauses and redeliveries (ARCHITECTURE.md section 12).
THEOREM CountedOnce == Spec => [](Undisturbed => ProgressIsExact)
<1>1. OnceInv => (Undisturbed => ProgressIsExact)
  BY DEF OnceInv
<1> QED
  BY <1>1, OnceAlways, PTL

------------------------------------------------------------------------------
\* What is finished stays finished.

\* What FinishedStaysFinished allows a step to do to i.
Finishes(i) ==
  row[i].status \in {"completed", "cancelled"} /\ row'[i].status # row[i].status
    => \/ i \in cancelReads /\ row'[i].status = "cancelling"
       \/ /\ row'[i].status = "failed"
          /\ \E w \in Slots : At(w, "markFailed") /\ ImportOf(w) = i

LEMMA GoingOnRests ==
  ASSUME BaseInv, Knowing, NEW w \in Slots, Goes(w)
  PROVE  \A i \in Imports : Finishes(i)
<1> SUFFICES ASSUME NEW i \in Imports, row[i].status \in {"completed", "cancelled"}
             PROVE  \/ row'[i].status = row[i].status
                    \/ /\ row'[i].status = "failed"
                       /\ At(w, "markFailed") /\ ImportOf(w) = i
  BY DEF Finishes
<1>1. ImportOf(w) \in Imports /\ slot[w].pc # "idle"
  BY GoesOn, SlotFacts DEF ImportOf
<1>2. CASE ImportOf(w) # i
  BY <1>1, <1>2, GoesStore, RowStepsKeep, CommitRow
<1>3. CASE ImportOf(w) = i /\ slot[w].pc \in CurrentPC
  <2>1. slot[w].pc = "findById"
    BY <1>1, <1>3 DEF Knowing, Rests
  <2>2. FindById(w)
    BY <2>1 DEF Goes, Process, At, CancelAtStart, GetUploadedFile, StartProcessing,
       OpenStream, ReadBatch, CommitGuard, CommitWrites, CommitFails, Boundary,
       CancelAtBoundary, Complete, GiveUp
  <2> QED
    BY <2>2 DEF FindById, storeVars
<1>4. CASE ImportOf(w) = i /\ slot[w].pc \notin CurrentPC
  <2>1. GiveUp(w)
    BY <1>4 DEF Goes, Process, At, CurrentPC, WritingPC, FindById, CancelAtStart,
       GetUploadedFile, StartProcessing, OpenStream, ReadBatch, CommitGuard, CommitWrites,
       CommitFails, Boundary, CancelAtBoundary, Complete
  <2>2. /\ SetStatus(i, "failed") \/ UNCHANGED storeVars
        /\ At(w, "markFailed")
    BY <1>4, <2>1, Zenon DEF GiveUp, Update, MarkFailed
  <2>3. row'[i].status \in {row[i].status, "failed"}
    BY <2>2 DEF SetStatus, storeVars, BaseInv, WorkerInv, StoreInv, StoreTypeOK, Row
  <2> QED
    BY <1>4, <2>2, <2>3
<1> QED
  BY <1>2, <1>3, <1>4

LEMMA NextRests ==
  ASSUME BaseInv, Knowing, [Next]_vars
  PROVE  \A i \in Imports : Finishes(i)
<1>1. CASE UNCHANGED storeVars
  BY <1>1 DEF storeVars, Finishes
<1>2. ASSUME NEW w \in Slots, Goes(w) PROVE \A i \in Imports : Finishes(i)
  BY <1>2, GoingOnRests
<1>3. ASSUME NEW i \in Imports, WriteCancel(i) PROVE \A j \in Imports : Finishes(j)
  BY <1>3 DEF WriteCancel, WriteCancellation, Finishes, BaseInv, WorkerInv, StoreInv,
     StoreTypeOK, Row
<1>4. ASSUME NEW w \in Slots, Take(w) \/ Reenqueue(w) \/ Resolve(w) \/ Reject(w) \/ LoseLock(w)
      PROVE  UNCHANGED storeVars
  BY <1>4 DEF Take, Reenqueue, Resolve, Reject, LoseLock
<1>5. ASSUME NEW h \in Hosts, Shutdown(h) \/ Restart(h) \/ Crash(h)
      PROVE  UNCHANGED storeVars
  BY <1>5 DEF Shutdown, Restart, Crash
<1>6. ASSUME NEW i \in Imports, ReadForCancel(i) PROVE UNCHANGED storeVars
  BY <1>6 DEF ReadForCancel
<1> QED
  BY <1>1, <1>2, <1>3, <1>4, <1>5, <1>6 DEF Next, Goes, vars

\* While every import has one job, no restart, redelivery or pause brings back
\* an import that is completed or cancelled: a later job finds it in a terminal
\* status and skips it (imports.processor.ts:45).  What can are a cancellation
\* past its guard and the markFailed of an invocation whose own update lost its
\* answer (imports.processor.ts:175).
THEOREM FinishedIsLeftAlone == Spec /\ []Undisturbed => FinishedStaysFinished
<1>1. BaseInv /\ OnceInv /\ Undisturbed /\ [Next]_vars => [\A i \in Imports : Finishes(i)]_vars
  BY NextRests DEF OnceInv
<1> QED
  BY <1>1, BaseAlways, OnceAlways, PTL DEF Spec, FinishedStaysFinished, Finishes

------------------------------------------------------------------------------
\* The worker implements EffectivelyOnce.

\* Line n of i holds the key pk.
Owns(pk, i, n) == n \in stored[i] /\ ProviderOf[i] = pk[1] /\ File[i][n] = pk[2]

\* A key has at most one owner, and OwnerOf names it.
OwnersAreNamed ==
  \A pk \in Providers \X Keys :
    /\ \A i \in Imports : \A n \in Nat : Owns(pk, i, n) => OwnerOf(pk) = <<i, n>>
    /\ (\A i \in Imports : \A n \in Nat : ~Owns(pk, i, n)) => OwnerOf(pk) = <<"nobody", 0>>

\* acceptedCount is the number of keys the import owns.
KeysOf(i) == {pk \in Providers \X Keys : OwnerOf(pk)[1] = i}
AcceptedAreOwned == \A i \in Imports : row[i].accepted = Cardinality(KeysOf(i))

LEMMA OwnerIs == StoreInv => OwnersAreNamed
<1> SUFFICES ASSUME StoreInv, NEW pk \in Providers \X Keys
             PROVE  /\ \A i \in Imports : \A n \in Nat :
                         Owns(pk, i, n) => OwnerOf(pk) = <<i, n>>
                    /\ (\A i \in Imports : \A n \in Nat : ~Owns(pk, i, n))
                         => OwnerOf(pk) = <<"nobody", 0>>
  BY DEF OwnersAreNamed
<1> DEFINE mine(i) == {n \in stored[i] : ProviderOf[i] = pk[1] /\ File[i][n] = pk[2]}
           rows == UNION {{i} \X mine(i) : i \in Imports}
<1>1. OwnerOf(pk) = IF rows = {} THEN <<"nobody", 0>> ELSE CHOOSE r \in rows : TRUE
  BY DEF OwnerOf
<1>2. \A i \in Imports : stored[i] \subseteq Nat
  BY DEF StoreInv, StoreTypeOK
<1>3. \A r : r \in rows <=> \E i \in Imports : \E n \in Nat : r = <<i, n>> /\ Owns(pk, i, n)
  BY <1>2 DEF Owns
<1> HIDE DEF rows
<1>4. ASSUME NEW i \in Imports, NEW n \in Nat, Owns(pk, i, n) PROVE OwnerOf(pk) = <<i, n>>
  <2>1. ASSUME NEW j \in Imports, NEW m \in Nat, Owns(pk, j, m) PROVE j = i /\ m = n
    BY <1>4, <2>1 DEF Owns, StoreInv, UniqueTransactions, SameKey
  <2>2. <<i, n>> \in rows /\ \A r \in rows : r = <<i, n>>
    BY <1>3, <1>4, <2>1
  <2> QED
    BY <1>1, <2>2
<1>5. ASSUME \A i \in Imports : \A n \in Nat : ~Owns(pk, i, n)
      PROVE  OwnerOf(pk) = <<"nobody", 0>>
  BY <1>1, <1>3, <1>5
<1> QED
  BY <1>4, <1>5

LEMMA AcceptedOwns == StoreInv => AcceptedAreOwned
<1> SUFFICES ASSUME StoreInv, NEW i \in Imports
             PROVE  row[i].accepted = Cardinality(KeysOf(i))
  BY DEF AcceptedAreOwned
<1> DEFINE f == [n \in stored[i] |-> <<ProviderOf[i], File[i][n]>>]
<1>1. /\ stored[i] \subseteq Lines(i) /\ stored[i] \subseteq Nat
      /\ \A n \in stored[i] : File[i][n] \in Keys
      /\ ProviderOf[i] \in Providers
  BY FileAssumption DEF StoreInv, StoreTypeOK, RowsComeFromTheirLines
<1>2. IsFiniteSet(stored[i])
  <2>1. IsFiniteSet(1 .. Len(File[i]))
    BY Lengths, FS_Interval
  <2> QED
    BY <1>1, <2>1, FS_Subset DEF Lines
<1>3. ASSUME NEW n \in stored[i] PROVE f[n] \in KeysOf(i)
  <2>1. f[n] \in Providers \X Keys /\ Owns(f[n], i, n) /\ n \in Nat
    BY <1>1 DEF Owns
  <2>2. OwnerOf(f[n]) = <<i, n>>
    BY <2>1, OwnerIs DEF OwnersAreNamed
  <2> QED
    BY <2>1, <2>2 DEF KeysOf
<1>4. ASSUME NEW pk \in KeysOf(i) PROVE \E n \in stored[i] : f[n] = pk
  <2>1. pk \in Providers \X Keys /\ OwnerOf(pk)[1] = i
    BY DEF KeysOf
  <2>2. OwnerOf(pk) # <<"nobody", 0>>
    BY <2>1, WorkerAssumption
  <2>3. PICK j \in Imports, n \in Nat : Owns(pk, j, n)
    BY <2>1, <2>2, OwnerIs DEF OwnersAreNamed
  <2>4. OwnerOf(pk) = <<j, n>>
    BY <2>1, <2>3, OwnerIs DEF OwnersAreNamed
  <2>5. n \in stored[i] /\ ProviderOf[i] = pk[1] /\ File[i][n] = pk[2]
    BY <2>1, <2>3, <2>4 DEF Owns
  <2> QED
    BY <2>1, <2>5
<1>5. \A m, n \in stored[i] : f[m] = f[n] => m = n
  BY DEF StoreInv, UniqueTransactions, SameKey
<1>6. f \in Bijection(stored[i], KeysOf(i))
  <2>1. f \in [stored[i] -> KeysOf(i)]
    BY <1>3
  <2>2. \A m, n \in stored[i] : f[m] = f[n] => m = n
    BY <1>5
  <2> HIDE DEF f
  <2> QED
    BY <1>4, <2>1, <2>2 DEF Bijection, Injection, Surjection, IsInjective
<1>7. Cardinality(stored[i]) = Cardinality(KeysOf(i))
  BY <1>2, <1>6, FS_Bijection DEF ExistsBijection
<1> QED
  BY <1>7 DEF StoreInv, AcceptedMatchesRows

LEMMA OwnersThen == StoreInv' => OwnersAreNamed' /\ AcceptedAreOwned'
BY OwnerIs, AcceptedOwns, PTL

\* The lines of a batch that carry k, and the first of some lines.
Carrying(i, lo, hi, k) == {m \in lo + 1 .. hi : File[i][m] = k}
FirstOf(claims) == CHOOSE m \in claims : \A l \in claims : m <= l

\* Where a batch takes a key, it is the first line of the batch that carries it.
LEMMA KeysTaken ==
  ASSUME StoreInv, StoreInv', NEW i \in Imports, NEW lo \in Nat, NEW hi \in Nat,
         CommitBatch(i, lo, hi), NEW pk \in Providers \X Keys
  PROVE  OwnerOf(pk)' = IF /\ OwnerOf(pk) = <<"nobody", 0>>
                           /\ pk[1] = ProviderOf[i] /\ Carrying(i, lo, hi, pk[2]) # {}
                        THEN <<i, FirstOf(Carrying(i, lo, hi, pk[2]))>>
                        ELSE OwnerOf(pk)
<1> DEFINE claims == Carrying(i, lo, hi, pk[2])
           first == FirstOf(claims)
<1>1. OwnersAreNamed /\ OwnersAreNamed'
  BY OwnerIs, OwnersThen
<1>2. /\ stored'[i] = stored[i] \cup NewLines(i, lo, hi)
      /\ \A j \in Imports \ {i} : stored'[j] = stored[j]
      /\ \A j \in Imports : stored[j] \subseteq Nat
  BY DEF CommitBatch, Inserted, StoreInv, StoreTypeOK
<1>3. ASSUME NEW j \in Imports, NEW n \in Nat, Owns(pk, j, n)
      PROVE  OwnerOf(pk)' = OwnerOf(pk) /\ OwnerOf(pk) # <<"nobody", 0>>
  <2>1. Owns(pk, j, n)'
    BY <1>2, <1>3 DEF Owns
  <2> QED
    BY <1>1, <1>3, <2>1, WorkerAssumption DEF OwnersAreNamed
<1>4. CASE /\ \A j \in Imports : \A n \in Nat : ~Owns(pk, j, n)
           /\ pk[1] = ProviderOf[i] /\ claims # {}
  <2>1. claims \in SUBSET Nat
    BY DEF Carrying
  <2>2. \E m \in claims : \A l \in claims : m <= l
    BY <1>4, <2>1, Smallest
  <2>3. first \in claims /\ \A l \in claims : first <= l
    BY <2>2 DEF FirstOf
  <2> HIDE DEF first
  <2>4. ~HasKey(i, first)
    BY <1>2, <1>4, <2>3 DEF HasKey, SameKey, Owns, Carrying
  <2>5. first \in NewLines(i, lo, hi)
    BY <2>1, <2>3, <2>4 DEF NewLines, Valid, Carrying
  <2>6. Owns(pk, i, first)' /\ first \in Nat
    BY <1>2, <1>4, <2>1, <2>3, <2>5 DEF Owns, Carrying
  <2>7. OwnerOf(pk)' = <<i, first>> /\ OwnerOf(pk) = <<"nobody", 0>>
    BY <1>1, <1>4, <2>6 DEF OwnersAreNamed
  <2> QED
    BY <1>4, <2>7 DEF first
<1>5. CASE /\ \A j \in Imports : \A n \in Nat : ~Owns(pk, j, n)
           /\ ~(pk[1] = ProviderOf[i] /\ claims # {})
  <2>1. \A j \in Imports : \A n \in Nat : ~Owns(pk, j, n)'
    BY <1>2, <1>5 DEF Owns, NewLines, Valid, Carrying
  <2>2. OwnerOf(pk)' = <<"nobody", 0>> /\ OwnerOf(pk) = <<"nobody", 0>>
    BY <1>1, <1>5, <2>1 DEF OwnersAreNamed
  <2> QED
    BY <1>5, <2>2
<1> QED
  BY <1>3, <1>4, <1>5

\* The records of a prefix are its valid and its rejected lines.
LEMMA RecordsCounted ==
  ASSUME NEW i \in Imports, NEW n \in Nat, n <= Len(File[i])
  PROVE  /\ Cardinality({m \in 1 .. n : File[i][m] # "blank"}) =
              Cardinality(Valid(i, 0, n)) + Cardinality(Rejected(i, 0, n))
         /\ {m \in 1 .. n : File[i][m] = "bad"} = Rejected(i, 0, n)
<1>1. \A m \in 1 .. n : File[i][m] \in Keys \cup {Bad, Blank}
  BY FileAssumption, Lengths
<1>2. /\ {m \in 1 .. n : File[i][m] # "blank"} = Valid(i, 0, n) \cup Rejected(i, 0, n)
      /\ Valid(i, 0, n) \cap Rejected(i, 0, n) = {}
  BY <1>1, FileAssumption DEF Valid, Rejected, Bad, Blank
<1>3. {m \in 1 .. n : File[i][m] = "bad"} = Rejected(i, 0, n)
  BY DEF Rejected, Bad
<1> QED
  BY <1>2, <1>3, BatchSets, DisjointUnion

\* The variables of EffectivelyOnce, as ImportWorker reads them off the tables.
Done == [i \in Imports |-> row[i].checkpoint]
Owner == [pk \in Providers \X Keys |-> OwnerOf(pk)]
Tally == [i \in Imports |-> [processed |-> row[i].processed,
                             accepted  |-> row[i].accepted,
                             rejected  |-> row[i].rejected]]

LEMMA SameCardinality == \A S : Once!Cardinality(S) = Cardinality(S)
BY DEF Once!Cardinality, Cardinality

LEMMA CommitAdvances ==
  ASSUME StoreInv, StoreInv', ProgressIsExact', NEW i \in Imports, NEW hi \in Nat,
         row[i].checkpoint < hi, hi <= Len(File[i]), hi <= row[i].checkpoint + BatchSize,
         CommitBatch(i, row[i].checkpoint, hi)
  PROVE  Once!Advance(i)
<1>0. PICK lo \in Nat : lo = row[i].checkpoint
  BY DEF StoreInv, StoreTypeOK, Row
<1>1. /\ hi \in lo + 1 .. Len(File[i]) /\ hi <= lo + BatchSize
      /\ Done[i] = lo /\ CommitBatch(i, lo, hi)
  BY <1>0, Lengths, WorkerAssumption DEF Done
<1>2. /\ row'[i].checkpoint = hi
      /\ \A j \in Imports \ {i} : row'[j] = row[j]
  BY DEF CommitBatch, StoreInv, StoreTypeOK, Row
<1>3. Done' = [Done EXCEPT ![i] = hi]
  BY <1>2 DEF Done
<1>4. Owner' = [pk \in Providers \X Keys |->
                  LET claims == Once!Claims(i, Done[i], hi, pk[2])
                  IN IF Owner[pk] = Once!Nobody /\ pk[1] = ProviderOf[i] /\ claims # {}
                     THEN <<i, CHOOSE m \in claims : \A l \in claims : m <= l>>
                     ELSE Owner[pk]]
  <2> SUFFICES ASSUME NEW pk \in Providers \X Keys
               PROVE  OwnerOf(pk)' =
                        IF /\ OwnerOf(pk) = <<"nobody", 0>>
                           /\ pk[1] = ProviderOf[i] /\ Carrying(i, lo, hi, pk[2]) # {}
                        THEN <<i, FirstOf(Carrying(i, lo, hi, pk[2]))>>
                        ELSE OwnerOf(pk)
    BY <1>1 DEF Owner, Once!Claims, Once!Nobody, Carrying, FirstOf
  <2>1. CommitBatch(i, lo, hi)
    BY <1>1
  <2> QED
    BY ONLY StoreInv, StoreInv', <2>1, KeysTaken, ZenonT(60)
<1>5. Tally' = [Tally EXCEPT ![i] =
                  [processed |-> Once!Cardinality(Once!Records(i, hi)),
                   rejected  |-> Once!Cardinality(Once!Refused(i, hi)),
                   accepted  |-> Once!Cardinality({pk \in Providers \X Keys : Owner'[pk][1] = i})]]
  <2>1. /\ row'[i].rejected = Cardinality(Rejected(i, 0, hi))
        /\ row'[i].processed = Cardinality(Valid(i, 0, hi)) + row'[i].rejected
    BY <1>2 DEF ProgressIsExact, Valid, Rejected
  <2>2. /\ row'[i].processed = Once!Cardinality(Once!Records(i, hi))
        /\ row'[i].rejected = Once!Cardinality(Once!Refused(i, hi))
    BY <2>1, RecordsCounted, SameCardinality DEF Once!Records, Once!Refused
  <2>3. row'[i].accepted = Cardinality(KeysOf(i)')
    BY OwnersThen DEF AcceptedAreOwned
  <2>4. KeysOf(i)' = {pk \in Providers \X Keys : Owner'[pk][1] = i}
    BY DEF KeysOf, Owner
  <2>5. Tally'[i] = [processed |-> Once!Cardinality(Once!Records(i, hi)),
                     rejected  |-> Once!Cardinality(Once!Refused(i, hi)),
                     accepted  |-> Once!Cardinality({pk \in Providers \X Keys : Owner'[pk][1] = i})]
    BY <2>2, <2>3, <2>4, SameCardinality DEF Tally
  <2>6. \A j \in Imports \ {i} : Tally'[j] = Tally[j]
    BY <1>2 DEF Tally
  <2> QED
    BY <2>5, <2>6 DEF Tally
<1>6. Once!Advance(i) =
        \E n \in Done[i] + 1 .. Len(File[i]) :
          /\ n <= Done[i] + BatchSize
          /\ Done' = [Done EXCEPT ![i] = n]
          /\ Owner' = [pk \in Providers \X Keys |->
               LET claims == Once!Claims(i, Done[i], n, pk[2])
               IN IF Owner[pk] = Once!Nobody /\ pk[1] = ProviderOf[i] /\ claims # {}
                  THEN <<i, CHOOSE m \in claims : \A l \in claims : m <= l>>
                  ELSE Owner[pk]]
          /\ Tally' = [Tally EXCEPT ![i] =
               [processed |-> Once!Cardinality(Once!Records(i, n)),
                rejected  |-> Once!Cardinality(Once!Refused(i, n)),
                accepted  |-> Once!Cardinality({pk \in Providers \X Keys : Owner'[pk][1] = i})]]
  BY Zenon DEF Once!Advance, Done, Owner, Tally
<1> QED
  BY <1>1, <1>3, <1>4, <1>5, <1>6

LEMMA OnceStutters ==
  ASSUME NoProgress
  PROVE  UNCHANGED <<Done, Owner, Tally>>
<1>1. \A pk \in Providers \X Keys : OwnerOf(pk)' = OwnerOf(pk)
  BY DEF NoProgress, OwnerOf
<1> QED
  BY <1>1 DEF NoProgress, Done, Owner, Tally

LEMMA OnceStarts == Init => Once!Init
<1> SUFFICES ASSUME Init PROVE Once!Init
  OBVIOUS
<1>1. StoreInv
  BY WorkerInit DEF WorkerInv
<1>2. \A pk \in Providers \X Keys : OwnerOf(pk) = <<"nobody", 0>>
  BY <1>1, OwnerIs DEF OwnersAreNamed, Owns, Init
<1> QED
  BY <1>2 DEF Once!Init, Once!Nobody, Init, NewRow

LEMMA OnceSteps ==
  ASSUME BaseInv, BaseInv', Knowing, ProgressIsExact', [Next]_vars
  PROVE  [\E i \in Imports : Once!Advance(i)]_<<Done, Owner, Tally>>
<1>1. ASSUME NEW w \in Slots, At(w, "commitWrites"), CommitHere(w)
      PROVE  \E i \in Imports : Once!Advance(i)
  <2>1. PICK i \in Imports : i = ImportOf(w)
    BY <1>1, CommitsFollow
  <2>2. PICK hi \in Nat : hi = slot[w].batchEnd
    BY <1>1, CommitsFollow
  <2>3. /\ row[i].checkpoint < hi /\ hi <= Len(File[i])
        /\ hi <= row[i].checkpoint + BatchSize
        /\ CommitBatch(i, row[i].checkpoint, hi)
    BY <1>1, <2>1, <2>2, CommitsFollow
  <2>4. Once!Advance(i)
    BY <2>3, CommitAdvances DEF BaseInv, WorkerInv
  <2> QED
    BY <2>4
<1> QED
  BY <1>1, Progress, OnceStutters

\* While every import has one job, a run of the workers is a run of
\* EffectivelyOnce: a batch that commits reads on from where the file was left,
\* and nothing else shows in the tables (imports.repository.ts:commitBatch).
THEOREM WorkersReadOnce == Spec /\ []Undisturbed => ImplementsOnce
<1>1. BaseInv /\ BaseInv' /\ OnceInv /\ OnceInv' /\ Undisturbed /\ Undisturbed' /\ [Next]_vars
        => [\E i \in Imports : Once!Advance(i)]_<<Done, Owner, Tally>>
  BY OnceSteps DEF OnceInv
<1>2. Init => Once!Init
  BY OnceStarts
<1> QED
  BY <1>1, <1>2, BaseAlways, OnceAlways, PTL
     DEF Spec, ImplementsOnce, Once!Spec, Done, Owner, Tally
==============================================================================
