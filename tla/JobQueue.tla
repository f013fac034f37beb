------------------------------ MODULE JobQueue -------------------------------
(* BullMQ as the API and the worker processes use it: add, take, and the      *)
(* moves to completed, failed and stalled.  The library is not part of the    *)
(* repository; its options are (attempts 1, removeOnComplete, and the default *)
(* maxStalledCount).                                                          *)
(*                                                                            *)
(* A job is its import and how often it has stalled: two jobs of one import   *)
(* are interchangeable, so the waiting list is a bag.  Jobs are taken in any  *)
(* order, which includes BullMQ's.  The time between the loss of a lock and   *)
(* the stalled check that notices it is a time in which the job waits.        *)
EXTENDS Naturals, FiniteSets

CONSTANTS Imports,
          Slots,       \* what a worker process runs at once, over all of them
          MaxStalled   \* maxStalledCount

VARIABLES waiting,     \* waiting[j]: how many jobs j are in the waiting list
          active,      \* active[w]: the job whose lock slot w holds, or NoJob
          failedJobs   \* imports that a job in the failed set names

Jobs == [import : Imports, stalls : 0 .. MaxStalled]
NoJob == [import |-> "none", stalls |-> 0]

QueueTypeOK == /\ waiting \in [Jobs -> Nat]
               /\ active \in [Slots -> Jobs \cup {NoJob}]
               /\ failedJobs \in SUBSET Imports

Holds(w) == active[w] # NoJob

\* queue.add: always a fresh job, whatever waits already.
Enqueue(i) ==
  /\ waiting' = [waiting EXCEPT ![[import |-> i, stalls |-> 0]] = @ + 1]
  /\ UNCHANGED <<active, failedJobs>>

TakeJob(w, j) == /\ waiting[j] > 0
                 /\ waiting' = [waiting EXCEPT ![j] = @ - 1]
                 /\ active' = [active EXCEPT ![w] = j]
                 /\ UNCHANGED failedJobs

\* The processor resolved.  Without the lock BullMQ refuses the move.
CompleteJob(w) == /\ active' = [active EXCEPT ![w] = NoJob]
                  /\ UNCHANGED <<waiting, failedJobs>>

\* The processor rejected: with one attempt the job goes to the failed set.
FailJob(w) ==
  /\ failedJobs' = failedJobs \cup
       (IF Holds(w) THEN {active[w].import} ELSE {})
  /\ active' = [active EXCEPT ![w] = NoJob]
  /\ UNCHANGED waiting

\* The slots W lose their locks: each job waits again, or fails when it has
\* stalled too often.
StallJobs(W) ==
  LET lost == {w \in W : Holds(w)}
      Again(j) == {w \in lost : /\ active[w].import = j.import
                                /\ active[w].stalls + 1 = j.stalls}
  IN /\ waiting' = [j \in Jobs |-> waiting[j] + Cardinality(Again(j))]
     /\ failedJobs' = failedJobs \cup
          {active[w].import : w \in {v \in lost : active[v].stalls = MaxStalled}}
     /\ active' = [w \in Slots |-> IF w \in W THEN NoJob ELSE active[w]]
==============================================================================
