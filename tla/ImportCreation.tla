--------------------------- MODULE ImportCreation ----------------------------
(* POST /v1/imports on the API process: createImportHandler and               *)
(* ImportService.createImport, against the import store, the object store and *)
(* the job queue, up to the job that a worker may take.                       *)
(*                                                                            *)
(* A request is named by the id that createImport would give its import, so   *)
(* that requests and imports are one set.  One step is one await, or one      *)
(* event of the upload stream.  A client that gave up or got no answer sends  *)
(* the same idempotency key again: that is another request.                   *)
EXTENDS ImportStore

CONSTANTS KeyOf,       \* the Idempotency-Key of each request
          MaxFaults    \* bound: calls that fail

ASSUME CreationAssumption == MaxFaults \in Nat /\ {"none", "error"} \cap Imports = {}

VARIABLES pc,       \* pc[r]: the await or event that request r is at
          answer,   \* answer[r]: what the client of r has been told
          object,   \* object[r]: what the object store holds of the file of r
          cut,      \* requests whose file stream has hit MAX_UPLOAD_BYTES
          jobs,     \* jobs[i]: how many jobs were added for import i
          faults    \* calls that have failed

requestVars == <<pc, answer, object, cut, jobs>>
vars == <<storeVars, requestVars, faults>>

Step == {"unsent", "lookup", "body", "lookupAgain", "store", "attach", "enqueue", "done"}

NoAnswer == "none"
Error == "error"

\* An answer is 202 with the id of an import, or an error.
TypeOK == /\ StoreTypeOK
          /\ pc \in [Imports -> Step]
          /\ answer \in [Imports -> Imports \cup {NoAnswer, Error}]
          /\ object \in [Imports -> {"none", "whole", "truncated"}]
          /\ cut \in SUBSET Imports
          /\ jobs \in [Imports -> Nat]
          /\ faults \in 0 .. MaxFaults

Init == /\ StoreInit
        /\ pc = [r \in Imports |-> "unsent"]
        /\ answer = [r \in Imports |-> NoAnswer]
        /\ object = [r \in Imports |-> "none"]
        /\ cut = {}
        /\ jobs = [i \in Imports |-> 0]
        /\ faults = 0

------------------------------------------------------------------------------
\* Helpers.

At(r, step) == pc[r] = step
Goto(r, step) == pc' = [pc EXCEPT ![r] = step]

InFlight == {r \in Imports : pc[r] \notin {"unsent", "done"}}

\* The import that holds the idempotency key of r, if there is one.
Holders(r) == {i \in Imports : Exists(i) /\ KeyOf[i] = KeyOf[r]}

\* respondOnce, errorOnce and the check in the catch: the first answer counts.
\* Mutant: the check is missing.
Overwrite(r, a) == answer' = [answer EXCEPT ![r] = a]
Respond(r, a) == answer' = [answer EXCEPT ![r] = IF @ = NoAnswer THEN a ELSE @]

\* 202 with the id of import i.  Mutant: the key is sent instead.
AcceptWithKey(r, i) == Respond(r, KeyOf[i])
Accept(r, i) == Respond(r, i)

Fault == faults < MaxFaults /\ faults' = faults + 1
NoFault == UNCHANGED faults

\* A call that fails, having taken effect or not, rejects createImport.
Fails(r, effect, frame) ==
  /\ Fault
  /\ effect \/ UNCHANGED frame
  /\ Respond(r, Error)
  /\ Goto(r, "done")

\* The API process ends, and comes back without the requests it was serving.
\* Jobs that were being added may have been.
ProcessEnds ==
  /\ pc' = [r \in Imports |-> IF r \in InFlight THEN "done" ELSE pc[r]]
  /\ \E added \in SUBSET {r \in Imports : At(r, "enqueue")} :
       jobs' = [r \in Imports |-> IF r \in added THEN jobs[r] + 1 ELSE jobs[r]]
  /\ UNCHANGED <<storeVars, answer, object, cut, faults>>

------------------------------------------------------------------------------
\* The handler.

Send(r) == /\ At(r, "unsent")
           /\ Goto(r, "lookup")
           /\ UNCHANGED <<storeVars, answer, object, cut, jobs>> /\ NoFault

\* The fast path: a known key is answered before the body is read.  Nothing
\* catches an error of this lookup: the unhandled rejection ends the process.
FindExisting(r) ==
  /\ At(r, "lookup")
  /\ \/ /\ Holders(r) = {}
        /\ Goto(r, "body")
        /\ UNCHANGED answer
     \/ \E i \in Holders(r) : Accept(r, i) /\ Goto(r, "done")
  /\ UNCHANGED <<storeVars, object, cut, jobs>> /\ NoFault

\* The content type, the fields or the file name are refused, or the body has no
\* file, or ends or is malformed before it.
RefuseBody(r) ==
  /\ At(r, "body")
  /\ Respond(r, Error) /\ Goto(r, "done")
  /\ UNCHANGED <<storeVars, object, cut, jobs>> /\ NoFault

\* The file part begins: createPendingImport inserts the row, unless the unique
\* index on idempotencyKey has the key.
\* Mutant: nothing has looked since the fast path did.
InsertRow(r) == CreatePendingImport(r) /\ Goto(r, "store")
InsertIfAbsent(r) == \/ /\ Holders(r) = {}
                        /\ CreatePendingImport(r)
                        /\ Goto(r, "store")
                     \/ /\ Holders(r) # {}
                        /\ Goto(r, "lookupAgain")
                        /\ UNCHANGED storeVars

Create(r) ==
  /\ At(r, "body")
  /\ \/ InsertIfAbsent(r) /\ UNCHANGED answer /\ NoFault
     \/ Fails(r, Holders(r) = {} /\ CreatePendingImport(r), storeVars)
  /\ UNCHANGED <<object, cut, jobs>>

\* The request lost the race: its file is not uploaded.
\* Mutant: it is uploaded as well.
LoserStores(r) == Goto(r, "store") /\ UNCHANGED answer
AnswerWithWinner(r) == \E i \in Holders(r) : Accept(r, i) /\ Goto(r, "done")

FindAgain(r) ==
  /\ At(r, "lookupAgain")
  /\ \/ AnswerWithWinner(r) /\ NoFault
     \/ Fails(r, FALSE, storeVars)
  /\ UNCHANGED <<storeVars, object, cut, jobs>>

\* busboy's limit event: the client is refused, and the stream ends here.
LimitReached(r) ==
  /\ At(r, "store")
  /\ r \notin cut
  /\ cut' = cut \cup {r}
  /\ Respond(r, Error)
  /\ UNCHANGED <<storeVars, pc, object, jobs>> /\ NoFault

\* busboy's error event: what follows the file part is malformed, which tells
\* createImport nothing.  (When the part itself breaks off, the process dies.)
Malformed(r) ==
  /\ pc[r] \in {"body", "lookupAgain", "store", "attach", "enqueue"}
  /\ Respond(r, Error)
  /\ UNCHANGED <<storeVars, pc, object, cut, jobs>> /\ NoFault

StreamEvent(r) == LimitReached(r) \/ Malformed(r)

\* The upload to the object store ends with the stream.  When the client goes
\* away it never does.  Mutant: the job is added first.
EnqueueFirst(r) == Goto(r, "enqueue")
Uploaded(r) == Goto(r, "attach")

Store(r) ==
  LET put == object' = [object EXCEPT ![r] = IF r \in cut THEN "truncated" ELSE "whole"]
  IN /\ At(r, "store")
     /\ \/ put /\ Uploaded(r) /\ UNCHANGED answer /\ NoFault
        \/ Fails(r, put, object)
     /\ UNCHANGED <<storeVars, cut, jobs>>

\* Mutant: the client is told before the job is there.
TellEarly(r) == Accept(r, r) /\ Goto(r, "enqueue")
GoOnToEnqueue(r) == Goto(r, "enqueue") /\ UNCHANGED answer

Attach(r) ==
  /\ At(r, "attach")
  /\ \/ AttachUploadedFile(r) /\ GoOnToEnqueue(r) /\ NoFault
     \/ Fails(r, AttachUploadedFile(r), storeVars)
  /\ UNCHANGED <<object, cut, jobs>>

EnqueueImport(r) ==
  LET add == jobs' = [jobs EXCEPT ![r] = @ + 1]
  IN /\ At(r, "enqueue")
     /\ \/ add /\ Accept(r, r) /\ Goto(r, "done") /\ NoFault
        \/ Fails(r, add, jobs)
     /\ UNCHANGED <<storeVars, object, cut>>

Handle(r) ==
  \/ FindExisting(r) \/ RefuseBody(r) \/ Create(r) \/ FindAgain(r)
  \/ Store(r) \/ Attach(r) \/ EnqueueImport(r)

Next == \/ \E r \in Imports : Send(r) \/ Handle(r) \/ StreamEvent(r)
        \/ ProcessEnds

Spec == Init /\ [][Next]_vars

\* Node runs what is ready, and the clients stay until their upload has ended.
Fairness == \A r \in Imports : WF_vars(Handle(r))

FairSpec == Spec /\ Fairness

------------------------------------------------------------------------------
\* Properties.

\* A repeated key "must not create a second import" (ADR-003): no two imports
\* share a key, whatever the order of lookups and inserts of concurrent
\* requests, and no two clients that use one key are given different ids.
OneImportPerKey ==
  /\ \A i, j \in Imports : Exists(i) /\ Exists(j) /\ KeyOf[i] = KeyOf[j] => i = j
  /\ \A r, s \in Imports :
       {answer[r], answer[s]} \subseteq Imports /\ KeyOf[r] = KeyOf[s]
         => answer[r] = answer[s]

\* A worker that takes a job finds the row, the uploaded_file row and the
\* object: no job is added ahead of what it needs, and only one is.
JobsHaveTheirFile ==
  \A i \in Imports :
    jobs[i] > 0 => jobs[i] = 1 /\ Exists(i) /\ i \in uploaded /\ object[i] # "none"

\* A stored file belongs to an import, which a loser of the race for its key has
\* none of, and an uploaded_file row has its object; what was cut off has been
\* refused, also when it is imported all the same, and a client that was told of
\* the import it created has its whole file there: the limit event may come at
\* any time before the object is, and the outcome at any time after.
FilesAreAccountedFor ==
  \A r \in Imports :
    /\ object[r] # "none" => Exists(r)
    /\ r \in uploaded => object[r] # "none"
    /\ object[r] = "truncated" => answer[r] = Error
    /\ answer[r] = r => object[r] = "whole"

\* A client that was told the id of the import it created can rely on the job.
OwnImportIsQueued == \A r \in Imports : answer[r] = r => jobs[r] = 1

\* A client is answered once: the limit event, an error of the form and the
\* outcome of createImport race for it, and the first one stands.
AnsweredOnce ==
  [][\A r \in Imports : answer[r] # NoAnswer => answer'[r] = answer[r]]_vars

\* The handler keeps its promise: one import per key, and one true answer per
\* client, behind every interleaving of lookups, inserts, uploads and failures.
Promise == INSTANCE IdempotentCreation WITH
  Requests <- Imports,
  created  <- {i \in Imports : Exists(i)},
  queued   <- {i \in Imports : jobs[i] > 0},
  told     <- answer

ImplementsPromise == Promise!Spec

\* MAX_UPLOAD_BYTES is a "hard cap on uploaded file size" (README.md:144): what
\* was cut off there is not imported.
CutFilesAreNotImported == \A i \in cut : jobs[i] = 0

\* "a crashed API process doesn't lose in-flight imports" (ADR-001): an import
\* that a client was told of gets its job.
AcceptedImportsAreQueued ==
  \A r, i \in Imports : answer[r] = i ~> jobs[i] > 0
==============================================================================
