------------------------- MODULE IdempotentCreation --------------------------
(* What POST /v1/imports promises: of the requests that use one key, the      *)
(* first creates the import, for good, and every other is told of that one.   *)
(* Lookups, files, the order of the effects of a request, and what can fail   *)
(* between them have no place here.                                           *)
EXTENDS FiniteSets

CONSTANTS Requests, KeyOf

VARIABLES created,   \* the requests whose import exists
          queued,    \* those whose import has been handed to the workers
          told       \* told[r]: what its client knows

Init == created = {} /\ queued = {} /\ told = [r \in Requests |-> "none"]

\* One import per key.
Create(r) == /\ \A s \in created : KeyOf[s] # KeyOf[r]
             /\ created' = created \cup {r}

\* What exists is handed over once.
Queue(r) == /\ r \in created
            /\ r \notin queued
            /\ queued' = queued \cup {r}

\* The one answer: an error, or the import that has the key; the client that
\* created it hears of it when the workers have it.
Answer(r) == /\ told[r] = "none"
             /\ \E a \in created \cup {"error"} :
                  /\ a # "error" => KeyOf[a] = KeyOf[r]
                  /\ a = r => r \in queued'
                  /\ told' = [told EXCEPT ![r] = a]

\* A request may do several of these at once.
Serve(r) == /\ Create(r) \/ UNCHANGED created
            /\ Queue(r) \/ UNCHANGED queued
            /\ Answer(r) \/ UNCHANGED told

\* The process ends: what requests were handing over is handed over or not.
Abandon == /\ queued \subseteq queued' /\ queued' \subseteq created
           /\ UNCHANGED <<created, told>>

Next == (\E r \in Requests : Serve(r)) \/ Abandon

Spec == Init /\ [][Next]_<<created, queued, told>>
==============================================================================
