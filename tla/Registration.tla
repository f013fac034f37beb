---------------------------- MODULE Registration -----------------------------
(* POST /v1/auth/register and /v1/auth/login against the user table, whose    *)
(* e-mail addresses are unique.  A client has one password of its own: an     *)
(* account is named by the client whose password it holds.                    *)
(*                                                                            *)
(* One step is one database call, with the bcrypt call that follows or        *)
(* precedes it.  A client that got no answer, or an error, registers again.   *)
EXTENDS Naturals

CONSTANTS Clients, EmailOf, MaxFaults

VARIABLES account,   \* account[e]: the client whose account e is, if any
          client,    \* client[c]: the request of c under way, and its answers
          faults

NoAccount == "nobody"

Client == [pc : {"idle", "findByEmail", "createUser", "login"},
           registered : {"none", "ok", "conflict", "error"},
           loggedIn : {"none", "ok", "unauthorized", "error"}]

Emails == {EmailOf[c] : c \in Clients}

TypeOK == /\ account \in [Emails -> Clients \cup {NoAccount}]
          /\ client \in [Clients -> Client]

Init == /\ account = [e \in Emails |-> NoAccount]
        /\ client = [c \in Clients |->
                       [pc |-> "idle", registered |-> "none", loggedIn |-> "none"]]

------------------------------------------------------------------------------
At(c, pc) == client[c].pc = pc
InFlight == {c \in Clients : ~At(c, "idle")}
AccountOf(c) == account[EmailOf[c]]

Registered(c, answer) ==
  client' = [client EXCEPT ![c].pc = "idle", ![c].registered = answer]
LoggedIn(c, answer) ==
  client' = [client EXCEPT ![c].pc = "idle", ![c].loggedIn = answer]

\* A call that fails; handleControllerError turns what is not an ApiError to 500.
Fault == faults < MaxFaults /\ faults' = faults + 1
NoFault == UNCHANGED faults

\* Requests.  The process may have died since an earlier one was sent.
Register(c) ==
  /\ At(c, "idle")
  /\ client[c].registered \in {"none", "error"}
  /\ client' = [client EXCEPT ![c].pc = "findByEmail", ![c].registered = "none"]
  /\ UNCHANGED <<account, faults>>

Login(c) ==
  /\ At(c, "idle")
  /\ client[c].loggedIn = "none"
  /\ client' = [client EXCEPT ![c].pc = "login"]
  /\ UNCHANGED <<account, faults>>

Request(c) == Register(c) \/ Login(c)

\* An address that is taken is refused; else the password is hashed, during
\* which the address may be taken.  Mutant: the check is the other way round.
RefuseUnknown(c) ==
  /\ At(c, "findByEmail")
  /\ \/ AccountOf(c) # NoAccount /\ client' = [client EXCEPT ![c].pc = "createUser"]
     \/ AccountOf(c) = NoAccount /\ Registered(c, "conflict")
  /\ UNCHANGED <<account, faults>>
FindByEmail(c) ==
  /\ At(c, "findByEmail")
  /\ \/ AccountOf(c) = NoAccount /\ client' = [client EXCEPT ![c].pc = "createUser"] /\ NoFault
     \/ AccountOf(c) # NoAccount /\ Registered(c, "conflict") /\ NoFault
     \/ Registered(c, "error") /\ Fault
  /\ UNCHANGED account

Insert(c) == account' = [account EXCEPT ![EmailOf[c]] = c]

\* The unique index refuses the second of two inserts, with an error that is
\* not translated.  Mutant: without the index the row is replaced.
CreateOrReplace(c) ==
  /\ At(c, "createUser")
  /\ Insert(c) /\ Registered(c, "ok") /\ NoFault
CreateUser(c) ==
  /\ At(c, "createUser")
  /\ \/ AccountOf(c) = NoAccount /\ Insert(c) /\ Registered(c, "ok") /\ NoFault
     \/ AccountOf(c) # NoAccount /\ UNCHANGED account /\ Registered(c, "error") /\ NoFault
     \/ /\ Registered(c, "error") /\ Fault
        /\ UNCHANGED account \/ (AccountOf(c) = NoAccount /\ Insert(c))

\* findByEmail, then the passwords are compared.
CheckPassword(c) ==
  /\ At(c, "login")
  /\ \/ LoggedIn(c, IF AccountOf(c) = c THEN "ok" ELSE "unauthorized") /\ NoFault
     \/ LoggedIn(c, "error") /\ Fault
  /\ UNCHANGED account

Handle(c) == FindByEmail(c) \/ CreateUser(c) \/ CheckPassword(c)

\* The process ends: what it was doing is not answered.  Inserts that were under
\* way may have taken effect.
Dropped ==
  /\ client' = [c \in Clients |-> [client[c] EXCEPT !.pc = "idle"]]
  /\ \E owner \in [Emails -> Clients \cup {NoAccount}] :
       /\ account' = owner
       /\ \A e \in Emails : \/ owner[e] = account[e]
                            \/ /\ account[e] = NoAccount
                               /\ owner[e] \in {c \in Clients : EmailOf[c] = e /\ At(c, "createUser")}

------------------------------------------------------------------------------
\* Properties.

\* A client that was told that it is registered owns the account, and keeps it:
\* two concurrent registrations of one address do not both succeed, and no
\* later one takes the address over.
RegisteredIsMine ==
  \A c \in Clients : client[c].registered = "ok" => AccountOf(c) = c

\* "Email is already registered" is said only when it is (409,
\* auth.service.ts:22); an error of any other kind means that a call failed, or
\* that the address was taken between the two calls of register: the index's
\* refusal reaches the client as 500 and not as the documented 409.
RefusalsHaveACause ==
  \A c \in Clients :
    /\ client[c].registered = "conflict" => AccountOf(c) # NoAccount
    /\ client[c].registered = "error" => faults > 0 \/ AccountOf(c) \notin {NoAccount, c}
==============================================================================
