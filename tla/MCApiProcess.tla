---------------------------- MODULE MCApiProcess -----------------------------
(* Two uploads with one idempotency key, two clients that register one        *)
(* address, and a websocket.                                                  *)
EXTENDS ApiProcess, TLC

CONSTANTS r1, r2, c1, c2, s1, p1, k1

MCImports == {r1, r2}
MCProviders == {p1}
MCKeys == {k1}
MCProviderOf == [r \in MCImports |-> p1]
MCFile == [r \in MCImports |-> <<k1>>]
MCKeyOf == [r \in MCImports |-> "a"]
MCClients == {c1, c2}
MCEmailOf == [c \in MCClients |-> "mail"]

\* What is explored further: uploads, registrations or probes, which share
\* nothing but the process and its faults, and not two of them in one behaviour.
NoUploads == (\A r \in Imports : At(r, "unsent")) /\ unused \cap Imports = {}
NoAccounts == /\ \A c \in Clients : Auth!At(c, "idle") /\ c \notin unused
              /\ \A c \in Clients : {client[c].registered, client[c].loggedIn} = {"none"}
NoProbes == probe = "none" /\ Balancer \notin unused

OneKind == \/ NoUploads /\ NoAccounts
           \/ NoUploads /\ NoProbes
           \/ NoAccounts /\ NoProbes
==============================================================================
