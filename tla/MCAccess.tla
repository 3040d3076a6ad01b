------------------------------ MODULE MCAccess ------------------------------
(* The members of a project and the sessions of an account.  No handler    *)
(* touches both tables, so they are looked at one at a time (mode), the    *)
(* members once with their invitations and once with their rooms.          *)
EXTENDS ProjectAccess, Accounts, TLC

VARIABLE mode

vars == <<mode, accessVars, accountVars>>

(* A project whose people have joined, and in which nobody is invited now. *)
JoinedInit ==
  /\ member \in {m \in [User -> Role \cup {"none"}] : \E u \in User : m[u] = "pm"}
  /\ inv = [u \in User |-> NoInvitation]
  /\ room = [u \in User |-> NoRoom]
  /\ req = [c \in Call |-> Idle]
  /\ overtaken = FALSE /\ outlaw = {}

Init ==
  /\ mode \in {"invitations", "rooms", "sessions"}
  /\ IF mode = "rooms" THEN JoinedInit ELSE AccessInit
  /\ AccountsInit

Without(what) == \A c \in Call : req'[c].does # what

Next ==
  \/ mode = "invitations" /\ AccessNext /\ Without("join") /\ UNCHANGED <<mode, accountVars>>
  \/ mode = "rooms" /\ AccessNext /\ Without("add") /\ UNCHANGED <<mode, accountVars>>
  \/ mode = "sessions" /\ AccountsNext /\ UNCHANGED <<mode, accessVars>>

Spec == Init /\ [][Next]_vars

Symmetry == Permutations(User) \cup Permutations(Call) \cup Permutations(Desk)

(* Every variable of the part that is looked at holds a value of its kind. *)
TypeOK == IF mode = "sessions" THEN AccountsTypeOK ELSE AccessTypeOK
=============================================================================
