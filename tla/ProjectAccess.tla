---------------------------- MODULE ProjectAccess ----------------------------
(* Who belongs to one project and in which role: members.service.ts,       *)
(* invitations.service.ts and the rooms of remark.gateway.ts.  Every       *)
(* handler reads rows, waits, and writes by the id of a row it has read;   *)
(* a request in flight is a record of what it read.  Row ids are           *)
(* represented by what they are compared for: `row` turns from "live" to   *)
(* "gone" when the row read is deleted, whatever is created later.         *)
(* One room per user stands for the rooms of all sockets of that user.     *)
EXTENDS Naturals, FiniteSets

CONSTANTS User, \* people; an invitation is addressed to one, an account or not
          Call  \* requests the server has in hand at once

ASSUME AccessAssumption == "none" \notin User

VARIABLES member,     \* [User -> Role or "none"]: table Membership
          inv,        \* [User -> Invitation]: table Invitation, one row per address
          room,       \* [User -> Room]: the context the gateway cached at join
          req,        \* [Call -> Request]
          overtaken,  \* ghost: a write took the right of pm away on an overtaken reading
          outlaw      \* ghost: the removed for whom no invitation was made since

accessVars == <<member, inv, room, req, overtaken, outlaw>>

Role == {"pm", "business"}
Invitation == [state : {"none", "pending", "expired", "accepted"}, role : Role \cup {"none"}]
NoInvitation == [state |-> "none", role |-> "none"]
(* behind: the code is known to have left this room with a role of the past *)
Room == [role : Role \cup {"none"}, behind : BOOLEAN]
NoRoom == [role |-> "none", behind |-> FALSE]
(* user: the person the request changes; address: of the invitation; role: *)
(* asked for; seen: the role read; row: of the row that will be written;   *)
(* fresh: ghost, nothing was written since that outdates the reading.      *)
Request == [step : {"idle", "check", "write", "invite", "put", "take", "enter", "revoke"},
            does : {"none", "role", "remove", "add", "accept", "join"},
            user : User \cup {"none"}, address : User \cup {"none"}, role : Role \cup {"none"},
            seen : Role \cup {"none"}, row : {"none", "live", "gone"}, fresh : BOOLEAN]
Idle == [step |-> "idle", does |-> "none", user |-> "none", address |-> "none", role |-> "none",
         seen |-> "none", row |-> "none", fresh |-> TRUE]

Managers == {u \in User : member[u] = "pm"}

AccessInit ==
  /\ \E creator \in User : member = [u \in User |-> IF u = creator THEN "pm" ELSE "none"]
  /\ inv = [u \in User |-> NoInvitation]
  /\ room = [u \in User |-> NoRoom]
  /\ req = [c \in Call |-> Idle]
  /\ overtaken = FALSE /\ outlaw = {}

-----------------------------------------------------------------------------
(* The rest of the requests after a commit that leaves the tables m and i. *)

Outdated(r, m, i) ==
  [r EXCEPT !.fresh = @ /\ (r.does \notin {"role", "remove"} \/ m = member),
            !.row = IF \/ r.does \in {"role", "remove"} /\ m[r.user] = "none"
                       \/ r.does \in {"add", "accept"} /\ i[r.address].state = "none"
                    THEN (IF @ = "live" THEN "gone" ELSE @) ELSE @]

Commit(c, after, m, i) ==
  /\ member' = m /\ inv' = i
  /\ req' = [d \in Call |-> IF d = c THEN after ELSE Outdated(req[d], m, i)]

(* A request that has written and is about to call TenancyService.revoke.  *)
ToRevoke(r) == [Idle EXCEPT !.step = "revoke", !.does = r.does, !.user = r.user]

(* TenancyService.revoke: the rooms of a user are left, and a join that    *)
(* has read the role but not entered yet is not reached.                   *)
Unreached(r, u) == IF r.does = "join" /\ r.user = u THEN [r EXCEPT !.fresh = FALSE] ELSE r

(* A request of somebody the guard lets through: @Roles('pm', 'admin').    *)
Begin(c, r) ==
  /\ req[c].step = "idle"
  /\ req' = [req EXCEPT ![c] = r]
  /\ UNCHANGED <<member, inv, room, overtaken, outlaw>>

(* Mutant: only the removal of a pm is checked.                            *)
TakesPmByRemoval(seen, role) == seen = "pm" /\ role = "none"

(* assertNotLastPm stands before every write that takes the role of pm.    *)
TakesPm(seen, role) == seen = "pm" /\ role # "pm"
FirstStep(seen, role) == IF TakesPm(seen, role) THEN "check" ELSE "write"

(* changeRole, and add for an address whose owner is a member already.     *)
AskRole(c) ==
  /\ Managers # {}
  /\ \E u \in User, r \in Role :
       /\ member[u] # "none"
       /\ Begin(c, [Idle EXCEPT !.does = "role", !.user = u, !.role = r, !.seen = member[u],
                                !.row = "live", !.step = FirstStep(member[u], r)])

AskRemove(c) ==
  /\ Managers # {}
  /\ \E u \in User :
       /\ member[u] # "none"
       /\ Begin(c, [Idle EXCEPT !.does = "remove", !.user = u, !.row = "live",
                                !.step = FirstStep(member[u], "none")])

(* The count of the other pms; none: 409.                                  *)
OthersManage(u) == Managers \ {u} # {}
CheckLastPm(c) ==
  /\ req[c].step = "check"
  /\ req' = [req EXCEPT ![c] = IF OthersManage(@.user) THEN [@ EXCEPT !.step = "write"] ELSE Idle]
  /\ UNCHANGED <<member, inv, room, overtaken, outlaw>>

(* Mutant: it is recalled only when rights are taken away.                 *)
RecallsPm(seen, role) == seen = "pm" /\ role # "pm"

(* The cached role is recalled only when the one read differs from the one *)
(* written.                                                                *)
Recalls(seen, role) == seen # role

WriteRole(c) ==
  LET r == req[c]
      unseen == r.seen = r.role /\ member[r.user] # r.role
  IN /\ r.step = "write" /\ r.does = "role"
     /\ IF r.row = "gone"
        THEN /\ req' = [req EXCEPT ![c] = Idle]
             /\ UNCHANGED <<member, inv, room, overtaken, outlaw>>
        ELSE /\ member' = [member EXCEPT ![r.user] = r.role]
             /\ req' = [d \in Call |->
                  IF d = c THEN (IF Recalls(r.seen, r.role) THEN ToRevoke(r) ELSE Idle)
                  ELSE LET other == Outdated(req[d], member', inv)
                       IN  IF unseen THEN Unreached(other, r.user) ELSE other]
             /\ room' = [room EXCEPT ![r.user].behind = @ \/ (unseen /\ room[r.user].role # "none")]
             /\ overtaken' = (overtaken \/ (member[r.user] = "pm" /\ r.role # "pm" /\ ~r.fresh))
             /\ UNCHANGED <<inv, outlaw>>

(* One transaction: the membership and the invitation to that address.     *)
Forgotten(u) == [inv EXCEPT ![u] = NoInvitation]

WriteRemove(c) ==
  LET r == req[c] IN
  /\ r.step = "write" /\ r.does = "remove"
  /\ IF r.row = "gone"
     THEN req' = [req EXCEPT ![c] = Idle] /\ UNCHANGED <<member, inv, overtaken, outlaw>>
     ELSE /\ Commit(c, ToRevoke(r),
                    [member EXCEPT ![r.user] = "none"], Forgotten(r.user))
          /\ overtaken' = (overtaken \/ (member[r.user] = "pm" /\ ~r.fresh))
          /\ outlaw' = outlaw \cup {r.user}
  /\ UNCHANGED room

(* The listener of the gateway: every room of the user is left.            *)
Revoke(c) ==
  LET r == req[c] IN
  /\ r.step = "revoke"
  /\ room' = [room EXCEPT ![r.user] = NoRoom]
  /\ req' = [d \in Call |-> IF d = c THEN Idle ELSE Unreached(req[d], r.user)]
  /\ UNCHANGED <<member, inv, overtaken, outlaw>>

-----------------------------------------------------------------------------
(* Invitations                                                             *)

(* add for everybody else: no membership is read, then the invitation.     *)
AskAdd(c) ==
  /\ Managers # {}
  /\ \E u \in User, r \in Role :
       /\ member[u] = "none"
       /\ Begin(c, [Idle EXCEPT !.does = "add", !.user = u, !.address = u, !.role = r, !.step = "invite"])

ReadInvitation(c) ==
  /\ req[c].step = "invite"
  /\ req' = [req EXCEPT ![c].step = "put",
                        ![c].row = IF inv[req[c].address].state = "none" THEN "none" ELSE "live"]
  /\ UNCHANGED <<member, inv, room, overtaken, outlaw>>

(* update by the id read, or create under unique (projectId, email).       *)
PutInvitation(c) ==
  LET r == req[c] IN
  /\ r.step = "put"
  /\ IF r.row = "live" \/ (r.row = "none" /\ inv[r.address].state = "none")
     THEN /\ Commit(c, Idle, member, [inv EXCEPT ![r.address] = [state |-> "pending", role |-> r.role]])
          /\ outlaw' = outlaw \ {r.address}
     ELSE req' = [req EXCEPT ![c] = Idle] /\ UNCHANGED <<member, inv, outlaw>>
  /\ UNCHANGED <<room, overtaken>>

(* usable and addressedTo: by link anybody with an account, from the bell  *)
(* the addressee; both read the row before the transaction.                *)
AskAccept(c) ==
  \E u, e \in User :
    /\ inv[e].state = "pending"
    /\ Begin(c, [Idle EXCEPT !.does = "accept", !.user = u, !.address = e, !.role = inv[e].role,
                             !.row = "live", !.step = "take"])

(* Mutant: the id of the row is not part of the condition.                 *)
TakeableByAddress(r) == inv[r.address].state # "accepted"

(* Conditional on the row and on acceptedAt; an existing role stands.      *)
Takeable(r) == r.row = "live" /\ inv[r.address].state \in {"pending", "expired"}

TakeInvitation(c) ==
  LET r == req[c] IN
  /\ r.step = "take"
  /\ IF Takeable(r)
     THEN Commit(c, Idle, [member EXCEPT ![r.user] = IF @ = "none" THEN r.role ELSE @],
                 [inv EXCEPT ![r.address] = [state |-> "accepted", role |-> "none"]])
     ELSE req' = [req EXCEPT ![c] = Idle] /\ UNCHANGED <<member, inv>>
  /\ UNCHANGED <<room, overtaken, outlaw>>

Becomes(e, i) ==
  /\ inv' = [inv EXCEPT ![e] = i]
  /\ req' = [d \in Call |-> Outdated(req[d], member, inv')]
  /\ UNCHANGED <<member, room, overtaken, outlaw>>

(* Handlers whose write repeats the condition of their reading.            *)
Decline(e) == inv[e].state = "pending" /\ Becomes(e, NoInvitation)
RevokeInvitation(e) == inv[e].state # "none" /\ Managers # {} /\ Becomes(e, NoInvitation)
Reissue(e) ==
  /\ inv[e].state \in {"pending", "expired"} /\ Managers # {}
  /\ Becomes(e, [inv[e] EXCEPT !.state = "pending"])
Expire(e) == inv[e].state = "pending" /\ Becomes(e, [inv[e] EXCEPT !.state = "expired"])

-----------------------------------------------------------------------------
(* Rooms                                                                   *)

AskJoin(c) ==
  \E u \in User :
    /\ member[u] # "none"
    /\ Begin(c, [Idle EXCEPT !.does = "join", !.user = u, !.seen = member[u], !.step = "enter"])

(* The role read is cached after the remark has been read.                 *)
Enter(c) ==
  LET r == req[c] IN
  /\ r.step = "enter"
  /\ room' = [room EXCEPT ![r.user] = [role |-> r.seen, behind |-> ~r.fresh /\ r.seen # member[r.user]]]
  /\ req' = [req EXCEPT ![c] = Idle]
  /\ UNCHANGED <<member, inv, overtaken, outlaw>>

Leave(u) ==
  /\ room[u] # NoRoom
  /\ room' = [room EXCEPT ![u] = NoRoom]
  /\ UNCHANGED <<member, inv, req, overtaken, outlaw>>

AccessNext ==
  \/ \E c \in Call :
       \/ AskRole(c) \/ AskRemove(c) \/ CheckLastPm(c) \/ WriteRole(c) \/ WriteRemove(c) \/ Revoke(c)
       \/ AskAdd(c) \/ ReadInvitation(c) \/ PutInvitation(c) \/ AskAccept(c) \/ TakeInvitation(c)
       \/ AskJoin(c) \/ Enter(c)
  \/ \E u \in User :
       \/ Decline(u) \/ RevokeInvitation(u) \/ Reissue(u) \/ Expire(u) \/ Leave(u)

-----------------------------------------------------------------------------
(* Properties                                                              *)

AccessTypeOK ==
  /\ member \in [User -> Role \cup {"none"}] /\ inv \in [User -> Invitation]
  /\ room \in [User -> Room] /\ req \in [Call -> Request]
  /\ overtaken \in BOOLEAN /\ outlaw \subseteq User

(* "One pm at least always stays" (members.service.ts:100): the count of   *)
(* assertNotLastPm keeps it unless two changes of members overlap.         *)
PmLostOnlyByOverlap == Managers = {} => overtaken

(* The role cached in a room is the role in the table, until the recall    *)
(* that follows each change has run; left out are the rooms entered on a   *)
(* reading the recall has overtaken, and changes that were not seen as one.*)
RoomRoleIsCurrent ==
  \A u \in User :
    room[u].role # "none" /\ ~room[u].behind =>
      \/ room[u].role = member[u]
      \/ \E c \in Call : req[c].step = "revoke" /\ req[c].user = u

(* A person who was removed comes back only by an invitation made for them *)
(* since, or by a link made out to somebody else: the old link is dead,    *)
(* also for the acceptance that had looked at it before ("the old link     *)
(* must not bring the person back", members.service.ts:84).                *)
RemovedStaysOut ==
  [][\A u \in outlaw :
       member[u] = "none" /\ member'[u] # "none" =>
         \E e \in User \ {u} : inv[e].state # "accepted" /\ inv'[e].state = "accepted"]_accessVars
=============================================================================
