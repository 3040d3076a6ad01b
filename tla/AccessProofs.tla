------------------------------ MODULE AccessProofs ------------------------------
(***************************************************************************)
(* Theorems about ProjectAccess, for any people and any number of requests *)
(* in hand at once, and about Accounts, for any devices and any bounds.    *)
(*                                                                         *)
(* Members.  A request is a record of what it has read, so the invariant says what a *)
(* reading is still worth: the row of a membership that is alive belongs   *)
(* to a member, a check of the last pm holds as long as nobody has written *)
(* since, and a join nobody has overtaken has read the present role - or   *)
(* the recall that corrects it is on its way.                              *)
(*                                                                         *)
(* Sessions.  A token is never stored, so the invariant follows its data   *)
(* from the row through the requests that sign: what was read under the    *)
(* present version was read with the present password, unless a change of  *)
(* the password has overlapped the reading.                                *)
(***************************************************************************)
EXTENDS ProjectAccess, Accounts, SetLemmas

AccessSpec == AccessInit /\ [][AccessNext]_accessVars

(* A recall of what the sockets of u have cached is on its way.            *)
Recalled(u) == \E c \in Call : req[c].step = "revoke" /\ req[c].user = u

(* The write of r takes the role of pm away.                               *)
TakesAway(r) == member[r.user] = "pm" /\ (r.does = "remove" \/ r.role # "pm")

Addressed(r) ==
  /\ r.step # "idle" => r.user \in User
  /\ r.step \in {"invite", "put", "take"} => r.address \in User

WritesMember(r) ==
  r.step \in {"check", "write"} =>
    /\ r.does \in {"role", "remove"}
    /\ r.row = "gone" \/ (r.row = "live" /\ member[r.user] # "none")

HasChecked(r) ==
  r.step = "write" /\ r.fresh /\ TakesAway(r) => OthersManage(r.user)

JoinsAsRead(r) ==
  r.step = "enter" =>
    /\ r.does = "join" /\ r.seen \in Role
    /\ r.fresh => r.seen = member[r.user] \/ Recalled(r.user)

Sound(r) == Addressed(r) /\ WritesMember(r) /\ HasChecked(r) /\ JoinsAsRead(r)

(* For whom no invitation was made since the removal there is none.        *)
OutlawsUninvited == \A u \in outlaw : inv[u].state = "none"

AccessInv ==
  /\ AccessTypeOK
  /\ \A c \in Call : Sound(req[c])
  /\ PmLostOnlyByOverlap /\ RoomRoleIsCurrent /\ OutlawsUninvited

-----------------------------------------------------------------------------
(* A step of one request that writes neither table nor room.               *)
LEMMA QuietStep ==
  ASSUME AccessInv, NEW c \in Call, NEW n \in Request, req' = [req EXCEPT ![c] = n],
         UNCHANGED <<member, inv, room, overtaken, outlaw>>, req[c].step # "revoke", Sound(n)
  PROVE  AccessInv'
<1>1. req' \in [Call -> Request] /\ \A d \in Call : req'[d] = IF d = c THEN n ELSE req[d]
  BY DEF AccessInv, AccessTypeOK
<1>2. AccessTypeOK'
  BY <1>1 DEF AccessInv, AccessTypeOK
<1>3. \A u : Recalled(u) => Recalled(u)'
  BY <1>1 DEF Recalled
<1>4. Managers' = Managers
  BY DEF Managers
<1>5. ASSUME NEW d \in Call  PROVE Sound(req[d])'
  <2>1. PICK r : r = req'[d] /\ Sound(r)
    BY <1>1 DEF AccessInv
  <2>2. Addressed(r)' /\ WritesMember(r)' /\ HasChecked(r)'
    BY <1>4, <2>1 DEF Sound, Addressed, WritesMember, HasChecked, TakesAway, OthersManage
  <2>3. JoinsAsRead(r)'
    BY <1>3, <2>1 DEF Sound, JoinsAsRead
  <2> QED  BY <2>1, <2>2, <2>3 DEF Sound, Addressed, WritesMember, HasChecked, JoinsAsRead,
              TakesAway, OthersManage
<1>6. RoomRoleIsCurrent'
  BY <1>3 DEF AccessInv, RoomRoleIsCurrent, Recalled
<1> QED  BY <1>2, <1>4, <1>5, <1>6 DEF AccessInv, PmLostOnlyByOverlap, OutlawsUninvited

LEMMA IdleIsSound == Idle \in Request /\ Sound(Idle) /\ Idle.step = "idle"
BY DEF Idle, Request, Sound, Addressed, WritesMember, HasChecked, JoinsAsRead

LEMMA Reading ==
  ASSUME AccessInv, NEW c \in Call
  PROVE  /\ req[c] \in Request /\ Sound(req[c])
         /\ req \in [Call -> Request] /\ member \in [User -> Role \cup {"none"}]
         /\ inv \in [User -> Invitation] /\ room \in [User -> Room]
         /\ overtaken \in BOOLEAN /\ outlaw \subseteq User
BY DEF AccessInv, AccessTypeOK

LEMMA AsksKeep ==
  ASSUME AccessInv, NEW c \in Call,
         AskRole(c) \/ AskRemove(c) \/ AskAdd(c) \/ AskAccept(c) \/ AskJoin(c)
  PROVE  AccessInv'
<1> USE Reading
<1>1. ASSUME NEW n \in Request, Begin(c, n), Sound(n)  PROVE AccessInv'
  BY <1>1, QuietStep DEF Begin
<1>2. CASE AskRole(c)
  <2>1. PICK u \in User, r \in Role :
          /\ member[u] # "none"
          /\ Begin(c, [Idle EXCEPT !.does = "role", !.user = u, !.role = r, !.seen = member[u],
                                   !.row = "live", !.step = FirstStep(member[u], r)])
    BY <1>2 DEF AskRole
  <2>2. PICK n : n = [Idle EXCEPT !.does = "role", !.user = u, !.role = r, !.seen = member[u],
                                  !.row = "live", !.step = FirstStep(member[u], r)]
    OBVIOUS
  <2>3. n = [step |-> FirstStep(member[u], r), does |-> "role", user |-> u, address |-> "none",
             role |-> r, seen |-> member[u], row |-> "live", fresh |-> TRUE]
    BY <2>2 DEF Idle
  <2>4. n \in Request
    BY <2>3 DEF Request, FirstStep
  <2>5. Sound(n)
    BY <2>1, <2>3 DEF Sound, Addressed, WritesMember, HasChecked, JoinsAsRead, FirstStep, TakesPm,
       TakesAway
  <2> QED  BY <1>1, <2>1, <2>2, <2>4, <2>5
<1>3. CASE AskRemove(c)
  <2>1. PICK u \in User :
          /\ member[u] # "none"
          /\ Begin(c, [Idle EXCEPT !.does = "remove", !.user = u, !.row = "live",
                                   !.step = FirstStep(member[u], "none")])
    BY <1>3 DEF AskRemove
  <2>2. PICK n : n = [Idle EXCEPT !.does = "remove", !.user = u, !.row = "live",
                                  !.step = FirstStep(member[u], "none")]
    OBVIOUS
  <2>3. n = [step |-> FirstStep(member[u], "none"), does |-> "remove", user |-> u,
             address |-> "none", role |-> "none", seen |-> "none", row |-> "live", fresh |-> TRUE]
    BY <2>2 DEF Idle
  <2>4. n \in Request
    BY <2>3 DEF Request, FirstStep
  <2>5. Sound(n)
    BY <2>1, <2>3 DEF Sound, Addressed, WritesMember, HasChecked, JoinsAsRead, FirstStep, TakesPm,
       TakesAway
  <2> QED  BY <1>1, <2>1, <2>2, <2>4, <2>5
<1>4. CASE AskAdd(c)
  <2>1. PICK u \in User, r \in Role :
          Begin(c, [Idle EXCEPT !.does = "add", !.user = u, !.address = u, !.role = r,
                                !.step = "invite"])
    BY <1>4 DEF AskAdd
  <2>2. PICK n : n = [Idle EXCEPT !.does = "add", !.user = u, !.address = u, !.role = r,
                                  !.step = "invite"]
    OBVIOUS
  <2>3. n = [step |-> "invite", does |-> "add", user |-> u, address |-> u,
             role |-> r, seen |-> "none", row |-> "none", fresh |-> TRUE]
    BY <2>2 DEF Idle
  <2>4. n \in Request /\ Sound(n)
    BY <2>3 DEF Request, Sound, Addressed, WritesMember, HasChecked, JoinsAsRead
  <2> QED  BY <1>1, <2>1, <2>2, <2>4
<1>5. CASE AskAccept(c)
  <2>1. PICK u \in User, e \in User :
          Begin(c, [Idle EXCEPT !.does = "accept", !.user = u, !.address = e, !.role = inv[e].role,
                                !.row = "live", !.step = "take"])
    BY <1>5 DEF AskAccept
  <2>2. PICK n : n = [Idle EXCEPT !.does = "accept", !.user = u, !.address = e, !.role = inv[e].role,
                                  !.row = "live", !.step = "take"]
    OBVIOUS
  <2>3. n = [step |-> "take", does |-> "accept", user |-> u, address |-> e,
             role |-> inv[e].role, seen |-> "none", row |-> "live", fresh |-> TRUE]
    BY <2>2 DEF Idle
  <2>4. inv[e].role \in Role \cup {"none"}
    BY DEF Invitation
  <2>5. n \in Request /\ Sound(n)
    BY <2>3, <2>4 DEF Request, Sound, Addressed, WritesMember, HasChecked, JoinsAsRead
  <2> QED  BY <1>1, <2>1, <2>2, <2>5
<1>6. CASE AskJoin(c)
  <2>1. PICK u \in User :
          /\ member[u] # "none"
          /\ Begin(c, [Idle EXCEPT !.does = "join", !.user = u, !.seen = member[u], !.step = "enter"])
    BY <1>6 DEF AskJoin
  <2>2. PICK n : n = [Idle EXCEPT !.does = "join", !.user = u, !.seen = member[u], !.step = "enter"]
    OBVIOUS
  <2>3. n = [step |-> "enter", does |-> "join", user |-> u, address |-> "none",
             role |-> "none", seen |-> member[u], row |-> "none", fresh |-> TRUE]
    BY <2>2 DEF Idle
  <2>4. n \in Request /\ Sound(n)
    BY <2>1, <2>3 DEF Request, Sound, Addressed, WritesMember, HasChecked, JoinsAsRead
  <2> QED  BY <1>1, <2>1, <2>2, <2>4
<1> QED  BY <1>2, <1>3, <1>4, <1>5, <1>6

LEMMA ChecksKeep ==
  ASSUME AccessInv, NEW c \in Call, CheckLastPm(c) \/ ReadInvitation(c)
  PROVE  AccessInv'
<1> USE Reading
<1>1. UNCHANGED <<member, inv, room, overtaken, outlaw>> /\ req[c].step \in {"check", "invite"}
  BY DEF CheckLastPm, ReadInvitation
<1>2. \E n \in Request : req' = [req EXCEPT ![c] = n] /\ Sound(n)
  <2>1. CASE CheckLastPm(c)
    <3>1. PICK n : n = [req[c] EXCEPT !.step = "write"]
      OBVIOUS
    <3>2. n = [step |-> "write", does |-> req[c].does, user |-> req[c].user,
               address |-> req[c].address, role |-> req[c].role, seen |-> req[c].seen,
               row |-> req[c].row, fresh |-> req[c].fresh]
      BY <3>1 DEF Request
    <3>3. n \in Request
      BY <3>2 DEF Request
    <3>4. OthersManage(req[c].user) => Sound(n)
      BY <2>1, <3>2 DEF CheckLastPm, Sound, Addressed, WritesMember, HasChecked, JoinsAsRead
    <3>5. req' = [req EXCEPT ![c] = IF OthersManage(req[c].user) THEN n ELSE Idle]
      BY <2>1, <3>1 DEF CheckLastPm
    <3> QED  BY <3>3, <3>4, <3>5, IdleIsSound
  <2>2. CASE ReadInvitation(c)
    <3>1. PICK w \in {"none", "live"} : req' = [req EXCEPT ![c].step = "put", ![c].row = w]
      BY <2>2 DEF ReadInvitation
    <3>2. PICK n : n = [req[c] EXCEPT !.step = "put", !.row = w]
      OBVIOUS
    <3>3. n = [step |-> "put", does |-> req[c].does, user |-> req[c].user,
               address |-> req[c].address, role |-> req[c].role, seen |-> req[c].seen,
               row |-> w, fresh |-> req[c].fresh]
      BY <3>2 DEF Request
    <3>4. n \in Request
      BY <3>3 DEF Request
    <3>5. Sound(n)
      BY <2>2, <3>3 DEF ReadInvitation, Sound, Addressed, WritesMember, HasChecked, JoinsAsRead
    <3>6. req' = [req EXCEPT ![c] = n]
      BY <3>1, <3>2
    <3> QED  BY <3>4, <3>5, <3>6
  <2> QED  BY <2>1, <2>2
<1> QED  BY <1>1, <1>2, QuietStep

(* A write that is refused ends its request.                               *)
LEMMA RefusalsKeep ==
  ASSUME AccessInv, NEW c \in Call, req[c].step # "revoke",
         req' = [req EXCEPT ![c] = Idle], UNCHANGED <<member, inv, room, overtaken, outlaw>>
  PROVE  AccessInv'
BY QuietStep, IdleIsSound

-----------------------------------------------------------------------------
(* A socket enters a room with the role its join has read, or leaves it.   *)
LEMMA RoomsKeep ==
  ASSUME AccessInv, (\E c \in Call : Enter(c)) \/ (\E u \in User : Leave(u))
  PROVE  AccessInv'
<1>1. CASE \E u \in User : Leave(u)
  <2>1. PICK u \in User : Leave(u)
    BY <1>1
  <2>2. /\ UNCHANGED <<member, inv, req, overtaken, outlaw>>
        /\ room' = [room EXCEPT ![u] = NoRoom] /\ NoRoom \in Room /\ NoRoom.role = "none"
    BY <2>1 DEF Leave, NoRoom, Room
  <2>3. room' \in [User -> Room] /\ \A v \in User : room'[v] = room[v] \/ room'[v].role = "none"
    BY <2>2 DEF AccessInv, AccessTypeOK
  <2>4. AccessTypeOK'
    BY <2>2, <2>3 DEF AccessInv, AccessTypeOK
  <2>5. RoomRoleIsCurrent'
    BY <2>2, <2>3 DEF AccessInv, RoomRoleIsCurrent
  <2>6. \A c \in Call : Sound(req[c])'
    BY <2>2 DEF AccessInv, Sound, Addressed, WritesMember, HasChecked, JoinsAsRead, TakesAway,
       OthersManage, Managers, Recalled
  <2> QED  BY <2>2, <2>4, <2>5, <2>6 DEF AccessInv, PmLostOnlyByOverlap, Managers, OutlawsUninvited
<1>2. CASE \E c \in Call : Enter(c)
  <2>1. PICK c \in Call : Enter(c)
    BY <1>2
  <2>2. /\ UNCHANGED <<member, inv, overtaken, outlaw>> /\ req[c].step = "enter"
        /\ req' = [req EXCEPT ![c] = Idle]
        /\ room' = [room EXCEPT ![req[c].user] =
                      [role |-> req[c].seen, behind |-> ~req[c].fresh /\ req[c].seen # member[req[c].user]]]
    BY <2>1 DEF Enter
  <2>3. /\ req[c] \in Request /\ req[c].user \in User
        /\ req[c].fresh => req[c].seen = member[req[c].user] \/ Recalled(req[c].user)
    BY <2>2, Reading DEF Sound, Addressed, JoinsAsRead
  <2>4. PICK n : n = [role |-> req[c].seen, behind |-> ~req[c].fresh /\ req[c].seen # member[req[c].user]]
    OBVIOUS
  <2>5. /\ n \in Room
        /\ ~n.behind => n.role = member[req[c].user] \/ Recalled(req[c].user)
    BY <2>3, <2>4 DEF Room, Request
  <2>6. /\ room' \in [User -> Room] /\ room'[req[c].user] = n
        /\ \A v \in User : v # req[c].user => room'[v] = room[v]
    BY <2>2, <2>3, <2>4, <2>5, Reading
  <2>7. /\ req' \in [Call -> Request]
        /\ \A d \in Call : req'[d] = IF d = c THEN Idle ELSE req[d]
    BY <2>2, IdleIsSound, Reading
  <2>8. \A u : Recalled(u) => Recalled(u)'
    BY <2>2, <2>7 DEF Recalled
  <2>9. AccessTypeOK'
    BY <2>2, <2>6, <2>7, Reading DEF AccessTypeOK
  <2>10. RoomRoleIsCurrent'
    <3> SUFFICES ASSUME NEW u \in User, room'[u].role # "none", ~room'[u].behind
                 PROVE  room'[u].role = member[u] \/ Recalled(u)'
      BY <2>2 DEF RoomRoleIsCurrent, Recalled
    <3>1. CASE u = req[c].user
      BY <2>5, <2>6, <2>8, <3>1
    <3>2. CASE u # req[c].user
      BY <2>6, <2>8, <3>2 DEF AccessInv, RoomRoleIsCurrent, Recalled
    <3> QED  BY <3>1, <3>2
  <2>11. ASSUME NEW d \in Call  PROVE Sound(req[d])'
    <3>1. PICK r : r = req'[d] /\ Sound(r)
      BY <2>7, IdleIsSound, Reading
    <3>2. Sound(r)'
      BY <2>2, <2>8, <3>1 DEF Sound, Addressed, WritesMember, HasChecked, JoinsAsRead, TakesAway,
         OthersManage, Managers
    <3> QED  BY <3>1, <3>2 DEF Sound, Addressed, WritesMember, HasChecked, JoinsAsRead, TakesAway,
                OthersManage
  <2> QED  BY <2>2, <2>9, <2>10, <2>11 DEF AccessInv, PmLostOnlyByOverlap, Managers, OutlawsUninvited
<1> QED  BY <1>1, <1>2

-----------------------------------------------------------------------------
(* What a commit leaves of another request: s is r, outdated perhaps.      *)
FollowsFrom(r, s) ==
  /\ s \in Request
  /\ s.step = r.step /\ s.does = r.does /\ s.user = r.user /\ s.address = r.address
  /\ s.role = r.role /\ s.seen = r.seen
  /\ s.fresh => r.fresh /\ (r.does \in {"role", "remove"} => member' = member)
  /\ s.row = r.row \/ (r.row = "live" /\ s.row = "gone")
  /\ r.does \in {"role", "remove"} /\ member'[r.user] = "none" =>
       s.row # "live" \/ member'[r.user] = member[r.user]

SoundNext(d)    == Sound(req[d])'
RecalledNext(u) == \E c \in Call : req'[c].step = "revoke" /\ req'[c].user = u

(* A join that nobody has overtaken has missed no change of the role.      *)
MissesNothing(s) ==
  s.step = "enter" /\ s.fresh =>
    \/ member'[s.user] = member[s.user] \/ member[s.user] = "none" \/ RecalledNext(s.user)

LEMMA OutdatedFollows ==
  ASSUME AccessInv, NEW c \in Call
  PROVE  FollowsFrom(req[c], Outdated(req[c], member', inv'))
<1>1. PICK r : r = req[c]
  OBVIOUS
<1>2. PICK f, w : /\ f = (r.fresh /\ (r.does \notin {"role", "remove"} \/ member' = member))
                  /\ w = IF \/ r.does \in {"role", "remove"} /\ member'[r.user] = "none"
                            \/ r.does \in {"add", "accept"} /\ inv'[r.address].state = "none"
                         THEN (IF r.row = "live" THEN "gone" ELSE r.row) ELSE r.row
  OBVIOUS
<1>3. r \in Request
  BY <1>1, Reading
<1>4. Outdated(r, member', inv') = [r EXCEPT !.fresh = f, !.row = w]
  BY <1>2 DEF Outdated
<1>5. PICK s : s = [r EXCEPT !.fresh = f, !.row = w]
  OBVIOUS
<1>6. s = [step |-> r.step, does |-> r.does, user |-> r.user, address |-> r.address,
           role |-> r.role, seen |-> r.seen, row |-> w, fresh |-> f]
  BY <1>3, <1>5 DEF Request
<1>7. f \in BOOLEAN /\ w \in {"none", "live", "gone"}
  BY <1>2, <1>3 DEF Request
<1>8. s \in Request
  BY <1>3, <1>6, <1>7 DEF Request
<1>9. s.fresh => r.fresh /\ (r.does \in {"role", "remove"} => member' = member)
  BY <1>2, <1>6
<1>10. r.row \in {"none", "live", "gone"}
  BY <1>3 DEF Request
<1>11. /\ w = r.row \/ (r.row = "live" /\ w = "gone")
       /\ r.does \in {"role", "remove"} /\ member'[r.user] = "none" => w # "live"
  BY <1>2, <1>10
<1>12. FollowsFrom(r, s)
  BY <1>6, <1>8, <1>9, <1>11 DEF FollowsFrom
<1> QED  BY <1>1, <1>4, <1>5, <1>12

LEMMA FollowersAreSound ==
  ASSUME AccessInv, NEW d \in Call, FollowsFrom(req[d], req'[d]), MissesNothing(req'[d]),
         req'[d].step = "enter" /\ req'[d].fresh /\ Recalled(req'[d].user)
           => RecalledNext(req'[d].user)
  PROVE  SoundNext(d)
<1>1. PICK r, s : r = req[d] /\ s = req'[d] /\ Sound(r) /\ FollowsFrom(r, s) /\ MissesNothing(s)
  BY Reading
<1>2. Addressed(s)'
  BY <1>1 DEF FollowsFrom, Sound, Addressed
<1>3. WritesMember(s)'
  BY <1>1 DEF FollowsFrom, Sound, WritesMember
<1>4. HasChecked(s)'
  <2>1. s.step = "write" /\ s.fresh => r.step = "write" /\ r.fresh /\ member' = member
    BY <1>1 DEF FollowsFrom, Sound, WritesMember
  <2> QED  BY <1>1, <2>1 DEF FollowsFrom, Sound, HasChecked, TakesAway, OthersManage, Managers
<1>5. JoinsAsRead(s)'
  <2>1. ASSUME s.step = "enter"
        PROVE  /\ s.does = "join" /\ s.seen \in Role
               /\ s.fresh => s.seen = member[s.user] \/ Recalled(s.user)
    BY <1>1, <2>1 DEF FollowsFrom, Sound, JoinsAsRead
  <2>2. "none" \notin Role
    BY DEF Role
  <2>3. s.step = "enter" /\ s.fresh /\ Recalled(s.user) => RecalledNext(s.user)
    BY <1>1
  <2> QED  BY <1>1, <2>1, <2>2, <2>3 DEF MissesNothing, JoinsAsRead, Recalled, RecalledNext
<1> QED  BY <1>1, <1>2, <1>3, <1>4, <1>5 DEF SoundNext, Sound, Addressed, WritesMember,
            HasChecked, JoinsAsRead, TakesAway, OthersManage

LEMMA CommitKeepsRequests ==
  ASSUME AccessInv, req' \in [Call -> Request],
         \A d \in Call : \/ FollowsFrom(req[d], req'[d]) /\ MissesNothing(req'[d])
                         \/ SoundNext(d) /\ req[d].step # "revoke"
  PROVE  (\A d \in Call : SoundNext(d)) /\ \A u : Recalled(u) => RecalledNext(u)
<1>1. \A u : Recalled(u) => RecalledNext(u)
  BY DEF Recalled, RecalledNext, FollowsFrom
<1> QED  BY <1>1, FollowersAreSound

LEMMA RevokeIsSound ==
  ASSUME AccessInv, NEW c \in Call, req[c].step = "write"
  PROVE  \E n \in Request : /\ n = ToRevoke(req[c]) /\ n.step = "revoke"
                            /\ n.user = req[c].user /\ Sound(n)'
<1>1. PICK n : n = ToRevoke(req[c])
  OBVIOUS
<1>2. n = [step |-> "revoke", does |-> req[c].does, user |-> req[c].user, address |-> "none",
           role |-> "none", seen |-> "none", row |-> "none", fresh |-> TRUE]
  BY <1>1 DEF ToRevoke, Idle
<1>3. req[c] \in Request /\ req[c].user \in User
  BY Reading DEF SoundNext, Sound, Addressed
<1>4. n \in Request
  BY <1>2, <1>3 DEF Request
<1>5. Sound(n)'
  BY <1>2, <1>3 DEF SoundNext, Sound, Addressed, WritesMember, HasChecked, JoinsAsRead
<1> QED  BY <1>1, <1>2, <1>4, <1>5

LEMMA IdleStaysSound == Sound(Idle)'
BY DEF Idle, SoundNext, Sound, Addressed, WritesMember, HasChecked, JoinsAsRead

(* A change that takes nobody's role of pm leaves a pm; one that takes it  *)
(* on a fresh reading leaves another.                                      *)
LEMMA PmStays ==
  ASSUME AccessInv, \/ \A u \in User : member[u] = "pm" => member'[u] = "pm"
                    \/ overtaken'
                    \/ \E u \in User : OthersManage(u) /\ \A v \in User \ {u} : member'[v] = member[v],
         overtaken => overtaken'
  PROVE  PmLostOnlyByOverlap'
BY DEF AccessInv, PmLostOnlyByOverlap, Managers, OthersManage

(* Nobody new is in the room of somebody else's role.                      *)
LEMMA RoomsFollow ==
  ASSUME AccessInv, \A u : Recalled(u) => RecalledNext(u),
         \A u \in User : \/ room'[u] = room[u] /\ (member'[u] = member[u] \/ member[u] = "none")
                         \/ room'[u].role = "none" \/ room'[u].behind
                         \/ RecalledNext(u)
  PROVE  RoomRoleIsCurrent'
<1> SUFFICES ASSUME NEW u \in User, room'[u].role # "none", ~room'[u].behind
             PROVE  room'[u].role = member'[u] \/ RecalledNext(u)
  BY DEF RoomRoleIsCurrent, RecalledNext
<1>1. CASE room'[u] = room[u] /\ (member'[u] = member[u] \/ member[u] = "none")
  <2>1. room[u].role = member[u] \/ Recalled(u)
    BY <1>1 DEF AccessInv, RoomRoleIsCurrent, Recalled
  <2> QED  BY <1>1, <2>1
<1> QED  BY <1>1

LEMMA RolesAreKept ==
  ASSUME AccessInv, NEW c \in Call, WriteRole(c)
  PROVE  AccessInv'
<1>0. PICK r : r = req[c]
  OBVIOUS
<1> USE <1>0
<1>1. r \in Request /\ Sound(r) /\ r.user \in User /\ r.step = "write" /\ r.does = "role"
  BY Reading DEF WriteRole, Sound, Addressed
<1>2. CASE r.row = "gone"
  BY <1>1, <1>2, RefusalsKeep DEF WriteRole
<1>3. CASE r.row # "gone"
  <2>1. member[r.user] # "none"
    BY <1>1, <1>3 DEF SoundNext, Sound, WritesMember
  <2>2. PICK unseen \in BOOLEAN :
          /\ unseen = (r.seen = r.role /\ member[r.user] # r.role)
          /\ member' = [member EXCEPT ![r.user] = r.role]
          /\ req' = [d \in Call |->
               IF d = c THEN (IF Recalls(r.seen, r.role) THEN ToRevoke(r) ELSE Idle)
               ELSE IF unseen THEN Unreached(Outdated(req[d], member', inv), r.user)
                              ELSE Outdated(req[d], member', inv)]
          /\ room' = [room EXCEPT ![r.user].behind = @ \/ (unseen /\ room[r.user].role # "none")]
          /\ overtaken' = (overtaken \/ (member[r.user] = "pm" /\ r.role # "pm" /\ ~r.fresh))
          /\ UNCHANGED <<inv, outlaw>>
    BY <1>3 DEF WriteRole
  <2>3. /\ member' \in [User -> Role \cup {"none"}]
        /\ \A u \in User : member'[u] = IF u = r.user THEN r.role ELSE member[u]
    BY <1>1, <2>2, Reading DEF Request
  <2>4. PICK n \in Request : n = ToRevoke(r) /\ n.step = "revoke" /\ n.user = r.user /\ Sound(n)'
    BY <1>1, RevokeIsSound
  <2>5. /\ r.seen # r.role => req'[c] = n
        /\ r.seen = r.role => req'[c] = Idle
    BY <2>2, <2>4 DEF Recalls
  <2>6. r.seen # r.role => RecalledNext(r.user)
    BY <2>4, <2>5 DEF Recalled, RecalledNext
  <2>7. ASSUME NEW d \in Call, d # c
        PROVE  FollowsFrom(req[d], req'[d]) /\ MissesNothing(req'[d])
    <3>1. PICK o : o = Outdated(req[d], member', inv) /\ FollowsFrom(req[d], o)
      BY <2>2, OutdatedFollows
    <3>2. PICK q : q = [o EXCEPT !.fresh = FALSE]
      OBVIOUS
    <3>3. q = [step |-> o.step, does |-> o.does, user |-> o.user, address |-> o.address,
               role |-> o.role, seen |-> o.seen, row |-> o.row, fresh |-> FALSE]
      BY <3>1, <3>2 DEF FollowsFrom, Request
    <3>4. q \in Request
      BY <3>1, <3>3 DEF FollowsFrom, Request
    <3>5. FollowsFrom(req[d], q)
      BY <3>1, <3>3, <3>4 DEF FollowsFrom
    <3>6. req'[d] = IF unseen /\ o.does = "join" /\ o.user = r.user THEN q ELSE o
      BY <2>2, <2>7, <3>1, <3>2 DEF Unreached
    <3>7. FollowsFrom(req[d], req'[d])
      BY <3>1, <3>5, <3>6
    <3>8. ASSUME o.step = "enter", req'[d].fresh, o.user = r.user, member'[o.user] # member[o.user]
          PROVE  RecalledNext(o.user)
      <4>1. o.does = "join"
        BY <3>1, <3>8, Reading DEF FollowsFrom, Sound, JoinsAsRead
      <4>2. ~unseen
        BY <3>3, <3>6, <3>8, <4>1
      <4> QED  BY <1>1, <2>2, <2>3, <2>6, <3>8, <4>2
    <3>9. req'[d].step = o.step /\ req'[d].user = o.user /\ (req'[d].step = "enter" => o.user \in User)
      BY <3>1, <3>3, <3>6, Reading DEF FollowsFrom, Sound, Addressed
    <3>10. MissesNothing(req'[d])
      BY <2>3, <3>8, <3>9 DEF MissesNothing
    <3> QED  BY <3>7, <3>10
  <2>8. SoundNext(c) /\ req'[c] \in Request
    <3>1. CASE r.seen # r.role
      BY <2>4, <2>5, <3>1 DEF SoundNext, Sound, Addressed, WritesMember, HasChecked, JoinsAsRead, TakesAway,
         OthersManage
    <3>2. CASE r.seen = r.role
      BY <2>5, <3>2, IdleIsSound DEF Idle, SoundNext, Sound, Addressed, WritesMember, HasChecked, JoinsAsRead
    <3> QED  BY <3>1, <3>2
  <2>9. req' \in [Call -> Request]
    <3>1. \A d \in Call : req'[d] \in Request
      BY <2>7, <2>8 DEF FollowsFrom
    <3> QED  BY <2>2, <3>1
  <2>10. (\A d \in Call : SoundNext(d)) /\ \A u : Recalled(u) => RecalledNext(u)
    <3>1. \A d \in Call : \/ FollowsFrom(req[d], req'[d]) /\ MissesNothing(req'[d])
                          \/ SoundNext(d) /\ req[d].step # "revoke"
      BY <1>1, <2>7, <2>8
    <3> QED  BY <2>9, <3>1, CommitKeepsRequests
  <2>11. PICK n2 : n2 = [room[r.user] EXCEPT !.behind = @ \/ (unseen /\ room[r.user].role # "none")]
    OBVIOUS
  <2>12. /\ n2 \in Room /\ n2.role = room[r.user].role
         /\ unseen /\ room[r.user].role # "none" => n2.behind
         /\ ~(unseen /\ room[r.user].role # "none") => n2 = room[r.user]
    BY <1>1, <2>11, Reading DEF Room
  <2>13. /\ room' \in [User -> Room] /\ room'[r.user] = n2
         /\ \A u \in User : u # r.user => room'[u] = room[u]
    BY <1>1, <2>2, <2>11, <2>12, Reading
  <2>14. AccessTypeOK'
    BY <2>2, <2>3, <2>9, <2>13, Reading DEF AccessTypeOK
  <2>15. RoomRoleIsCurrent'
    <3> SUFFICES ASSUME NEW u \in User
                 PROVE  \/ room'[u] = room[u] /\ (member'[u] = member[u] \/ member[u] = "none")
                        \/ room'[u].role = "none" \/ room'[u].behind
                        \/ RecalledNext(u)
      BY <2>10, RoomsFollow
    <3>1. CASE u # r.user
      BY <2>3, <2>13, <3>1
    <3>2. CASE u = r.user
      BY <1>1, <2>2, <2>3, <2>6, <2>12, <2>13, <3>2
    <3> QED  BY <3>1, <3>2
  <2>16. PmLostOnlyByOverlap'
    <3>1. overtaken => overtaken'
      BY <2>2
    <3>2. CASE member[r.user] = "pm" /\ r.role # "pm"
      <4>1. r.fresh => OthersManage(r.user)
        BY <1>1, <3>2 DEF SoundNext, Sound, HasChecked, TakesAway
      <4>2. ~r.fresh => overtaken'
        BY <2>2, <3>2
      <4> QED  BY <1>1, <2>3, <3>1, <4>1, <4>2, PmStays
    <3>3. CASE ~(member[r.user] = "pm" /\ r.role # "pm")
      BY <2>3, <3>1, <3>3, PmStays
    <3> QED  BY <3>2, <3>3
  <2> QED  BY <2>2, <2>10, <2>14, <2>15, <2>16 DEF AccessInv, SoundNext, OutlawsUninvited
<1> QED  BY <1>2, <1>3

LEMMA RemovalsKeep ==
  ASSUME AccessInv, NEW c \in Call, WriteRemove(c)
  PROVE  AccessInv'
<1>0. PICK r : r = req[c]
  OBVIOUS
<1> USE <1>0
<1>1. r \in Request /\ Sound(r) /\ r.user \in User /\ r.step = "write" /\ r.does = "remove"
  BY Reading DEF WriteRemove, Sound, Addressed
<1>2. CASE r.row = "gone"
  BY <1>1, <1>2, RefusalsKeep DEF WriteRemove
<1>3. CASE r.row # "gone"
  <2>1. /\ member' = [member EXCEPT ![r.user] = "none"] /\ inv' = Forgotten(r.user)
        /\ req' = [d \in Call |-> IF d = c THEN ToRevoke(r) ELSE Outdated(req[d], member', inv')]
        /\ overtaken' = (overtaken \/ (member[r.user] = "pm" /\ ~r.fresh))
        /\ outlaw' = outlaw \cup {r.user} /\ UNCHANGED room
    BY <1>3 DEF WriteRemove, Commit
  <2>2. /\ member' \in [User -> Role \cup {"none"}]
        /\ \A u \in User : member'[u] = IF u = r.user THEN "none" ELSE member[u]
    BY <1>1, <2>1, Reading
  <2>3. /\ inv' \in [User -> Invitation] /\ inv'[r.user].state = "none"
        /\ \A u \in User : u # r.user => inv'[u] = inv[u]
    BY <1>1, <2>1, Reading DEF Forgotten, NoInvitation, Invitation
  <2>4. PICK n \in Request : n = ToRevoke(r) /\ n.step = "revoke" /\ n.user = r.user /\ Sound(n)'
    BY <1>1, RevokeIsSound
  <2>5. req'[c] = n /\ RecalledNext(r.user)
    BY <2>1, <2>4 DEF Recalled, RecalledNext
  <2>6. ASSUME NEW d \in Call, d # c
        PROVE  FollowsFrom(req[d], req'[d]) /\ MissesNothing(req'[d])
    <3>1. FollowsFrom(req[d], req'[d])
      BY <2>1, <2>6, OutdatedFollows
    <3>2. req'[d].step = "enter" => req'[d].user \in User
      BY <3>1, Reading DEF FollowsFrom, Sound, Addressed
    <3> QED  BY <2>2, <2>5, <3>1, <3>2 DEF MissesNothing
  <2>7. SoundNext(c)
    BY <2>4, <2>5 DEF SoundNext, Sound, Addressed, WritesMember, HasChecked, JoinsAsRead, TakesAway, OthersManage
  <2>8. req' \in [Call -> Request]
    <3>1. \A d \in Call : req'[d] \in Request
      BY <2>4, <2>5, <2>6 DEF FollowsFrom
    <3> QED  BY <2>1, <3>1
  <2>9. (\A d \in Call : SoundNext(d)) /\ \A u : Recalled(u) => RecalledNext(u)
    <3>1. \A d \in Call : \/ FollowsFrom(req[d], req'[d]) /\ MissesNothing(req'[d])
                          \/ SoundNext(d) /\ req[d].step # "revoke"
      BY <1>1, <2>6, <2>7
    <3> QED  BY <2>7, <2>8, <3>1, CommitKeepsRequests
  <2>10. AccessTypeOK'
    BY <1>1, <2>1, <2>2, <2>3, <2>8, Reading DEF AccessTypeOK
  <2>11. RoomRoleIsCurrent'
    <3> SUFFICES ASSUME NEW u \in User
                 PROVE  (room'[u] = room[u] /\ member'[u] = member[u]) \/ RecalledNext(u)
      BY <2>9, RoomsFollow
    <3> QED  BY <2>1, <2>2, <2>5
  <2>12. PmLostOnlyByOverlap'
    <3>1. overtaken => overtaken'
      BY <2>1
    <3>2. CASE member[r.user] = "pm"
      <4>1. r.fresh => OthersManage(r.user)
        BY <1>1, <3>2 DEF SoundNext, Sound, HasChecked, TakesAway
      <4>2. ~r.fresh => overtaken'
        BY <2>1, <3>2
      <4> QED  BY <1>1, <2>2, <3>1, <4>1, <4>2, PmStays
    <3>3. CASE member[r.user] # "pm"
      BY <2>2, <3>1, <3>3, PmStays
    <3> QED  BY <3>2, <3>3
  <2>13. OutlawsUninvited'
    BY <2>1, <2>3, Reading DEF AccessInv, OutlawsUninvited
  <2> QED  BY <2>9, <2>10, <2>11, <2>12, <2>13 DEF AccessInv, SoundNext
<1> QED  BY <1>2, <1>3

-----------------------------------------------------------------------------
(* The recall: every room of a user is left.                               *)
LEMMA RecallKeeps ==
  ASSUME AccessInv, NEW c \in Call, Revoke(c)
  PROVE  AccessInv'
<1>0. PICK r : r = req[c]
  OBVIOUS
<1> USE <1>0
<1>1. /\ r.step = "revoke" /\ r.user \in User
      /\ room' = [room EXCEPT ![r.user] = NoRoom]
      /\ req' = [d \in Call |-> IF d = c THEN Idle ELSE Unreached(req[d], r.user)]
      /\ UNCHANGED <<member, inv, overtaken, outlaw>>
  BY Reading DEF Revoke, Sound, Addressed
<1>2. /\ room' \in [User -> Room] /\ room'[r.user].role = "none"
      /\ \A u \in User : u # r.user => room'[u] = room[u]
  BY <1>1, Reading DEF NoRoom, Room
<1>3. ASSUME NEW d \in Call, d # c
      PROVE  /\ FollowsFrom(req[d], req'[d])
             /\ req'[d].step = "enter" /\ req'[d].fresh => req'[d].user # r.user
  <2>1. PICK o : o = req[d] /\ o \in Request /\ Sound(o)
    BY Reading
  <2>2. PICK q : q = [o EXCEPT !.fresh = FALSE]
    OBVIOUS
  <2>3. q = [step |-> o.step, does |-> o.does, user |-> o.user, address |-> o.address,
             role |-> o.role, seen |-> o.seen, row |-> o.row, fresh |-> FALSE]
    BY <2>1, <2>2 DEF Request
  <2>4. q \in Request
    BY <2>1, <2>3 DEF Request
  <2>5. req'[d] = IF o.does = "join" /\ o.user = r.user THEN q ELSE o
    BY <1>1, <1>3, <2>1, <2>2 DEF Unreached
  <2>6. FollowsFrom(o, o) /\ FollowsFrom(o, q)
    BY <1>1, <2>1, <2>3, <2>4 DEF FollowsFrom
  <2>7. o.step = "enter" => o.does = "join"
    BY <2>1 DEF Sound, JoinsAsRead
  <2> QED  BY <2>1, <2>3, <2>5, <2>6, <2>7
<1>4. req'[c] = Idle
  BY <1>1
<1>5. req' \in [Call -> Request]
  <2>1. \A d \in Call : req'[d] \in Request
    BY <1>3, <1>4, IdleIsSound DEF FollowsFrom
  <2> QED  BY <1>1, <2>1
<1>6. ASSUME NEW u, Recalled(u), u # r.user  PROVE RecalledNext(u)
  <2>1. PICK d \in Call : req[d].step = "revoke" /\ req[d].user = u /\ d # c
    BY <1>6 DEF Recalled
  <2>2. req'[d].step = "revoke" /\ req'[d].user = u
    BY <1>3, <2>1 DEF FollowsFrom
  <2> QED  BY <2>2 DEF RecalledNext
<1>7. ASSUME NEW d \in Call  PROVE SoundNext(d)
  <2>1. CASE d = c
    BY <1>4, <2>1 DEF Idle, SoundNext, Sound, Addressed, WritesMember, HasChecked, JoinsAsRead
  <2>2. CASE d # c
    <3>1. MissesNothing(req'[d])
      BY <1>1 DEF MissesNothing
    <3>2. req'[d].step = "enter" /\ req'[d].fresh /\ Recalled(req'[d].user)
            => RecalledNext(req'[d].user)
      BY <1>3, <1>6, <2>2
    <3> QED  BY <1>3, <2>2, <3>1, <3>2, FollowersAreSound
  <2> QED  BY <2>1, <2>2
<1>8. RoomRoleIsCurrent'
  <2> SUFFICES ASSUME NEW u \in User, room'[u].role # "none", ~room'[u].behind
               PROVE  room'[u].role = member[u] \/ RecalledNext(u)
    BY <1>1 DEF RoomRoleIsCurrent, RecalledNext
  <2>1. u # r.user /\ room'[u] = room[u]
    BY <1>2
  <2>2. room[u].role = member[u] \/ Recalled(u)
    BY <2>1 DEF AccessInv, RoomRoleIsCurrent, Recalled
  <2> QED  BY <1>6, <2>1, <2>2
<1>9. AccessTypeOK'
  BY <1>1, <1>2, <1>5, Reading DEF AccessTypeOK
<1> QED  BY <1>1, <1>7, <1>8, <1>9 DEF AccessInv, SoundNext, PmLostOnlyByOverlap, Managers,
            OutlawsUninvited

(* A commit to the invitations; a membership may begin with it.            *)
LEMMA InvitationsKeep ==
  ASSUME AccessInv, req' \in [Call -> Request], inv' \in [User -> Invitation],
         member' \in [User -> Role \cup {"none"}], UNCHANGED <<room, overtaken>>,
         \A d \in Call : \/ FollowsFrom(req[d], req'[d])
                         \/ req'[d] = Idle /\ req[d].step # "revoke",
         \A u \in User : member'[u] = member[u] \/ member[u] = "none",
         outlaw' \subseteq outlaw, \A u \in outlaw' : inv'[u].state = "none"
  PROVE  AccessInv'
<1>1. ASSUME NEW d \in Call, FollowsFrom(req[d], req'[d])  PROVE MissesNothing(req'[d])
  <2>1. req'[d].step = "enter" => req'[d].user \in User
    BY <1>1, Reading DEF FollowsFrom, Sound, Addressed
  <2> QED  BY <2>1 DEF MissesNothing
<1>2. ASSUME NEW d \in Call, req'[d] = Idle  PROVE SoundNext(d)
  BY <1>2 DEF Idle, SoundNext, Sound, Addressed, WritesMember, HasChecked, JoinsAsRead
<1>3. \A d \in Call : \/ FollowsFrom(req[d], req'[d]) /\ MissesNothing(req'[d])
                      \/ SoundNext(d) /\ req[d].step # "revoke"
  BY <1>1, <1>2
<1>4. (\A d \in Call : SoundNext(d)) /\ \A u : Recalled(u) => RecalledNext(u)
  BY <1>3, CommitKeepsRequests
<1>5. AccessTypeOK'
  BY DEF AccessInv, AccessTypeOK
<1>6. RoomRoleIsCurrent'
  BY <1>4, RoomsFollow
<1>7. PmLostOnlyByOverlap'
  <2>1. \A u \in User : member[u] = "pm" => member'[u] = "pm"
    OBVIOUS
  <2> QED  BY <2>1, PmStays
<1> QED  BY <1>4, <1>5, <1>6, <1>7 DEF AccessInv, SoundNext, OutlawsUninvited

LEMMA InvitersKeep ==
  ASSUME AccessInv, NEW c \in Call, PutInvitation(c) \/ TakeInvitation(c)
  PROVE  AccessInv'
<1>0. PICK r : r = req[c]
  OBVIOUS
<1> USE <1>0
<1>1. /\ r \in Request /\ r.user \in User /\ r.address \in User /\ r.step \in {"put", "take"}
  BY Reading DEF PutInvitation, TakeInvitation, Sound, Addressed
<1>2. CASE UNCHANGED <<member, inv, outlaw>> /\ req' = [req EXCEPT ![c] = Idle]
  BY <1>1, <1>2, RefusalsKeep DEF PutInvitation, TakeInvitation
<1>3. ASSUME NEW m \in [User -> Role \cup {"none"}], NEW i \in [User -> Invitation],
             Commit(c, Idle, m, i), UNCHANGED <<room, overtaken>>,
             \A u \in User : m[u] = member[u] \/ member[u] = "none",
             outlaw' \subseteq outlaw, \A u \in outlaw' : i[u].state = "none"
      PROVE  AccessInv'
  <2>1. member' = m /\ inv' = i
    BY <1>3 DEF Commit
  <2>2. \A d \in Call : req'[d] = IF d = c THEN Idle ELSE Outdated(req[d], member', inv')
    BY <1>3, <2>1 DEF Commit
  <2>3. \A d \in Call : \/ FollowsFrom(req[d], req'[d])
                        \/ req'[d] = Idle /\ req[d].step # "revoke"
    BY <1>1, <2>2, OutdatedFollows
  <2>4. req' \in [Call -> Request]
    <3>1. \A d \in Call : req'[d] \in Request
      BY <2>3, IdleIsSound DEF FollowsFrom
    <3> QED  BY <1>3, <3>1 DEF Commit
  <2> QED  BY <1>3, <2>1, <2>3, <2>4, InvitationsKeep
<1>4. CASE /\ PutInvitation(c)
           /\ r.row = "live" \/ (r.row = "none" /\ inv[r.address].state = "none")
  <2>1. PICK i : i = [inv EXCEPT ![r.address] = [state |-> "pending", role |-> r.role]]
    OBVIOUS
  <2>2. /\ Commit(c, Idle, member, i) /\ UNCHANGED <<room, overtaken>>
        /\ outlaw' = outlaw \ {r.address}
    BY <1>4, <2>1 DEF PutInvitation
  <2>3. /\ i \in [User -> Invitation] /\ \A u \in User : u # r.address => i[u] = inv[u]
    BY <1>1, <2>1, Reading DEF Invitation, Request
  <2>4. \A u \in outlaw' : i[u].state = "none"
    BY <2>2, <2>3, Reading DEF AccessInv, OutlawsUninvited
  <2> QED  BY <1>3, <2>2, <2>3, <2>4, Reading
<1>5. CASE TakeInvitation(c) /\ Takeable(r)
  <2>1. PICK m, i : /\ m = [member EXCEPT ![r.user] = IF @ = "none" THEN r.role ELSE @]
                    /\ i = [inv EXCEPT ![r.address] = [state |-> "accepted", role |-> "none"]]
    OBVIOUS
  <2>2. Commit(c, Idle, m, i) /\ UNCHANGED <<room, overtaken, outlaw>>
    BY <1>5, <2>1 DEF TakeInvitation
  <2>3. /\ m \in [User -> Role \cup {"none"}] /\ i \in [User -> Invitation]
        /\ \A u \in User : m[u] = member[u] \/ member[u] = "none"
        /\ \A u \in User : u # r.address => i[u] = inv[u]
    BY <1>1, <2>1, Reading DEF Invitation, Request
  <2>4. r.address \notin outlaw
    BY <1>1, <1>5 DEF Takeable, AccessInv, OutlawsUninvited
  <2>5. \A u \in outlaw : i[u].state = "none"
    BY <2>3, <2>4, Reading DEF AccessInv, OutlawsUninvited
  <2> QED  BY <1>3, <2>2, <2>3, <2>5
<1>6. CASE TakeInvitation(c) /\ ~Takeable(r)
  BY <1>2, <1>6 DEF TakeInvitation
<1>7. CASE /\ PutInvitation(c)
           /\ ~(r.row = "live" \/ (r.row = "none" /\ inv[r.address].state = "none"))
  BY <1>2, <1>7 DEF PutInvitation
<1> QED  BY <1>4, <1>5, <1>6, <1>7

LEMMA RowsOfInvitationsKeep ==
  ASSUME AccessInv, NEW e \in User,
         Decline(e) \/ RevokeInvitation(e) \/ Reissue(e) \/ Expire(e)
  PROVE  AccessInv'
<1>1. PICK i \in Invitation : Becomes(e, i) /\ (i.state = "none" \/ inv[e].state # "none")
  <2>1. inv[e] \in Invitation
    BY Reading DEF AccessInv, AccessTypeOK
  <2>2. NoInvitation \in Invitation /\ NoInvitation.state = "none"
    BY DEF NoInvitation, Invitation
  <2>3. \A st \in {"pending", "expired"} : [inv[e] EXCEPT !.state = st] \in Invitation
    BY <2>1 DEF Invitation
  <2> QED  BY <2>2, <2>3 DEF Decline, RevokeInvitation, Reissue, Expire
<1>2. /\ inv' = [inv EXCEPT ![e] = i] /\ UNCHANGED <<member, room, overtaken, outlaw>>
      /\ \A d \in Call : req'[d] = Outdated(req[d], member', inv')
      /\ req' = [d \in Call |-> req'[d]]
  BY <1>1 DEF Becomes
<1>3. inv' \in [User -> Invitation] /\ \A u \in User : inv'[u] = IF u = e THEN i ELSE inv[u]
  BY <1>2 DEF AccessInv, AccessTypeOK
<1>4. \A d \in Call : FollowsFrom(req[d], req'[d])
  BY <1>2, OutdatedFollows
<1>5. req' \in [Call -> Request]
  BY <1>2, <1>4 DEF FollowsFrom
<1>6. \A u \in outlaw' : inv'[u].state = "none"
  BY <1>1, <1>2, <1>3 DEF AccessInv, AccessTypeOK, OutlawsUninvited
<1> QED  BY <1>2, <1>3, <1>4, <1>5, <1>6, InvitationsKeep DEF AccessInv, AccessTypeOK

-----------------------------------------------------------------------------
LEMMA AccessStep == AccessInv /\ [AccessNext]_accessVars => AccessInv'
<1> SUFFICES ASSUME AccessInv, [AccessNext]_accessVars PROVE AccessInv'
  OBVIOUS
<1>1. CASE UNCHANGED accessVars
  BY <1>1 DEF accessVars, AccessInv, AccessTypeOK, Sound, Addressed, WritesMember, HasChecked,
     JoinsAsRead, TakesAway, OthersManage, Managers, Recalled, PmLostOnlyByOverlap,
     RoomRoleIsCurrent, OutlawsUninvited
<1>2. ASSUME NEW c \in Call,
             AskRole(c) \/ AskRemove(c) \/ AskAdd(c) \/ AskAccept(c) \/ AskJoin(c)
      PROVE  AccessInv'
  BY <1>2, AsksKeep
<1>3. ASSUME NEW c \in Call, CheckLastPm(c) \/ ReadInvitation(c)  PROVE AccessInv'
  BY <1>3, ChecksKeep
<1>4. ASSUME NEW c \in Call, WriteRole(c) \/ WriteRemove(c) \/ Revoke(c)  PROVE AccessInv'
  BY <1>4, RolesAreKept, RemovalsKeep, RecallKeeps
<1>5. ASSUME NEW c \in Call, PutInvitation(c) \/ TakeInvitation(c)  PROVE AccessInv'
  BY <1>5, InvitersKeep
<1>6. ASSUME NEW c \in Call, Enter(c)  PROVE AccessInv'
  BY <1>6, RoomsKeep
<1>7. ASSUME NEW u \in User, Leave(u)  PROVE AccessInv'
  BY <1>7, RoomsKeep
<1>8. ASSUME NEW u \in User, Decline(u) \/ RevokeInvitation(u) \/ Reissue(u) \/ Expire(u)
      PROVE  AccessInv'
  BY <1>8, RowsOfInvitationsKeep
<1> QED  BY <1>1, <1>2, <1>3, <1>4, <1>5, <1>6, <1>7, <1>8 DEF AccessNext

LEMMA AccessBegins == AccessInit => AccessInv
<1> SUFFICES ASSUME AccessInit PROVE AccessInv
  OBVIOUS
<1>1. PICK creator \in User : member = [u \in User |-> IF u = creator THEN "pm" ELSE "none"]
  BY DEF AccessInit
<1>2. \A c \in Call : req[c] = Idle /\ Sound(req[c])
  BY IdleIsSound DEF AccessInit
<1>3. AccessTypeOK
  <2>1. member \in [User -> Role \cup {"none"}]
    BY <1>1 DEF Role
  <2>2. inv \in [User -> Invitation] /\ room \in [User -> Room]
    BY DEF AccessInit, NoInvitation, Invitation, NoRoom, Room
  <2>3. req \in [Call -> Request]
    BY IdleIsSound DEF AccessInit
  <2> QED  BY <2>1, <2>2, <2>3 DEF AccessInit, AccessTypeOK
<1>4. creator \in Managers
  BY <1>1 DEF Managers
<1>5. RoomRoleIsCurrent
  BY DEF AccessInit, NoRoom, RoomRoleIsCurrent
<1> QED  BY <1>2, <1>3, <1>4, <1>5 DEF AccessInv, PmLostOnlyByOverlap, OutlawsUninvited, AccessInit

(* Every reading in hand is worth what the invariant says.                 *)
THEOREM AccessInvHolds == AccessSpec => []AccessInv
BY AccessBegins, AccessStep, PTL DEF AccessSpec

(* The tables, rooms and requests keep their types.                        *)
THEOREM AccessTypes == AccessSpec => []AccessTypeOK
<1>1. AccessInv => AccessTypeOK
  BY DEF AccessInv
<1> QED  BY <1>1, AccessInvHolds, PTL

(* A project loses its last pm only when two changes of its members        *)
(* overlap (members.service.ts, assertNotLastPm).                          *)
THEOREM LastPmStays == AccessSpec => []PmLostOnlyByOverlap
<1>1. AccessInv => PmLostOnlyByOverlap
  BY DEF AccessInv
<1> QED  BY <1>1, AccessInvHolds, PTL

(* The role a socket acts with is the role in the table, or the recall     *)
(* that throws the socket out is on its way (remark.gateway.ts).           *)
THEOREM RoomsAreCurrent == AccessSpec => []RoomRoleIsCurrent
<1>1. AccessInv => RoomRoleIsCurrent
  BY DEF AccessInv
<1> QED  BY <1>1, AccessInvHolds, PTL

LEMMA OnlyInvitationsAdmit ==
  ASSUME AccessInv, [AccessNext]_accessVars, NEW u \in outlaw, member[u] = "none",
         member'[u] # "none"
  PROVE  \E e \in User \ {u} : inv[e].state # "accepted" /\ inv'[e].state = "accepted"
<1>0. u \in User
  BY Reading DEF AccessInv, AccessTypeOK
<1>1. CASE UNCHANGED member
  BY <1>1
<1>2. ASSUME NEW c \in Call, WriteRole(c)  PROVE FALSE
  <2>1. PICK r : r = req[c] /\ Sound(r) /\ r.step = "write"
    BY <1>2, Reading DEF WriteRole
  <2>2. r.row # "gone" /\ member' = [member EXCEPT ![r.user] = r.role]
    BY <1>1, <1>2, <2>1 DEF WriteRole
  <2>3. member[r.user] # "none"
    BY <2>1, <2>2 DEF Sound, WritesMember
  <2> QED  BY <1>0, <2>2, <2>3, Reading DEF AccessInv, AccessTypeOK
<1>3. ASSUME NEW c \in Call, WriteRemove(c)  PROVE FALSE
  <2>1. member' = [member EXCEPT ![req[c].user] = "none"]
    BY <1>1, <1>3 DEF WriteRemove, Commit
  <2> QED  BY <1>0, <2>1 DEF AccessInv, AccessTypeOK
<1>4. ASSUME NEW c \in Call, TakeInvitation(c)
      PROVE  \E e \in User \ {u} : inv[e].state # "accepted" /\ inv'[e].state = "accepted"
  <2>1. PICK r : r = req[c] /\ Sound(r) /\ r.step = "take" /\ r.address \in User
    BY <1>4, Reading DEF TakeInvitation, Sound, Addressed
  <2>2. Takeable(r)
    BY <1>1, <1>4, <2>1 DEF TakeInvitation
  <2>3. inv' = [inv EXCEPT ![r.address] = [state |-> "accepted", role |-> "none"]]
    BY <1>4, <2>1, <2>2 DEF TakeInvitation, Commit
  <2>4. inv'[r.address].state = "accepted" /\ inv[r.address].state \in {"pending", "expired"}
    BY <2>1, <2>2, <2>3 DEF Takeable, AccessInv, AccessTypeOK
  <2>5. r.address # u
    BY <2>4 DEF AccessInv, OutlawsUninvited
  <2> QED  BY <2>1, <2>4, <2>5
<1>5. \/ UNCHANGED member
      \/ \E c \in Call : WriteRole(c) \/ WriteRemove(c) \/ TakeInvitation(c)
  BY DEF AccessNext, accessVars, AskRole, AskRemove, CheckLastPm, Revoke, AskAdd, ReadInvitation,
     PutInvitation, AskAccept, AskJoin, Enter, Decline, RevokeInvitation, Reissue, Expire, Leave,
     Begin, Commit, Becomes
<1> QED  BY <1>1, <1>2, <1>3, <1>4, <1>5

(* A person who was removed does not come back by an invitation made       *)
(* before (members.service.ts, remove; invitations.service.ts, accept):    *)
(* the row a request has read is gone with the removal.                    *)
THEOREM TheRemovedStayOut == AccessSpec => RemovedStaysOut
<1>1. AccessInv /\ [AccessNext]_accessVars
        => [\A u \in outlaw :
              member[u] = "none" /\ member'[u] # "none" =>
                \E e \in User \ {u} : inv[e].state # "accepted" /\ inv'[e].state = "accepted"]_accessVars
  BY OnlyInvitationsAdmit
<1> QED  BY <1>1, AccessInvHolds, PTL DEF AccessSpec, RemovedStaysOut

-----------------------------------------------------------------------------
(* Sessions                                                                *)

AccountsSpec == AccountsInit /\ [][AccountsNext]_accountVars

(* The types without the bounds that only make the state space finite.     *)
AnyToken == [held : BOOLEAN, tv : Nat, ts : Nat, pw : Nat, sound : BOOLEAN]
AnySocket == [state : {"off", "on", "missed"}, tv : Nat, ts : Nat]
AnyDevice == [step : {"idle", "login", "mcp", "handshake"},
              tv : Nat, ts : Nat, pw : Nat, sound : BOOLEAN]
AnyDesk == [does : {"none", "change", "reset", "disable", "enable", "end"},
            step : {"idle", "hash", "write", "revoke"},
            since : Nat, at : Nat, by : Device \cup {"none"},
            row : {"none", "live", "gone", "disabled", "enabled"},
            tv : Nat, pw : Nat, sound : BOOLEAN]

AccountShape ==
  /\ account \in [pw : Nat, tv : Nat, changedAt : Nat, disabled : BOOLEAN]
  /\ clock \in Nat
  /\ desk \in [Desk -> AnyDesk] /\ token \in [Device -> AnyToken]
  /\ socket \in [Device -> AnySocket] /\ dev \in [Device -> AnyDevice]

(* Sockets of the account are about to be cut.                             *)
Recalling == \E q \in Desk : desk[q].step = "revoke"

(* What the handshake of a connection was let in with is valid still.      *)
LetIn(r) == Valid([held |-> TRUE, tv |-> r.tv, ts |-> r.ts]) \/ Recalling

(* Whatever the switch `disabled` says: it may be turned back.             *)
TokenRests(t) ==
  /\ t.tv <= account.tv
  /\ t.held /\ t.sound /\ t.tv = account.tv /\ t.ts >= account.changedAt => t.pw = account.pw

(* What was read or written under a version, about to be signed.           *)
RestsOnRow(r) == r.tv <= account.tv /\ (r.sound /\ r.tv = account.tv => r.pw = account.pw)

DeviceRests(r) ==
  /\ r.step = "login" => RestsOnRow(r)
  /\ r.step = "mcp" /\ r.sound => r.pw = account.pw
  /\ r.step = "handshake" /\ r.sound => LetIn(r)

DeskRests(r) ==
  /\ r.does = "change" /\ r.step = "write" => r.since < r.at
  /\ r.does = "change" /\ r.step = "revoke" => RestsOnRow(r)
  /\ r.does # "change" => r.by = "none"

SocketRests(s) == s.state = "on" => LetIn(s)

AccountInv ==
  /\ AccountShape
  /\ \A d \in Device : TokenRests(token[d]) /\ DeviceRests(dev[d]) /\ SocketRests(socket[d])
  /\ \A q \in Desk : DeskRests(desk[q])

LEMMA Shapes ==
  ASSUME AccountInv
  PROVE  /\ account.pw \in Nat /\ account.tv \in Nat /\ account.changedAt \in Nat
         /\ account.disabled \in BOOLEAN /\ clock \in Nat
         /\ account = [pw |-> account.pw, tv |-> account.tv, changedAt |-> account.changedAt,
                       disabled |-> account.disabled]
         /\ desk \in [Desk -> AnyDesk] /\ token \in [Device -> AnyToken]
         /\ socket \in [Device -> AnySocket] /\ dev \in [Device -> AnyDevice]
BY DEF AccountInv, AccountShape

(* A step that leaves the account and the desks alone.                     *)
LEMMA DeviceSteps ==
  ASSUME AccountInv, UNCHANGED <<account, clock>>,
         desk' \in [Desk -> AnyDesk], \A q \in Desk : DeskRests(desk'[q]),
         \A q \in Desk : desk[q].step = "revoke" => desk'[q].step = "revoke",
         token' \in [Device -> AnyToken], dev' \in [Device -> AnyDevice],
         socket' \in [Device -> AnySocket],
         \A d \in Device : TokenRests(token'[d]) /\ DeviceRests(dev'[d]) /\ SocketRests(socket'[d])
  PROVE  AccountInv'
<1>1. Recalling => Recalling'
  BY DEF Recalling
<1>2. ASSUME NEW r, LetIn(r)  PROVE LetIn(r)'
  BY <1>1, <1>2 DEF LetIn, Valid
<1>3. ASSUME NEW d \in Device
      PROVE  TokenRests(token[d])' /\ DeviceRests(dev[d])' /\ SocketRests(socket[d])'
  <2>1. PICK t, r, s : /\ t = token'[d] /\ r = dev'[d] /\ s = socket'[d]
                       /\ TokenRests(t) /\ DeviceRests(r) /\ SocketRests(s)
    OBVIOUS
  <2>2. TokenRests(t)'
    BY <2>1 DEF TokenRests
  <2>3. DeviceRests(r)'
    <3>1. RestsOnRow(r) => RestsOnRow(r)'
      BY DEF RestsOnRow
    <3> QED  BY <1>2, <2>1, <3>1 DEF DeviceRests
  <2>4. SocketRests(s)'
    BY <1>2, <2>1 DEF SocketRests
  <2> QED  BY <2>1, <2>2, <2>3, <2>4 DEF TokenRests, DeviceRests, SocketRests, RestsOnRow, LetIn, Valid
<1>4. ASSUME NEW q \in Desk  PROVE DeskRests(desk[q])'
  <2>1. PICK r : r = desk'[q] /\ DeskRests(r)
    OBVIOUS
  <2>2. DeskRests(r)'
    BY <2>1 DEF DeskRests, RestsOnRow
  <2> QED  BY <2>1, <2>2 DEF DeskRests, RestsOnRow
<1> QED  BY <1>3, <1>4 DEF AccountInv, AccountShape

(* A device signs in, signs for the facade, connects or goes.              *)
LEMMA DevicesKeep ==
  ASSUME AccountInv, NEW d \in Device,
         \/ ReadLogin(d) \/ SignLogin(d) \/ AskMcp(d) \/ SignMcp(d)
         \/ Handshake(d) \/ Connect(d) \/ Disconnect(d)
  PROVE  AccountInv'
<1>1. UNCHANGED <<account, clock, desk>>
  BY DEF ReadLogin, SignLogin, AskMcp, SignMcp, Handshake, Connect, Disconnect
<1>2. /\ token[d] \in AnyToken /\ TokenRests(token[d]) /\ dev[d] \in AnyDevice
      /\ DeviceRests(dev[d]) /\ account.pw \in Nat /\ account.tv \in Nat /\ clock \in Nat
  BY Shapes DEF AccountInv
<1>3. NoRequest \in AnyDevice /\ DeviceRests(NoRequest)
  BY DEF NoRequest, AnyDevice, DeviceRests
<1>4. Off \in AnySocket /\ SocketRests(Off)
  BY DEF Off, AnySocket, SocketRests
<1>5. ASSUME NEW r \in AnyDevice, DeviceRests(r), dev' = [dev EXCEPT ![d] = r],
             UNCHANGED <<token, socket>>
      PROVE  AccountInv'
  BY <1>1, <1>5, DeviceSteps, Shapes DEF AccountInv
<1>6. ASSUME NEW t \in AnyToken, TokenRests(t), token' = [token EXCEPT ![d] = t],
             dev' = [dev EXCEPT ![d] = NoRequest], UNCHANGED socket
      PROVE  AccountInv'
  BY <1>1, <1>3, <1>6, DeviceSteps, Shapes DEF AccountInv
<1>7. CASE ReadLogin(d)
  <2>1. PICK r : r = [NoRequest EXCEPT !.step = "login", !.tv = account.tv, !.pw = account.pw]
    OBVIOUS
  <2>2. r = [step |-> "login", tv |-> account.tv, ts |-> 0, pw |-> account.pw, sound |-> TRUE]
    BY <2>1 DEF NoRequest
  <2>3. r \in AnyDevice /\ DeviceRests(r)
    BY <1>2, <2>2 DEF AnyDevice, DeviceRests, RestsOnRow
  <2> QED  BY <1>5, <1>7, <2>1, <2>3 DEF ReadLogin
<1>8. CASE SignLogin(d)
  <2>1. PICK t : t = Signed(dev[d], dev[d].pw, dev[d].sound)
    OBVIOUS
  <2>2. t = [held |-> TRUE, tv |-> dev[d].tv, ts |-> clock, pw |-> dev[d].pw, sound |-> dev[d].sound]
    BY <2>1 DEF Signed
  <2>3. t \in AnyToken /\ TokenRests(t)
    BY <1>2, <1>8, <2>2 DEF SignLogin, AnyToken, AnyDevice, TokenRests, DeviceRests, RestsOnRow
  <2> QED  BY <1>6, <1>8, <2>1, <2>3 DEF SignLogin
<1>9. CASE AskMcp(d)
  <2>1. PICK r : r = [NoRequest EXCEPT !.step = "mcp", !.pw = token[d].pw, !.sound = token[d].sound]
    OBVIOUS
  <2>2. r = [step |-> "mcp", tv |-> 0, ts |-> 0, pw |-> token[d].pw, sound |-> token[d].sound]
    BY <2>1 DEF NoRequest
  <2>3. r \in AnyDevice /\ DeviceRests(r)
    BY <1>2, <1>9, <2>2 DEF AskMcp, AnyToken, AnyDevice, Valid, TokenRests, DeviceRests
  <2> QED  BY <1>5, <1>9, <2>1, <2>3 DEF AskMcp
<1>10. CASE SignMcp(d)
  <2>1. PICK t : t = Signed(account, dev[d].pw, dev[d].sound)
    OBVIOUS
  <2>2. t = [held |-> TRUE, tv |-> account.tv, ts |-> clock, pw |-> dev[d].pw, sound |-> dev[d].sound]
    BY <2>1 DEF Signed
  <2>3. t \in AnyToken /\ TokenRests(t)
    BY <1>2, <1>10, <2>2 DEF SignMcp, AnyToken, AnyDevice, TokenRests, DeviceRests
  <2> QED  BY <1>6, <1>10, <2>1, <2>3 DEF SignMcp
<1>11. CASE Handshake(d)
  <2>1. PICK r : r = [NoRequest EXCEPT !.step = "handshake", !.tv = token[d].tv, !.ts = token[d].ts]
    OBVIOUS
  <2>2. r = [step |-> "handshake", tv |-> token[d].tv, ts |-> token[d].ts, pw |-> 0, sound |-> TRUE]
    BY <2>1 DEF NoRequest
  <2>3. r \in AnyDevice /\ DeviceRests(r)
    BY <1>2, <1>11, <2>2 DEF Handshake, AnyToken, AnyDevice, Valid, LetIn, DeviceRests
  <2> QED  BY <1>5, <1>11, <2>1, <2>3 DEF Handshake
<1>12. CASE Connect(d)
  <2>1. PICK s : s = IF dev[d].sound THEN [state |-> "on", tv |-> dev[d].tv, ts |-> dev[d].ts]
                                    ELSE [Off EXCEPT !.state = "missed"]
    OBVIOUS
  <2>2. s \in AnySocket
    BY <1>2, <2>1 DEF Off, AnySocket, AnyDevice
  <2>3. SocketRests(s)
    BY <1>2, <1>12, <2>1 DEF Connect, Off, SocketRests, DeviceRests, LetIn
  <2>4. socket' = [socket EXCEPT ![d] = s] /\ dev' = [dev EXCEPT ![d] = NoRequest] /\ UNCHANGED token
    BY <1>12, <2>1 DEF Connect
  <2> QED  BY <1>1, <1>3, <2>2, <2>3, <2>4, DeviceSteps, Shapes DEF AccountInv
<1>13. CASE Disconnect(d)
  <2>1. socket' = [socket EXCEPT ![d] = Off] /\ UNCHANGED <<token, dev>>
    BY <1>13 DEF Disconnect
  <2> QED  BY <1>1, <1>4, <2>1, DeviceSteps, Shapes DEF AccountInv
<1> QED  BY <1>7, <1>8, <1>9, <1>10, <1>11, <1>12, <1>13

(* A desk takes a request up or computes its stamp.                        *)
LEMMA DesksKeep ==
  ASSUME AccountInv, NEW q \in Desk, AskChange(q) \/ AskReset(q) \/ AskAdmin(q) \/ Stamp(q)
  PROVE  AccountInv'
<1>1. ASSUME NEW n \in AnyDesk, DeskRests(n), desk' = [desk EXCEPT ![q] = n], desk[q].step # "revoke",
             UNCHANGED <<account, clock, token, socket, dev>>
      PROVE  AccountInv'
  BY <1>1, DeviceSteps, Shapes DEF AccountInv
<1>2. clock \in Nat /\ desk[q] \in AnyDesk /\ DeskRests(desk[q])
  BY Shapes DEF AccountInv
<1>3. CASE AskChange(q)
  <2>1. PICK d \in Device \cup {"none"} :
          Take(q, [NoDesk EXCEPT !.does = "change", !.step = "hash", !.since = clock, !.by = d])
    BY <1>3 DEF AskChange
  <2>2. PICK n : n = [NoDesk EXCEPT !.does = "change", !.step = "hash", !.since = clock, !.by = d]
    OBVIOUS
  <2>3. n = [does |-> "change", step |-> "hash", since |-> clock, at |-> 0, by |-> d, row |-> "none",
             tv |-> 0, pw |-> 0, sound |-> TRUE]
    BY <2>2 DEF NoDesk
  <2>4. n \in AnyDesk /\ DeskRests(n)
    BY <1>2, <2>3 DEF AnyDesk, DeskRests
  <2> QED  BY <1>1, <2>1, <2>2, <2>4 DEF Take
<1>4. CASE AskReset(q)
  <2>1. PICK n : n = [NoDesk EXCEPT !.does = "reset", !.step = "hash", !.since = clock, !.row = "live"]
    OBVIOUS
  <2>2. n = [does |-> "reset", step |-> "hash", since |-> clock, at |-> 0, by |-> "none",
             row |-> "live", tv |-> 0, pw |-> 0, sound |-> TRUE]
    BY <2>1 DEF NoDesk
  <2>3. n \in AnyDesk /\ DeskRests(n)
    BY <1>2, <2>2 DEF AnyDesk, DeskRests
  <2> QED  BY <1>1, <1>4, <2>1, <2>3 DEF AskReset, Take
<1>5. CASE AskAdmin(q)
  <2>1. PICK does \in {"disable", "enable", "end"}, w \in {"disabled", "enabled"} :
          Take(q, [NoDesk EXCEPT !.does = does, !.step = "write", !.row = w])
    BY <1>5 DEF AskAdmin
  <2>2. PICK n : n = [NoDesk EXCEPT !.does = does, !.step = "write", !.row = w]
    OBVIOUS
  <2>3. n = [does |-> does, step |-> "write", since |-> 0, at |-> 0, by |-> "none",
             row |-> w, tv |-> 0, pw |-> 0, sound |-> TRUE]
    BY <2>2 DEF NoDesk
  <2>4. n \in AnyDesk /\ DeskRests(n)
    BY <1>2, <2>3 DEF AnyDesk, DeskRests
  <2> QED  BY <1>1, <2>1, <2>2, <2>4 DEF Take
<1>6. CASE Stamp(q)
  <2>1. PICK n : n = [desk[q] EXCEPT !.step = "write", !.at = clock]
    OBVIOUS
  <2>2. n = [does |-> desk[q].does, step |-> "write", since |-> desk[q].since, at |-> clock,
             by |-> desk[q].by, row |-> desk[q].row, tv |-> desk[q].tv, pw |-> desk[q].pw,
             sound |-> desk[q].sound]
    BY <1>2, <2>1 DEF AnyDesk
  <2>3. n \in AnyDesk
    BY <1>2, <2>2 DEF AnyDesk
  <2>4. DeskRests(n)
    BY <1>2, <1>6, <2>2 DEF Stamp, DeskRests, AnyDesk
  <2>5. desk' = [desk EXCEPT ![q] = n]
    BY <1>6, <2>1 DEF Stamp
  <2> QED  BY <1>1, <1>6, <2>3, <2>4, <2>5 DEF Stamp
<1> QED  BY <1>3, <1>4, <1>5, <1>6

LEMMA ClockAndLinksKeep ==
  ASSUME AccountInv, Tick \/ IssueLink \/ LinkExpires
  PROVE  AccountInv'
<1>1. CASE Tick
  <2>1. clock' \in Nat /\ UNCHANGED <<account, desk, token, socket, dev>>
    BY <1>1, Shapes DEF Tick
  <2> QED  BY <2>1 DEF AccountInv, AccountShape, TokenRests, DeviceRests, DeskRests, SocketRests,
              RestsOnRow, LetIn, Valid, Recalling
<1>2. CASE LinkExpires
  BY <1>2 DEF LinkExpires, AccountInv, AccountShape, TokenRests, DeviceRests, DeskRests, SocketRests,
     RestsOnRow, LetIn, Valid, Recalling
<1>3. CASE IssueLink
  <2>1. /\ UNCHANGED <<account, clock, token, socket, dev>>
        /\ desk' = [q \in Desk |-> IF desk[q].row = "live" THEN [desk[q] EXCEPT !.row = "gone"]
                                   ELSE desk[q]]
    BY <1>3 DEF IssueLink
  <2>2. ASSUME NEW q \in Desk
        PROVE  desk'[q] \in AnyDesk /\ DeskRests(desk'[q]) /\ desk'[q].step = desk[q].step
    <3>1. PICK o, n : o = desk[q] /\ n = [o EXCEPT !.row = "gone"] /\ o \in AnyDesk /\ DeskRests(o)
      BY Shapes DEF AccountInv
    <3>2. n = [does |-> o.does, step |-> o.step, since |-> o.since, at |-> o.at, by |-> o.by,
               row |-> "gone", tv |-> o.tv, pw |-> o.pw, sound |-> o.sound]
      BY <3>1 DEF AnyDesk
    <3>3. n \in AnyDesk /\ DeskRests(n) /\ n.step = o.step
      BY <3>1, <3>2 DEF AnyDesk, DeskRests, RestsOnRow
    <3> QED  BY <2>1, <3>1, <3>3
  <2>3. desk' \in [Desk -> AnyDesk]
    BY <2>1, <2>2
  <2> QED  BY <2>1, <2>2, <2>3, DeviceSteps, Shapes DEF AccountInv
<1> QED  BY <1>1, <1>2, <1>3

-----------------------------------------------------------------------------
(* The request that has written and is about to cut the sockets.           *)
LEMMA RecallFollows ==
  ASSUME AccountInv, NEW q \in Desk
  PROVE  \E n \in AnyDesk :
           /\ n = ToRecall(desk[q])
           /\ n = [does |-> desk[q].does, step |-> "revoke", since |-> 0, at |-> 0,
                   by |-> desk[q].by, row |-> "none", tv |-> 0, pw |-> 0, sound |-> TRUE]
<1>1. PICK n : n = ToRecall(desk[q])
  OBVIOUS
<1>2. n = [does |-> desk[q].does, step |-> "revoke", since |-> 0, at |-> 0, by |-> desk[q].by,
           row |-> "none", tv |-> 0, pw |-> 0, sound |-> TRUE]
  BY <1>1 DEF ToRecall, NoDesk
<1>3. desk[q] \in AnyDesk
  BY Shapes
<1>4. n \in AnyDesk
  BY <1>2, <1>3 DEF AnyDesk
<1> QED  BY <1>1, <1>2, <1>4

(* The ghost that marks what a change of the password overlaps.            *)
LEMMA Unsound ==
  ASSUME AccountInv, NEW d \in Device
  PROVE  /\ \E t \in AnyToken : /\ t = [token[d] EXCEPT !.sound = FALSE] /\ ~t.sound
                                /\ t.tv = token[d].tv /\ t.ts = token[d].ts /\ t.pw = token[d].pw
                                /\ t.held = token[d].held
         /\ \E r \in AnyDevice : /\ r = [dev[d] EXCEPT !.sound = FALSE] /\ ~r.sound
                                 /\ r.step = dev[d].step /\ r.tv = dev[d].tv
<1>1. token[d] \in AnyToken /\ dev[d] \in AnyDevice
  BY Shapes
<1>2. PICK t, r : t = [token[d] EXCEPT !.sound = FALSE] /\ r = [dev[d] EXCEPT !.sound = FALSE]
  OBVIOUS
<1>3. /\ t = [held |-> token[d].held, tv |-> token[d].tv, ts |-> token[d].ts, pw |-> token[d].pw,
              sound |-> FALSE]
      /\ r = [step |-> dev[d].step, tv |-> dev[d].tv, ts |-> dev[d].ts, pw |-> dev[d].pw,
              sound |-> FALSE]
  BY <1>1, <1>2 DEF AnyToken, AnyDevice
<1>4. t \in AnyToken /\ r \in AnyDevice
  BY <1>1, <1>3 DEF AnyToken, AnyDevice
<1> QED  BY <1>2, <1>3, <1>4

LEMMA ChangesKeep ==
  ASSUME AccountInv, NEW q \in Desk, WriteChange(q)
  PROVE  AccountInv'
<1>1. PICK o, a : o = desk[q] /\ a = account /\ o \in AnyDesk /\ DeskRests(o)
  BY Shapes DEF AccountInv
<1>2. /\ a.pw \in Nat /\ a.tv \in Nat /\ a.changedAt \in Nat /\ a.disabled \in BOOLEAN
      /\ a = [pw |-> a.pw, tv |-> a.tv, changedAt |-> a.changedAt, disabled |-> a.disabled]
  BY <1>1, Shapes
<1>3. o.step = "write" /\ o.does = "change" /\ o.since \in Nat /\ o.at \in Nat /\ o.since < o.at
  BY <1>1 DEF WriteChange, DeskRests, AnyDesk
<1>4. account' = [pw |-> a.pw + 1, tv |-> a.tv, changedAt |-> o.at, disabled |-> a.disabled]
  BY <1>1, <1>2 DEF WriteChange
<1>5. PICK n \in AnyDesk : /\ n = ToRecall(o)
                           /\ n = [does |-> "change", step |-> "revoke", since |-> 0, at |-> 0,
                                   by |-> o.by, row |-> "none", tv |-> 0, pw |-> 0, sound |-> TRUE]
  BY <1>1, <1>3, RecallFollows
<1>6. PICK m : m = [n EXCEPT !.tv = a.tv, !.pw = a.pw + 1]
  OBVIOUS
<1>7. m = [does |-> "change", step |-> "revoke", since |-> 0, at |-> 0, by |-> o.by,
           row |-> "none", tv |-> a.tv, pw |-> a.pw + 1, sound |-> TRUE]
  <2>1. m = [[does |-> "change", step |-> "revoke", since |-> 0, at |-> 0, by |-> o.by,
              row |-> "none", tv |-> 0, pw |-> 0, sound |-> TRUE]
             EXCEPT !.tv = a.tv, !.pw = a.pw + 1]
    BY <1>5, <1>6, Zenon
  <2> QED  BY <2>1
<1>8. m \in AnyDesk
  <2>1. o.by \in Device \cup {"none"} /\ a.pw + 1 \in Nat
    BY <1>1, <1>2 DEF AnyDesk
  <2> QED  BY <1>2, <1>7, <2>1 DEF AnyDesk
<1>9. desk' = [p \in Desk |->
         IF p = q THEN m
         ELSE IF desk[p].does = "change" /\ desk[p].step = "revoke" THEN [desk[p] EXCEPT !.sound = FALSE]
         ELSE desk[p]]
  BY <1>1, <1>5, <1>6 DEF WriteChange
<1>10. Recalling'
  BY <1>7, <1>9 DEF Recalling
<1>11. /\ UNCHANGED <<clock, socket>>
       /\ token' = [d \in Device |-> IF token[d].ts > o.since THEN [token[d] EXCEPT !.sound = FALSE]
                                     ELSE token[d]]
       /\ dev' = [d \in Device |-> IF dev[d].step \in {"mcp", "login"}
                                   THEN [dev[d] EXCEPT !.sound = FALSE] ELSE dev[d]]
  BY <1>1 DEF WriteChange, Overlapped
<1>12. ASSUME NEW d \in Device  PROVE token'[d] \in AnyToken /\ TokenRests(token[d])'
  <2>1. PICK t : t = token[d] /\ t \in AnyToken /\ TokenRests(t)
    BY Shapes DEF AccountInv
  <2>2. PICK u \in AnyToken : /\ u = [token[d] EXCEPT !.sound = FALSE] /\ ~u.sound
                              /\ u.tv = token[d].tv
    BY Unsound
  <2>3. PICK w : w = token'[d]
    OBVIOUS
  <2>4. w = IF t.ts > o.since THEN u ELSE t
    BY <1>11, <2>1, <2>2, <2>3
  <2>5. w.tv <= account'.tv
    BY <1>1, <1>4, <2>1, <2>2, <2>4 DEF TokenRests
  <2>6. w.sound => ~(w.ts >= account'.changedAt)
    BY <1>3, <1>4, <2>1, <2>2, <2>4 DEF AnyToken
  <2> QED  BY <2>1, <2>2, <2>3, <2>4, <2>5, <2>6 DEF TokenRests
<1>13. ASSUME NEW d \in Device  PROVE dev'[d] \in AnyDevice /\ DeviceRests(dev[d])'
  <2>1. PICK t : t = dev[d] /\ t \in AnyDevice /\ DeviceRests(t)
    BY Shapes DEF AccountInv
  <2>2. PICK u \in AnyDevice : /\ u = [dev[d] EXCEPT !.sound = FALSE] /\ ~u.sound
                               /\ u.step = dev[d].step /\ u.tv = dev[d].tv
    BY Unsound
  <2>3. PICK w : w = dev'[d]
    OBVIOUS
  <2>4. w = IF t.step \in {"mcp", "login"} THEN u ELSE t
    BY <1>11, <2>1, <2>2, <2>3
  <2>5. DeviceRests(w)'
    BY <1>1, <1>4, <1>10, <2>1, <2>2, <2>4 DEF DeviceRests, RestsOnRow, LetIn
  <2> QED  BY <2>1, <2>2, <2>3, <2>4, <2>5 DEF DeviceRests, RestsOnRow, LetIn, Valid
<1>14. ASSUME NEW p \in Desk  PROVE desk'[p] \in AnyDesk /\ DeskRests(desk[p])'
  <2>1. PICK t, u : t = desk[p] /\ t \in AnyDesk /\ DeskRests(t) /\ u = [t EXCEPT !.sound = FALSE]
    BY Shapes DEF AccountInv
  <2>2. u = [does |-> t.does, step |-> t.step, since |-> t.since, at |-> t.at, by |-> t.by,
             row |-> t.row, tv |-> t.tv, pw |-> t.pw, sound |-> FALSE]
    BY <2>1 DEF AnyDesk
  <2>3. u \in AnyDesk
    BY <2>1, <2>2 DEF AnyDesk
  <2>4. PICK w : w = desk'[p]
    OBVIOUS
  <2>5. w = IF p = q THEN m ELSE IF t.does = "change" /\ t.step = "revoke" THEN u ELSE t
    BY <1>9, <2>1, <2>4
  <2>6. DeskRests(w)'
    BY <1>1, <1>2, <1>4, <1>7, <2>1, <2>2, <2>5 DEF DeskRests, RestsOnRow
  <2> QED  BY <1>8, <2>1, <2>3, <2>4, <2>5, <2>6 DEF DeskRests, RestsOnRow
<1>15. ASSUME NEW d \in Device  PROVE SocketRests(socket[d])'
  BY <1>10 DEF SocketRests, LetIn
<1>16. AccountShape'
  <2>1. account' \in [pw : Nat, tv : Nat, changedAt : Nat, disabled : BOOLEAN]
    BY <1>2, <1>3, <1>4
  <2>2. desk' \in [Desk -> AnyDesk]
    BY <1>9, <1>14
  <2>3. token' \in [Device -> AnyToken] /\ dev' \in [Device -> AnyDevice]
    BY <1>11, <1>12, <1>13
  <2> QED  BY <1>11, <2>1, <2>2, <2>3, Shapes DEF AccountShape
<1> QED  BY <1>12, <1>13, <1>14, <1>15, <1>16 DEF AccountInv

(* A link used raises the version with the password, so that everything    *)
(* read or signed before is of an older one.                               *)
LEMMA ResetsKeep ==
  ASSUME AccountInv, NEW q \in Desk, WriteReset(q)
  PROVE  AccountInv'
<1>1. PICK o, a : o = desk[q] /\ a = account /\ o \in AnyDesk /\ DeskRests(o)
  BY Shapes DEF AccountInv
<1>2. /\ a.pw \in Nat /\ a.tv \in Nat /\ a.changedAt \in Nat /\ a.disabled \in BOOLEAN
      /\ a = [pw |-> a.pw, tv |-> a.tv, changedAt |-> a.changedAt, disabled |-> a.disabled]
  BY <1>1, Shapes
<1>3. o.step = "write" /\ o.does = "reset" /\ o.at \in Nat /\ o.by = "none"
  BY <1>1 DEF WriteReset, DeskRests, AnyDesk
<1>4. CASE ~Usable(q)
  <2>1. NoDesk \in AnyDesk /\ DeskRests(NoDesk)
    BY DEF NoDesk, AnyDesk, DeskRests
  <2>2. UNCHANGED <<account, clock, token, socket, dev>> /\ desk' = [desk EXCEPT ![q] = NoDesk]
    BY <1>4 DEF WriteReset
  <2> QED  BY <1>1, <1>3, <2>1, <2>2, DeviceSteps, Shapes DEF AccountInv
<1>5. CASE Usable(q)
  <2>1. account' = [pw |-> a.pw + 1, tv |-> a.tv + 1, changedAt |-> o.at, disabled |-> a.disabled]
    BY <1>1, <1>2, <1>5 DEF WriteReset
  <2>2. PICK n \in AnyDesk : /\ n = ToRecall(o)
                             /\ n = [does |-> "reset", step |-> "revoke", since |-> 0, at |-> 0,
                                     by |-> "none", row |-> "none", tv |-> 0, pw |-> 0, sound |-> TRUE]
    BY <1>1, <1>3, RecallFollows
  <2>3. desk' = [desk EXCEPT ![q] = n]
    BY <1>1, <1>5, <2>2 DEF WriteReset
  <2>4. desk' \in [Desk -> AnyDesk] /\ \A p \in Desk : desk'[p] = IF p = q THEN n ELSE desk[p]
    BY <2>3, Shapes
  <2>5. Recalling'
    BY <2>2, <2>4 DEF Recalling
  <2>6. /\ UNCHANGED <<clock, socket>>
        /\ token' = [d \in Device |-> token[d]]
        /\ dev' = [d \in Device |-> IF dev[d].step = "mcp" THEN [dev[d] EXCEPT !.sound = FALSE]
                                    ELSE dev[d]]
    BY <1>5 DEF WriteReset, Overlapped
  <2>7. ASSUME NEW d \in Device  PROVE token'[d] \in AnyToken /\ TokenRests(token[d])'
    <3>1. PICK t : t = token[d] /\ t \in AnyToken /\ TokenRests(t)
      BY Shapes DEF AccountInv
    <3>2. token'[d] = t /\ t.tv < account'.tv
      BY <1>1, <1>2, <2>1, <2>6, <3>1 DEF TokenRests, AnyToken
    <3> QED  BY <1>2, <2>1, <3>1, <3>2 DEF TokenRests, AnyToken
  <2>8. ASSUME NEW d \in Device  PROVE dev'[d] \in AnyDevice /\ DeviceRests(dev[d])'
    <3>1. PICK t : t = dev[d] /\ t \in AnyDevice /\ DeviceRests(t)
      BY Shapes DEF AccountInv
    <3>2. PICK u \in AnyDevice : /\ u = [dev[d] EXCEPT !.sound = FALSE] /\ ~u.sound
                                 /\ u.step = dev[d].step /\ u.tv = dev[d].tv
      BY Unsound
    <3>3. PICK w : w = dev'[d]
      OBVIOUS
    <3>4. w = IF t.step = "mcp" THEN u ELSE t
      BY <2>6, <3>1, <3>2, <3>3
    <3>5. t.step = "login" => t.tv < account'.tv
      BY <1>1, <1>2, <2>1, <3>1 DEF DeviceRests, RestsOnRow, AnyDevice
    <3>6. DeviceRests(w)'
      BY <1>2, <2>1, <2>5, <3>1, <3>2, <3>4, <3>5 DEF DeviceRests, RestsOnRow, LetIn, AnyDevice
    <3> QED  BY <3>1, <3>2, <3>3, <3>4, <3>6 DEF DeviceRests, RestsOnRow, LetIn, Valid
  <2>9. ASSUME NEW p \in Desk  PROVE DeskRests(desk[p])'
    <3>1. PICK t : t = desk[p] /\ t \in AnyDesk /\ DeskRests(t)
      BY Shapes DEF AccountInv
    <3>2. PICK w : w = desk'[p]
      OBVIOUS
    <3>3. w = IF p = q THEN n ELSE t
      BY <2>4, <3>1, <3>2
    <3>4. t.does = "change" /\ t.step = "revoke" => t.tv < account'.tv
      BY <1>1, <1>2, <2>1, <3>1 DEF DeskRests, RestsOnRow, AnyDesk
    <3>5. DeskRests(w)'
      BY <1>2, <2>1, <2>2, <3>1, <3>3, <3>4 DEF DeskRests, RestsOnRow, AnyDesk
    <3> QED  BY <3>2, <3>5 DEF DeskRests, RestsOnRow
  <2>10. ASSUME NEW d \in Device  PROVE SocketRests(socket[d])'
    BY <2>5 DEF SocketRests, LetIn
  <2>11. AccountShape'
    <3>1. account' \in [pw : Nat, tv : Nat, changedAt : Nat, disabled : BOOLEAN]
      BY <1>2, <1>3, <2>1
    <3>2. token' \in [Device -> AnyToken] /\ dev' \in [Device -> AnyDevice]
      BY <2>6, <2>7, <2>8
    <3> QED  BY <2>4, <2>6, <3>1, <3>2, Shapes DEF AccountShape
  <2> QED  BY <2>7, <2>8, <2>9, <2>10, <2>11 DEF AccountInv
<1> QED  BY <1>4, <1>5

(* Access ended raises the version and recalls the sockets; access given   *)
(* back makes no valid session invalid; a disabling that took the account  *)
(* for disabled recalls nothing, which the ghosts mark.                    *)
LEMMA AdminKeeps ==
  ASSUME AccountInv, NEW q \in Desk, WriteAdmin(q)
  PROVE  AccountInv'
<1>1. PICK o, a : o = desk[q] /\ a = account /\ o \in AnyDesk /\ DeskRests(o)
  BY Shapes DEF AccountInv
<1>2. /\ a.pw \in Nat /\ a.tv \in Nat /\ a.changedAt \in Nat /\ a.disabled \in BOOLEAN
      /\ a = [pw |-> a.pw, tv |-> a.tv, changedAt |-> a.changedAt, disabled |-> a.disabled]
  BY <1>1, Shapes
<1>3. o.step = "write" /\ o.does \in {"disable", "enable", "end"} /\ o.by = "none"
  BY <1>1 DEF WriteAdmin, DeskRests
<1>4. PICK off, v : /\ off = (IF o.does = "end" THEN a.disabled ELSE o.does = "disable")
                    /\ v = (IF Ends(o) THEN a.tv + 1 ELSE a.tv)
  OBVIOUS
<1>5. account' = [pw |-> a.pw, tv |-> v, changedAt |-> a.changedAt, disabled |-> off]
  <2>1. account' = [a EXCEPT !.disabled = off, !.tv = v]
    <3>1. account' = [account EXCEPT !.disabled = IF o.does = "end" THEN @ ELSE o.does = "disable",
                                     !.tv = IF Ends(o) THEN @ + 1 ELSE @]
      BY <1>1, Zenon DEF WriteAdmin
    <3>2. account' = [a EXCEPT !.disabled = IF o.does = "end" THEN a.disabled ELSE o.does = "disable",
                               !.tv = IF Ends(o) THEN a.tv + 1 ELSE a.tv]
      BY <1>1, <1>2, <3>1
    <3> QED  BY <1>4, <3>2, Zenon
  <2> QED  BY <1>2, <2>1
<1>6. off \in BOOLEAN /\ v \in Nat /\ a.tv <= v /\ (Ends(o) => a.tv < v)
  <2>1. off \in BOOLEAN
    BY <1>2, <1>4, Zenon
  <2>2. CASE Ends(o)
    <3>1. v = a.tv + 1
      BY <1>4, <2>2, Zenon
    <3> QED  BY <1>2, <2>1, <3>1
  <2>3. CASE ~Ends(o)
    <3>1. v = a.tv
      BY <1>4, <2>3, Zenon
    <3> QED  BY <1>2, <2>1, <2>3, <3>1
  <2> QED  BY <2>2, <2>3
<1>7. PICK n \in AnyDesk : n = ToRecall(o) /\ DeskRests(n) /\ n.step = "revoke" /\ n.does = o.does
  <2>1. PICK n \in AnyDesk : /\ n = ToRecall(o)
                             /\ n = [does |-> o.does, step |-> "revoke", since |-> 0, at |-> 0,
                                     by |-> o.by, row |-> "none", tv |-> 0, pw |-> 0, sound |-> TRUE]
    BY <1>1, RecallFollows
  <2>2. DeskRests(n) /\ n.step = "revoke" /\ n.does = o.does
    BY <1>3, <2>1 DEF DeskRests
  <2> QED  BY <2>1, <2>2
<1>8. PICK m : m = (IF Ends(o) THEN n ELSE NoDesk)
  OBVIOUS
<1>9. m \in AnyDesk /\ m.does # "change" /\ m.by = "none"
  BY <1>3, <1>7, <1>8 DEF NoDesk, AnyDesk, DeskRests
<1>10. desk' = [desk EXCEPT ![q] = m]
  BY <1>1, <1>7, <1>8 DEF WriteAdmin
<1>11. desk' \in [Desk -> AnyDesk] /\ \A p \in Desk : desk'[p] = IF p = q THEN m ELSE desk[p]
  BY <1>9, <1>10, Shapes
<1>12. (Ends(o) \/ Recalling) => Recalling'
  <2>1. Ends(o) => Recalling'
    BY <1>7, <1>8, <1>11 DEF Recalling
  <2>2. Recalling => Recalling'
    BY <1>1, <1>3, <1>11 DEF Recalling
  <2> QED  BY <2>1, <2>2
<1>13. PICK unseen : unseen = (o.does = "disable" /\ ~Disabling(o) /\ ~a.disabled)
  OBVIOUS
<1>14. /\ UNCHANGED <<clock, token>>
       /\ socket' = [d \in Device |-> IF unseen /\ socket[d] # Off THEN [Off EXCEPT !.state = "missed"]
                                      ELSE socket[d]]
       /\ dev' = [d \in Device |-> IF unseen /\ dev[d].step = "handshake"
                                   THEN [dev[d] EXCEPT !.sound = FALSE] ELSE dev[d]]
  BY <1>1, <1>13 DEF WriteAdmin
<1>15. ASSUME NEW r, LetIn(r), ~unseen  PROVE LetIn(r)'
  <2>1. CASE Ends(o) \/ Recalling
    BY <1>12, <2>1 DEF LetIn
  <2>2. CASE ~(Ends(o) \/ Recalling)
    <3>1. ~a.disabled /\ r.tv = a.tv /\ r.ts >= a.changedAt
      BY <1>1, <1>15, <2>2 DEF LetIn, Valid
    <3>2. o.does = "enable"
      BY <1>3, <1>13, <1>15, <2>2, <3>1 DEF Ends, Disabling
    <3>3. off = FALSE /\ v = a.tv
      BY <1>4, <2>2, <3>2
    <3>4. ~account'.disabled /\ r.tv = account'.tv /\ r.ts >= account'.changedAt
      BY <1>5, <3>1, <3>3
    <3> QED  BY <3>4 DEF LetIn, Valid
  <2> QED  BY <2>1, <2>2
<1>16. ASSUME NEW r \in AnyDevice \cup AnyDesk, RestsOnRow(r)  PROVE RestsOnRow(r)'
  <2>1. r.tv \in Nat /\ r.tv <= a.tv /\ (r.sound /\ r.tv = a.tv => r.pw = a.pw)
    BY <1>1, <1>16 DEF RestsOnRow, AnyDevice, AnyDesk
  <2> QED  BY <1>2, <1>5, <1>6, <2>1 DEF RestsOnRow
<1>17. ASSUME NEW d \in Device  PROVE TokenRests(token[d])'
  <2>1. PICK t : t = token[d] /\ t \in AnyToken /\ TokenRests(t)
    BY Shapes DEF AccountInv
  <2>2. TokenRests(t)'
    <3>1. t.tv \in Nat /\ t.tv <= a.tv
      BY <1>1, <2>1 DEF TokenRests, AnyToken
    <3> QED  BY <1>1, <1>2, <1>5, <1>6, <2>1, <3>1 DEF TokenRests
  <2> QED  BY <1>14, <2>1, <2>2 DEF TokenRests
<1>18. ASSUME NEW d \in Device  PROVE dev'[d] \in AnyDevice /\ DeviceRests(dev[d])'
  <2>1. PICK t : t = dev[d] /\ t \in AnyDevice /\ DeviceRests(t)
    BY Shapes DEF AccountInv
  <2>2. PICK u \in AnyDevice : /\ u = [dev[d] EXCEPT !.sound = FALSE] /\ ~u.sound
                               /\ u.step = dev[d].step /\ u.tv = dev[d].tv
    BY Unsound
  <2>3. PICK w : w = dev'[d]
    OBVIOUS
  <2>4. w = IF unseen /\ t.step = "handshake" THEN u ELSE t
    BY <1>14, <2>1, <2>2, <2>3
  <2>5. DeviceRests(t)' \/ (unseen /\ t.step = "handshake")
    <3>1. t.step = "login" => RestsOnRow(t)'
      BY <1>16, <2>1 DEF DeviceRests
    <3>2. t.step = "mcp" /\ t.sound => t.pw = account'.pw
      BY <1>1, <1>5, <2>1 DEF DeviceRests
    <3>3. t.step = "handshake" /\ t.sound => LetIn(t)' \/ unseen
      BY <1>15, <2>1 DEF DeviceRests
    <3> QED  BY <3>1, <3>2, <3>3 DEF DeviceRests
  <2>6. DeviceRests(w)'
    BY <2>1, <2>2, <2>4, <2>5 DEF DeviceRests
  <2> QED  BY <2>1, <2>2, <2>3, <2>4, <2>6 DEF DeviceRests, RestsOnRow, LetIn, Valid
<1>19. ASSUME NEW p \in Desk  PROVE DeskRests(desk[p])'
  <2>1. PICK t : t = desk[p] /\ t \in AnyDesk /\ DeskRests(t)
    BY Shapes DEF AccountInv
  <2>2. PICK w : w = desk'[p]
    OBVIOUS
  <2>3. w = IF p = q THEN m ELSE t
    BY <1>11, <2>1, <2>2
  <2>4. DeskRests(t)'
    BY <1>16, <2>1 DEF DeskRests
  <2>5. DeskRests(w)'
    BY <1>9, <2>3, <2>4 DEF DeskRests
  <2> QED  BY <2>2, <2>5 DEF DeskRests, RestsOnRow
<1>20. ASSUME NEW d \in Device  PROVE socket'[d] \in AnySocket /\ SocketRests(socket[d])'
  <2>1. PICK s : s = socket[d] /\ s \in AnySocket /\ SocketRests(s)
    BY Shapes DEF AccountInv
  <2>2. PICK b : b = [Off EXCEPT !.state = "missed"]
    OBVIOUS
  <2>3. b \in AnySocket /\ b.state = "missed" /\ Off.state = "off"
    BY <2>2 DEF Off, AnySocket
  <2>4. PICK w : w = socket'[d]
    OBVIOUS
  <2>5. w = IF unseen /\ s # Off THEN b ELSE s
    BY <1>14, <2>1, <2>2, <2>4
  <2>6. SocketRests(w)'
    BY <1>15, <2>1, <2>3, <2>5 DEF SocketRests
  <2> QED  BY <2>1, <2>3, <2>4, <2>5, <2>6 DEF SocketRests, LetIn, Valid
<1>21. AccountShape'
  <2>1. account' \in [pw : Nat, tv : Nat, changedAt : Nat, disabled : BOOLEAN]
    BY <1>2, <1>5, <1>6
  <2>2. dev' \in [Device -> AnyDevice] /\ socket' \in [Device -> AnySocket]
    BY <1>14, <1>18, <1>20
  <2> QED  BY <1>11, <1>14, <2>1, <2>2, Shapes DEF AccountShape
<1> QED  BY <1>17, <1>18, <1>19, <1>20, <1>21 DEF AccountInv

(* The recall cuts every socket; its answer is signed for the row written. *)
LEMMA RecallsKeep ==
  ASSUME AccountInv, NEW q \in Desk, Recall(q)
  PROVE  AccountInv'
<1>1. PICK o : o = desk[q] /\ o \in AnyDesk /\ DeskRests(o) /\ o.step = "revoke"
  BY Shapes DEF AccountInv, Recall
<1>2. /\ UNCHANGED <<account, clock>> /\ desk' = [desk EXCEPT ![q] = NoDesk]
      /\ socket' = [d \in Device |-> Off]
      /\ dev' = [d \in Device |-> IF dev[d].step = "handshake" THEN [dev[d] EXCEPT !.sound = FALSE]
                                  ELSE dev[d]]
      /\ token' = [d \in Device |-> IF d = o.by THEN Signed(o, o.pw, o.sound) ELSE token[d]]
  BY <1>1 DEF Recall
<1>3. NoDesk \in AnyDesk /\ NoDesk.does = "none" /\ NoDesk.by = "none"
  BY DEF NoDesk, AnyDesk
<1>4. desk' \in [Desk -> AnyDesk] /\ \A p \in Desk : desk'[p] = IF p = q THEN NoDesk ELSE desk[p]
  BY <1>2, <1>3, Shapes
<1>5. ASSUME NEW d \in Device  PROVE token'[d] \in AnyToken /\ TokenRests(token[d])'
  <2>1. PICK t, n : t = token[d] /\ t \in AnyToken /\ TokenRests(t) /\ n = Signed(o, o.pw, o.sound)
    BY Shapes DEF AccountInv
  <2>2. n = [held |-> TRUE, tv |-> o.tv, ts |-> clock, pw |-> o.pw, sound |-> o.sound]
    BY <2>1 DEF Signed
  <2>3. n \in AnyToken
    BY <1>1, <2>2, Shapes DEF AnyToken, AnyDesk
  <2>4. d = o.by => RestsOnRow(o)
    BY <1>1, AccountsAssumption DEF DeskRests
  <2>5. d = o.by => TokenRests(n)
    BY <2>2, <2>4 DEF TokenRests, RestsOnRow
  <2>6. PICK w : w = token'[d]
    OBVIOUS
  <2>7. w = IF d = o.by THEN n ELSE t
    BY <1>2, <2>1, <2>6
  <2>8. TokenRests(w)'
    BY <1>2, <2>1, <2>5, <2>7 DEF TokenRests
  <2> QED  BY <2>1, <2>3, <2>6, <2>7, <2>8 DEF TokenRests
<1>6. ASSUME NEW d \in Device  PROVE dev'[d] \in AnyDevice /\ DeviceRests(dev[d])'
  <2>1. PICK t : t = dev[d] /\ t \in AnyDevice /\ DeviceRests(t)
    BY Shapes DEF AccountInv
  <2>2. PICK u \in AnyDevice : /\ u = [dev[d] EXCEPT !.sound = FALSE] /\ ~u.sound
                               /\ u.step = dev[d].step
    BY Unsound
  <2>3. PICK w : w = dev'[d]
    OBVIOUS
  <2>4. w = IF t.step = "handshake" THEN u ELSE t
    BY <1>2, <2>1, <2>2, <2>3
  <2>5. DeviceRests(w)'
    BY <1>2, <2>1, <2>2, <2>4 DEF DeviceRests, RestsOnRow
  <2> QED  BY <2>1, <2>2, <2>3, <2>4, <2>5 DEF DeviceRests, RestsOnRow, LetIn, Valid
<1>7. ASSUME NEW p \in Desk  PROVE DeskRests(desk[p])'
  <2>1. PICK t : t = desk[p] /\ DeskRests(t)
    BY DEF AccountInv
  <2>2. PICK w : w = desk'[p]
    OBVIOUS
  <2>3. w = IF p = q THEN NoDesk ELSE t
    BY <1>4, <2>1, <2>2
  <2>4. DeskRests(w)'
    BY <1>2, <1>3, <2>1, <2>3 DEF DeskRests, RestsOnRow
  <2> QED  BY <2>2, <2>4 DEF DeskRests, RestsOnRow
<1>8. ASSUME NEW d \in Device  PROVE socket'[d] \in AnySocket /\ SocketRests(socket[d])'
  BY <1>2 DEF Off, AnySocket, SocketRests
<1>9. AccountShape'
  <2>1. /\ token' \in [Device -> AnyToken] /\ dev' \in [Device -> AnyDevice]
        /\ socket' \in [Device -> AnySocket]
    BY <1>2, <1>5, <1>6, <1>8
  <2> QED  BY <1>2, <1>4, <2>1 DEF AccountInv, AccountShape
<1> QED  BY <1>5, <1>6, <1>7, <1>8, <1>9 DEF AccountInv

LEMMA AccountStep == AccountInv /\ [AccountsNext]_accountVars => AccountInv'
<1> SUFFICES ASSUME AccountInv, [AccountsNext]_accountVars
             PROVE  AccountInv'
  OBVIOUS
<1>1. CASE Tick \/ IssueLink \/ LinkExpires
  BY <1>1, ClockAndLinksKeep
<1>2. ASSUME NEW d \in Device, ReadLogin(d) \/ SignLogin(d) \/ AskMcp(d) \/ SignMcp(d)
                               \/ Handshake(d) \/ Connect(d) \/ Disconnect(d)
      PROVE  AccountInv'
  BY <1>2, DevicesKeep
<1>3. ASSUME NEW q \in Desk, AskChange(q) \/ AskReset(q) \/ AskAdmin(q) \/ Stamp(q)
      PROVE  AccountInv'
  BY <1>3, DesksKeep
<1>4. ASSUME NEW q \in Desk, WriteChange(q) \/ WriteReset(q) \/ WriteAdmin(q) \/ Recall(q)
      PROVE  AccountInv'
  BY <1>4, ChangesKeep, ResetsKeep, AdminKeeps, RecallsKeep
<1>5. CASE UNCHANGED accountVars
  BY <1>5 DEF accountVars, AccountInv, AccountShape, TokenRests, DeviceRests, DeskRests, SocketRests,
     RestsOnRow, LetIn, Valid, Recalling
<1> QED  BY <1>1, <1>2, <1>3, <1>4, <1>5 DEF AccountsNext

LEMMA AccountBegins == AccountsInit => AccountInv
<1> SUFFICES ASSUME AccountsInit  PROVE AccountInv
  OBVIOUS
<1>1. /\ account = [pw |-> 0, tv |-> 0, changedAt |-> 0, disabled |-> FALSE] /\ clock = 0
      /\ desk = [q \in Desk |-> NoDesk] /\ token = [d \in Device |-> NoToken]
      /\ socket = [d \in Device |-> Off] /\ dev = [d \in Device |-> NoRequest]
  BY DEF AccountsInit
<1>2. NoDesk \in AnyDesk /\ DeskRests(NoDesk)
  BY DEF NoDesk, AnyDesk, DeskRests
<1>3. NoToken \in AnyToken /\ TokenRests(NoToken)
  BY <1>1 DEF NoToken, AnyToken, TokenRests
<1>4. Off \in AnySocket /\ SocketRests(Off)
  BY DEF Off, AnySocket, SocketRests
<1>5. NoRequest \in AnyDevice /\ DeviceRests(NoRequest)
  BY DEF NoRequest, AnyDevice, DeviceRests
<1>6. AccountShape
  BY <1>1, <1>2, <1>3, <1>4, <1>5 DEF AccountShape
<1> QED  BY <1>1, <1>2, <1>3, <1>4, <1>5, <1>6 DEF AccountInv

(* The inductive invariant of the sessions: what a token, a reading, a     *)
(* handshake and a connection rest on.                                     *)
THEOREM AccountInvHolds == AccountsSpec => []AccountInv
BY AccountBegins, AccountStep, PTL DEF AccountsSpec

(* A change of the password is a sign-out everywhere, and no connection    *)
(* outlives its token but until the recall under way (auth.service.ts,     *)
(* tenancy.service.ts revoke, remark.gateway.ts).                          *)
THEOREM SessionsStayCurrent == AccountsSpec => []SessionsAreCurrent
<1>1. AccountInv => SessionsAreCurrent
  BY DEF AccountInv, SessionsAreCurrent, SessionRestsOnPassword, ConnectionRestsOnToken, TokenRests,
     SocketRests, LetIn, Recalling, Valid
<1> QED  BY <1>1, AccountInvHolds, PTL
=============================================================================
