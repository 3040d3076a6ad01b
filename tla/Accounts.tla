------------------------------ MODULE Accounts ------------------------------
(* The sessions of one account: auth.service.ts, password-reset.service.ts,*)
(* admin.service.ts and the handshake of remark.gateway.ts.  A token is    *)
(* never stored; it is valid while its version and its time stamp agree    *)
(* with the row of the user.  Passwords and versions are numbered; hashing *)
(* and signing are waits between a read and what uses it.                  *)
EXTENDS Naturals, FiniteSets

CONSTANTS Device,       \* what signs in and holds a token and a socket
          Desk,         \* requests that change the account, in hand at once
          MaxClock,     \* bound: time
          MaxPasswords, \* bound: passwords after the first
          MaxBumps      \* bound: versions of the sessions after the first

ASSUME AccountsAssumption ==
  /\ MaxClock \in Nat /\ MaxPasswords \in Nat /\ MaxBumps \in Nat
  /\ IsFiniteSet(Desk) /\ "none" \notin Device

VARIABLES account, \* the row of the user
          link,    \* the newest row of PasswordReset
          clock,   \* Date.now()
          desk,    \* [Desk -> request in hand]
          token,   \* [Device -> token held]
          socket,  \* [Device -> the connection, with what its token says]
          dev      \* [Device -> what the device waits for]

accountVars == <<account, link, clock, desk, token, socket, dev>>

Time == 0..MaxClock
Password == 0..MaxPasswords
Version == 0..MaxBumps

Account == [pw : Password, tv : Version, changedAt : Time, disabled : BOOLEAN]
(* pw is a ghost: the password the session was opened with.  sound is one: *)
(* signing did not overlap a change of the password.                       *)
Token == [held : BOOLEAN, tv : Version, ts : Time, pw : Password, sound : BOOLEAN]
NoToken == [held |-> FALSE, tv |-> 0, ts |-> 0, pw |-> 0, sound |-> TRUE]
(* missed: a ghost of "on", the code is known not to cut this connection.  *)
Socket == [state : {"off", "on", "missed"}, tv : Version, ts : Time]
Off == [state |-> "off", tv |-> 0, ts |-> 0]
(* since: the time of the reading; at: passwordChangedAt as it was computed;*)
(* by: the device that asked; row: the reset link, or whether the account  *)
(* was read as disabled; tv, pw, sound: of the row a change has written.   *)
DeskRequest == [does : {"none", "change", "reset", "disable", "enable", "end"},
                step : {"idle", "hash", "write", "revoke"},
                since : Time, at : Time, by : Device \cup {"none"},
                row : {"none", "live", "gone", "disabled", "enabled"},
                tv : Version, pw : Password, sound : BOOLEAN]
NoDesk == [does |-> "none", step |-> "idle", since |-> 0, at |-> 0, by |-> "none", row |-> "none",
           tv |-> 0, pw |-> 0, sound |-> TRUE]
DeviceRequest == [step : {"idle", "login", "mcp", "handshake"},
                  tv : Version, ts : Time, pw : Password, sound : BOOLEAN]
NoRequest == [step |-> "idle", tv |-> 0, ts |-> 0, pw |-> 0, sound |-> TRUE]

AccountsInit ==
  /\ account = [pw |-> 0, tv |-> 0, changedAt |-> 0, disabled |-> FALSE]
  /\ link = "none" /\ clock = 0
  /\ desk = [q \in Desk |-> NoDesk]
  /\ token = [d \in Device |-> NoToken]
  /\ socket = [d \in Device |-> Off]
  /\ dev = [d \in Device |-> NoRequest]

Tick == clock < MaxClock /\ clock' = clock + 1
        /\ UNCHANGED <<account, link, desk, token, socket, dev>>

(* userFromToken                                                           *)
Valid(t) == /\ t.held /\ ~account.disabled
            /\ t.tv = account.tv /\ t.ts >= account.changedAt

(* Mutant: the time stamp is rounded up.                                   *)
SignedAhead(row, password, sound) ==
  [held |-> TRUE, tv |-> row.tv, ts |-> clock + 1, pw |-> password, sound |-> sound]

Signed(row, password, sound) ==
  [held |-> TRUE, tv |-> row.tv, ts |-> clock, pw |-> password, sound |-> sound]

-----------------------------------------------------------------------------
(* Devices                                                                 *)

(* login reads the row, compares the password and only then signs.         *)
ReadLogin(d) ==
  /\ dev[d].step = "idle" /\ ~account.disabled
  /\ dev' = [dev EXCEPT ![d] = [NoRequest EXCEPT !.step = "login", !.tv = account.tv, !.pw = account.pw]]
  /\ UNCHANGED <<account, link, clock, desk, token, socket>>

SignLogin(d) ==
  /\ dev[d].step = "login"
  /\ token' = [token EXCEPT ![d] = Signed(dev[d], dev[d].pw, dev[d].sound)]
  /\ dev' = [dev EXCEPT ![d] = NoRequest]
  /\ UNCHANGED <<account, link, clock, desk, socket>>

(* mcpToken: the guard accepts the session, then the row is read again and *)
(* the token for the facade is signed from it; the facade holds it instead.*)
AskMcp(d) ==
  /\ dev[d].step = "idle" /\ Valid(token[d])
  /\ dev' = [dev EXCEPT ![d] = [NoRequest EXCEPT !.step = "mcp", !.pw = token[d].pw, !.sound = token[d].sound]]
  /\ UNCHANGED <<account, link, clock, desk, token, socket>>

SignMcp(d) ==
  /\ dev[d].step = "mcp"
  /\ token' = [token EXCEPT ![d] = Signed(account, dev[d].pw, dev[d].sound)]
  /\ dev' = [dev EXCEPT ![d] = NoRequest]
  /\ UNCHANGED <<account, link, clock, desk, socket>>

(* The middleware of the gateway, then the connection.                     *)
Handshake(d) ==
  /\ dev[d].step = "idle" /\ socket[d] = Off /\ Valid(token[d])
  /\ dev' = [dev EXCEPT ![d] = [NoRequest EXCEPT !.step = "handshake", !.tv = token[d].tv, !.ts = token[d].ts]]
  /\ UNCHANGED <<account, link, clock, desk, token, socket>>

Connect(d) ==
  /\ dev[d].step = "handshake"
  /\ socket' = [socket EXCEPT ![d] = IF dev[d].sound THEN [state |-> "on", tv |-> dev[d].tv, ts |-> dev[d].ts]
                                            ELSE [Off EXCEPT !.state = "missed"]]
  /\ dev' = [dev EXCEPT ![d] = NoRequest]
  /\ UNCHANGED <<account, link, clock, desk, token>>

Disconnect(d) ==
  /\ socket[d] # Off
  /\ socket' = [socket EXCEPT ![d] = Off]
  /\ UNCHANGED <<account, link, clock, desk, token, dev>>

-----------------------------------------------------------------------------
(* Changes of the account                                                  *)

Take(q, r) ==
  /\ desk[q].step = "idle"
  /\ desk' = [desk EXCEPT ![q] = r]
  /\ UNCHANGED <<account, link, clock, token, socket, dev>>
Underway == Cardinality({q \in Desk : desk[q].step # "idle"})
RoomForPassword == account.pw + Underway < MaxPasswords
RoomForVersion  == account.tv + Underway < MaxBumps

(* Asked for from a device followed here, or from another one ("none").    *)
AskChange(q) ==
  /\ RoomForPassword
  /\ \E d \in Device \cup {"none"} :
       /\ IF d = "none" THEN ~account.disabled ELSE Valid(token[d])
       /\ Take(q, [NoDesk EXCEPT !.does = "change", !.step = "hash", !.since = clock, !.by = d])

AskReset(q) ==
  /\ RoomForPassword /\ RoomForVersion /\ link = "live"
  /\ Take(q, [NoDesk EXCEPT !.does = "reset", !.step = "hash", !.since = clock, !.row = "live"])

(* Both hash (about 100 ms), so the clock has moved when the new           *)
(* passwordChangedAt is computed; the statement is sent after that.        *)
Stamp(q) ==
  /\ desk[q].step = "hash" /\ clock > desk[q].since
  /\ desk' = [desk EXCEPT ![q].step = "write", ![q].at = clock]
  /\ UNCHANGED <<account, link, clock, token, socket, dev>>

(* Written; what follows is TenancyService.revoke and the answer.          *)
ToRecall(r) == [NoDesk EXCEPT !.step = "revoke", !.does = r.does, !.by = r.by]

(* Ghost: what a change of the password overlaps.  A reset raises the      *)
(* version, so only a token whose row is read later escapes it.            *)
Overlapped(since, bumps) ==
  /\ token' = [d \in Device |->
       IF ~bumps /\ token[d].ts > since THEN [token[d] EXCEPT !.sound = FALSE] ELSE token[d]]
  /\ dev' = [d \in Device |->
       IF dev[d].step = "mcp" \/ (~bumps /\ dev[d].step = "login") THEN [dev[d] EXCEPT !.sound = FALSE] ELSE dev[d]]

WriteChange(q) ==
  LET r == desk[q] IN
  /\ r.step = "write" /\ r.does = "change"
  /\ account' = [account EXCEPT !.pw = @ + 1, !.changedAt = r.at]
  /\ desk' = [p \in Desk |->
       IF p = q THEN [ToRecall(r) EXCEPT !.tv = account.tv, !.pw = account.pw + 1]
       ELSE IF desk[p].does = "change" /\ desk[p].step = "revoke" THEN [desk[p] EXCEPT !.sound = FALSE]
       ELSE desk[p]]
  /\ Overlapped(r.since, FALSE)
  /\ UNCHANGED <<link, clock, socket>>

(* The link is used under the condition that it has not been used.         *)
Usable(q) == desk[q].row = "live" /\ link # "used"
WriteReset(q) ==
  /\ desk[q].step = "write" /\ desk[q].does = "reset"
  /\ IF Usable(q)
     THEN /\ account' = [account EXCEPT !.pw = @ + 1, !.changedAt = desk[q].at, !.tv = @ + 1]
          /\ link' = "used"
          /\ desk' = [desk EXCEPT ![q] = ToRecall(@)]
          /\ Overlapped(desk[q].since, TRUE)
     ELSE desk' = [desk EXCEPT ![q] = NoDesk] /\ UNCHANGED <<account, link, token, dev>>
  /\ UNCHANGED <<clock, socket>>

(* A new link deletes the unused ones; a reset that has looked one up      *)
(* before finds it gone.                                                   *)
IssueLink ==
  /\ ~account.disabled
  /\ link' = "live"
  /\ desk' = [q \in Desk |-> IF desk[q].row = "live" THEN [desk[q] EXCEPT !.row = "gone"] ELSE desk[q]]
  /\ UNCHANGED <<account, clock, token, socket, dev>>
LinkExpires == link = "live" /\ link' = "expired"
               /\ UNCHANGED <<account, clock, desk, token, socket, dev>>

AskAdmin(q) ==
  /\ RoomForVersion
  /\ \E does \in {"disable", "enable", "end"} :
       Take(q, [NoDesk EXCEPT !.does = does, !.step = "write",
                              !.row = IF account.disabled THEN "disabled" ELSE "enabled"])

(* disabling: asked for, and the row was read as enabled.                  *)
Disabling(r) == r.does = "disable" /\ r.row = "enabled"
(* Mutant: disabling alone is thought to be enough, tokens fail anyway.    *)
EndsByHand(r) == r.does = "end"

Ends(r) == r.does = "end" \/ Disabling(r)

WriteAdmin(q) ==
  LET r == desk[q]
      unseen == r.does = "disable" /\ ~Disabling(r) /\ ~account.disabled
  IN /\ r.step = "write" /\ r.does \in {"disable", "enable", "end"}
     /\ account' = [account EXCEPT !.disabled = IF r.does = "end" THEN @ ELSE r.does = "disable",
                                   !.tv = IF Ends(r) THEN @ + 1 ELSE @]
     /\ desk' = [desk EXCEPT ![q] = IF Ends(r) THEN ToRecall(r) ELSE NoDesk]
     /\ socket' = [d \in Device |-> IF unseen /\ socket[d] # Off THEN [Off EXCEPT !.state = "missed"] ELSE socket[d]]
     /\ dev' = [d \in Device |-> IF unseen /\ dev[d].step = "handshake" THEN [dev[d] EXCEPT !.sound = FALSE] ELSE dev[d]]
     /\ UNCHANGED <<link, clock, token>>

(* Every socket of the user is cut; one in its handshake is not there yet. *)
(* Who changed the password is answered with a token of the row written.   *)
Recall(q) ==
  LET r == desk[q] IN
  /\ r.step = "revoke"
  /\ socket' = [d \in Device |-> Off]
  /\ dev' = [d \in Device |-> IF dev[d].step = "handshake" THEN [dev[d] EXCEPT !.sound = FALSE] ELSE dev[d]]
  /\ token' = [d \in Device |-> IF d = r.by THEN Signed(r, r.pw, r.sound) ELSE token[d]]
  /\ desk' = [desk EXCEPT ![q] = NoDesk]
  /\ UNCHANGED <<account, link, clock>>

AccountsNext ==
  \/ Tick \/ IssueLink \/ LinkExpires
  \/ \E d \in Device : ReadLogin(d) \/ SignLogin(d) \/ AskMcp(d) \/ SignMcp(d)
                       \/ Handshake(d) \/ Connect(d) \/ Disconnect(d)
  \/ \E q \in Desk : AskChange(q) \/ AskReset(q) \/ Stamp(q) \/ WriteChange(q) \/ WriteReset(q)
                     \/ AskAdmin(q) \/ WriteAdmin(q) \/ Recall(q)

-----------------------------------------------------------------------------
(* Properties                                                              *)

AccountsTypeOK ==
  /\ account \in Account /\ link \in {"none", "live", "used", "expired"} /\ clock \in Time
  /\ desk \in [Desk -> DeskRequest] /\ token \in [Device -> Token]
  /\ socket \in [Device -> Socket] /\ dev \in [Device -> DeviceRequest]

(* "A change of the password is a sign-out everywhere" (auth.service.ts:   *)
(* 169): a valid session rests on the present password unless its signing  *)
(* overlapped the change.                                                  *)
SessionRestsOnPassword ==
  \A d \in Device : Valid(token[d]) /\ token[d].sound => token[d].pw = account.pw

(* A connection outlives its token only until the recall under way; left   *)
(* out are handshakes a recall has overtaken, and a disabling that did not *)
(* see it was one.                                                         *)
ConnectionRestsOnToken ==
  \A d \in Device :
    socket[d].state = "on" =>
      \/ Valid([held |-> TRUE, tv |-> socket[d].tv, ts |-> socket[d].ts])
      \/ \E q \in Desk : desk[q].step = "revoke"

(* No session and no connection outlives what it was opened with.          *)
SessionsAreCurrent == SessionRestsOnPassword /\ ConnectionRestsOnToken
=============================================================================
