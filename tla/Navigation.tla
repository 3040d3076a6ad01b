------------------------------ MODULE Navigation ------------------------------
(***************************************************************************)
(* Where a person of the web app arrives: the routes (app.routes.ts), the  *)
(* guards and resolvers (core/guards.ts) and the session they look at,     *)
(* which is a copy of what the server knows (core/session.service.ts).     *)
(*                                                                         *)
(* One person, one project, one remark in it.  A URL is its page, the way  *)
(* it names the project (by slug, by id, or in the form /p/<id>/... of old *)
(* links) and, for the page of the login, where to go afterwards.  A trip  *)
(* is a navigation with all its redirects.  Left out: cards the store      *)
(* already knows, which are not asked for, the rounds' numbers, the page   *)
(* that resets a password, and sessions stored before projects had slugs.  *)
(* The list of rounds is guarded like a round, an import like a new remark.*)
(***************************************************************************)
EXTENDS Integers

TeamRole    == {"pm", "business", "developer", "admin"}
ProjectPage == {"journal", "documents", "team", "dev", "round", "new", "card"}
OtherPage   == {"root", "login", "register", "join", "no-access", "projects", "profile", "admin"}
PublicPage  == {"login", "register", "join", "no-access"}

VARIABLES
  membership,  \* the person's role in the project, on the server
  chief,       \* is the person an administrator of the instance
  card,        \* the remark: shown, hidden from developers, missing
  session,     \* is the person logged in, and the role the browser knows
  at,          \* the URL shown
  trip,        \* where to, what was asked for, redirects so far, membership asked for
  steady       \* has nobody changed the role during the trip

navVars == <<membership, chief, card, session, at, trip, steady>>

Url ==
  [page : OtherPage, key : {"none"}, next : {"none"}]
  \cup [page : {"login"}, key : {"none"}, next : {"join"}]
  \cup [page : ProjectPage, key : {"slug", "id"}, next : {"none"}]
  \cup [page : ProjectPage, key : {"legacy"}, next : {"none"}]

LoginUrl == [page : {"login"}, key : {"none", "slug"}, next : (ProjectPage \cup OtherPage) \ {"root"}]

Other(p)     == [page |-> p, key |-> "none", next |-> "none"]
Project(p)   == [page |-> p, key |-> "slug", next |-> "none"]
Resting      == [to |-> Other("root"), wanted |-> Other("root"), hops |-> -1, asked |-> FALSE]
Trip(u)      == [to |-> u, wanted |-> u, hops |-> 0, asked |-> FALSE]
Moving       == trip.hops >= 0
Start(u)     == trip' = Trip(u)
NoSession    == [in |-> FALSE, role |-> "none"]

NavTypeOK ==
  /\ membership \in TeamRole \cup {"none"} /\ chief \in BOOLEAN
  /\ card \in {"shown", "hidden", "missing"}
  /\ session \in [in : BOOLEAN, role : TeamRole \cup {"none"}]
  /\ at \in Url \cup LoginUrl
  /\ trip \in [to : Url \cup LoginUrl, wanted : Url \cup LoginUrl, hops : -1..5, asked : BOOLEAN]
  /\ steady \in BOOLEAN

(* A tab is opened at any address; the stored session may be out of date.  *)
(* (A chief is not let into a project, whatever role the account has.)     *)
NavInit ==
  /\ membership \in TeamRole \cup {"none"} /\ chief \in BOOLEAN
  /\ card \in {"shown", "hidden", "missing"}
  /\ session \in {NoSession} \cup [in : {TRUE}, role : TeamRole \cup {"none"}]
  /\ chief => card = "missing" /\ membership = "none" /\ session.role = "none"
  /\ at = Other("root") /\ trip \in {Trip(u) : u \in Url}
  /\ steady = TRUE

-----------------------------------------------------------------------------
(* roleGuard: the pages of a role.                                         *)
OpenTo(page, role) ==
  \/ page \in {"documents", "card"}
  \/ page \in {"journal", "round"} /\ role \in {"pm", "business", "admin"}
  \/ page = "team" /\ role \in {"pm", "admin"}
  \/ page = "dev" /\ role = "developer"
  \/ page = "new" /\ role \in {"business", "pm"}

Readable(role) ==
  role # "none" /\ (card = "shown" \/ (card = "hidden" /\ role # "developer"))

(* homeUrl, homeUrlFor.                                                    *)
HomeOf(role) == Project(IF role = "developer" THEN "dev" ELSE "journal")

Home ==
  IF ~session.in THEN Other("login")
  ELSE IF chief THEN Other("admin")
  ELSE IF session.role = "none" THEN Other("projects")
  ELSE HomeOf(session.role)

(* afterLogin: ?next=, else home.                                          *)
AfterLogin(u) ==
  IF u.next = "none" THEN Home ELSE [page |-> u.next, key |-> u.key, next |-> "none"]

(* projectGuard and legacyUrlGuard ask for the memberships once before     *)
(* they refuse.                                                            *)
AsksFirst(u) ==
  u.page \in ProjectPage /\ session.in /\ ~chief /\ session.role = "none" /\ ~trip.asked

(* Mutant: the guard of the project is forgotten for the administrator.    *)
InProjectAnyone(u) ==
  IF session.role = "none" THEN Other("no-access")
  ELSE IF u.key = "id" THEN [u EXCEPT !.key = "slug"]
  ELSE IF u.page = "journal" /\ session.role = "developer" THEN Project("dev")
  ELSE IF ~OpenTo(u.page, session.role) THEN Other("no-access")
  ELSE IF u.page = "card" /\ ~Readable(membership) THEN Project("round")
  ELSE u

(* projectGuard, then projectHomeGuard or roleGuard, then remarkIdResolver.*)
InProject(u) ==
  IF chief THEN Other("admin")
  ELSE IF session.role = "none" THEN Other("no-access")
  ELSE IF u.key = "id" THEN [u EXCEPT !.key = "slug"]
  ELSE IF u.page = "journal" /\ session.role = "developer" THEN Project("dev")
  ELSE IF ~OpenTo(u.page, session.role) THEN Other("no-access")
  ELSE IF u.page = "card" /\ ~Readable(membership) THEN Project("round")
  ELSE u

(* legacyUrlGuard: the human address of an old link.                       *)
Rewritten(u) ==
  IF chief THEN Other("admin")
  ELSE IF session.role = "none" THEN Other("no-access")
  ELSE IF u.page = "card" /\ ~Readable(membership) THEN Project("round")
  ELSE Project(u.page)

(* The URL that follows in a trip, u itself if its page is shown.  The pages of    *)
(* the login and the registration send on whoever is logged in.            *)
NextStop(u) ==
  IF u.page \in {"join", "no-access"} THEN u
  ELSE IF u.page = "root" THEN Home
  ELSE IF u.page = "login" THEN IF session.in THEN AfterLogin(u) ELSE u
  ELSE IF u.page = "register" THEN IF session.in THEN Home ELSE u
  ELSE IF ~session.in THEN Other("login")
  ELSE IF u.page = "profile" THEN u
  ELSE IF u.page = "projects" THEN IF chief THEN Other("admin") ELSE u
  ELSE IF u.page = "admin" THEN IF chief THEN u ELSE Other("no-access")
  ELSE IF u.key = "legacy" THEN Rewritten(u)
  ELSE InProject(u)

-----------------------------------------------------------------------------
(* GET /auth/me: what the server knows, or no answer.                      *)
SessionNow == [in |-> TRUE, role |-> membership]

AskMembership ==
  /\ Moving /\ AsksFirst(trip.to)
  /\ session' \in {session, SessionNow}
  /\ trip' = [trip EXCEPT !.asked = TRUE]
  /\ UNCHANGED <<membership, chief, card, at, steady>>

Redirect ==
  /\ Moving /\ ~AsksFirst(trip.to) /\ NextStop(trip.to) # trip.to
  /\ trip' = [trip EXCEPT !.to = NextStop(trip.to), !.hops = @ + 1]
  /\ UNCHANGED <<membership, chief, card, session, at, steady>>

Land ==
  /\ Moving /\ ~AsksFirst(trip.to) /\ NextStop(trip.to) = trip.to
  /\ at' = trip.to /\ trip' = Resting
  /\ UNCHANGED <<membership, chief, card, session, steady>>

(* A link, a bookmark, a button, the address bar.  (A trip given up for    *)
(* another is as if it had not begun.)                                     *)
GoTo(u) ==
  /\ ~Moving /\ Start(u) /\ steady' = TRUE
  /\ UNCHANGED <<membership, chief, card, session, at>>

(* A login, or a registration: then the memberships are those of the       *)
(* invitation.                                                             *)
LogIn ==
  /\ ~Moving /\ at.page \in {"login", "register"} /\ ~session.in
  /\ session' = SessionNow /\ Start(at) /\ steady' = TRUE
  /\ UNCHANGED <<membership, chief, card, at>>

LogOut ==
  /\ session.in
  /\ session' = NoSession /\ Start(Other("login")) /\ steady' = TRUE
  /\ UNCHANGED <<membership, chief, card, at>>

(* A call is answered 401: back to this page after the login.              *)
SessionExpires ==
  /\ session.in
  /\ session' = NoSession /\ steady' = TRUE
  /\ Start(IF at.page \in {"login", "register", "root"} THEN Other("login")
           ELSE [page |-> "login", key |-> at.key, next |-> at.page])
  /\ UNCHANGED <<membership, chief, card, at>>

(* The tab is looked at again, the page of the projects polls: the session *)
(* is brought up to date, and a first project is opened from there.        *)
Refresh ==
  /\ session.in /\ session # SessionNow
  /\ session' = SessionNow
  /\ IF ~Moving /\ at.page = "projects" /\ session.role = "none"
     THEN Start(HomeOf(membership)) /\ steady' = TRUE
     ELSE /\ UNCHANGED trip
          /\ steady' = (steady /\ (Moving => session.role = membership))
  /\ UNCHANGED <<membership, chief, card, at>>

(* The invitation is accepted: its project is opened.                      *)
AcceptInvitation ==
  /\ ~Moving /\ at.page = "join" /\ session.in /\ ~chief /\ membership = "none"
  /\ membership' \in TeamRole
  /\ session' = [in |-> TRUE, role |-> membership']
  /\ Start(HomeOf(membership')) /\ steady' = TRUE
  /\ UNCHANGED <<chief, card, at>>

(* Somebody changes the role or removes the person from the project.       *)
TeamChanges ==
  /\ ~chief /\ membership' \in (TeamRole \cup {"none"}) \ {membership}
  /\ steady' = (steady /\ ~Moving)
  /\ UNCHANGED <<chief, card, session, at, trip>>

NavNext ==
  \/ AskMembership \/ Redirect \/ Land
  \/ \E u \in Url : GoTo(u)
  \/ LogIn \/ LogOut \/ SessionExpires \/ Refresh \/ AcceptInvitation \/ TeamChanges

-----------------------------------------------------------------------------
(* What is asked for: whoever is logged in passes the login by.            *)
Goal(u) ==
  IF ~session.in \/ u.page \notin {"login", "register"} THEN u.page
  ELSE IF u.page = "login" /\ u.next # "none" THEN u.next ELSE "root"

MaySee(page) ==
  \/ page \in PublicPage
  \/ session.in /\ page = "profile"
  \/ session.in /\ chief /\ page = "admin"
  \/ session.in /\ ~chief /\ page = "projects"
  \/ /\ session.in /\ ~chief /\ page \in ProjectPage /\ session.role # "none"
     /\ OpenTo(page, session.role) /\ (page = "card" => Readable(membership))

(* Where else: a chief has one place, a developer has a queue for a        *)
(* journal, a card that is not found has its round, except that no round   *)
(* is open to a developer.                                                 *)
Instead(page) ==
  IF ~session.in THEN "login"
  ELSE IF chief THEN "admin"
  ELSE IF page = "root" THEN IF session.role = "none" THEN "projects" ELSE HomeOf(session.role).page
  ELSE IF page = "journal" /\ session.role = "developer" THEN "dev"
  ELSE IF page = "card" /\ session.role \notin {"none", "developer"} THEN "round"
  ELSE "no-access"

(* A navigation lands (guards.ts, links.ts): no two guards send a person   *)
(* back and forth, and whatever was typed, kept as a bookmark or carried   *)
(* through a login, the page that is shown at last is the one asked for if *)
(* the person may see it, under the project's slug, and otherwise the one  *)
(* meant for that person; a role nobody changed meanwhile decides it.      *)
NavigationLands ==
  [][ /\ trip'.hops <= 4
      /\ (Moving /\ trip'.hops = -1 /\ steady) =>
           LET page == Goal(trip.wanted)
           IN /\ at'.page = IF MaySee(page) THEN page ELSE Instead(page)
              /\ at'.page \in ProjectPage => at'.key = "slug" ]_navVars
=============================================================================
