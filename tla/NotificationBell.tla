--------------------------- MODULE NotificationBell ---------------------------
(***************************************************************************)
(* The bell of one person: the rows of table Notification                  *)
(* (src/apps/api/src/notifications/notifications.service.ts) and the copy  *)
(* of them one browser tab keeps (notifications.store.ts of the web app).  *)
(*                                                                         *)
(* The rows are the truth, the socket only pushes.  A push, the answer to  *)
(* a list and the answer to a POST travel apart from each other, and each  *)
(* was computed at a moment of its own: `version` counts the changes of    *)
(* what the person may see, and whatever is computed is stamped with it.   *)
(* The queries of one push are taken as one moment, its emission as        *)
(* another; those of a list are two, the memberships and the rest.  Rows   *)
(* are committed in the order of their (createdAt, id); the card open in   *)
(* the tab (viewing) and a second loadMore beside the first are left out.  *)
(***************************************************************************)
EXTENDS Integers, Sequences, FiniteSets

CONSTANTS
  MaxNotes,       \* bound on the rows; they are numbered in order of (createdAt, id)
  PAGE,           \* rows of a page
  MaxTurns        \* bound on what happens: new rows, clicks in this tab or elsewhere,
                  \* changes of the role, lost sockets, failed calls, repeated pushes

Note == 1..MaxNotes

ASSUME BellAssumption ==
  MaxNotes \in Nat \ {0} /\ PAGE \in Nat \ {0} /\ MaxTurns \in Nat

VARIABLES
  note,        \* the rows: role of the addressee at the time, readAt
  role,        \* the person's role now, none if removed
  pushes,      \* jobs notify_push that have not been taken
  pushing,     \* pushes that have been computed and not emitted
  post,        \* POST /auth/notifications/read in progress
  resync,      \* a change of role whose notification.sync is not emitted yet
  version,     \* changes of the rows or the role so far
  online,      \* is the socket of the tab connected
  channel,     \* events on their way to the tab
  items,       \* what the tab lists
  unread,      \* the number on the bell
  hasMore, again, pushed, replaceNext,  \* _hasMore, syncAgain, pushed, replaceNext
  sync,        \* the list request of sync() in progress
  more,        \* the list request of loadMore() in progress
  newest,      \* the newest version the tab has been told of
  outrun,      \* something older was applied after that, or the last sync failed
  turns        \* what has happened so far

rowVars  == <<note, role, version>>
workVars == <<pushes, pushing, post, resync>>
tabVars  == <<items, unread, hasMore, again, pushed, replaceNext, sync, more, newest, outrun>>
bellVars == <<rowVars, workVars, online, channel, tabVars, turns>>

-----------------------------------------------------------------------------
BellRole == {"pm", "developer", "none"}
State    == {"no", "unread", "read"}

(* A row is of one of two remarks.                                         *)
RemarkOf(n) == n % 2

(* What is read at once: the ids clicked on, a remark, everything.         *)
Selector == {[by |-> "id", of |-> n] : n \in Note}
            \cup {[by |-> "remark", of |-> r] : r \in 0..1} \cup {[by |-> "all", of |-> 0]}

Hit(sel, n) ==
  \/ sel.by = "id" /\ sel.of = n
  \/ sel.by = "remark" /\ sel.of = RemarkOf(n)
  \/ sel.by = "all"

(* Rows a person may see in a role (scope), and the count of countUnread.  *)
Visible(r) == {n \in Note : note[n].state # "no" /\ note[n].role = r}

Count(r) == Cardinality({n \in Visible(r) : note[n].state = "unread"})

(* The newest rows of S, as many as a page holds.                          *)
Top(S) == {n \in S : Cardinality({m \in S : m > n}) < PAGE}

BellEvent == [type : {"new"}, of : Note, state : State, unread : Nat, at : Nat]
             \cup [type : {"read"}, of : Selector, unread : Nat, at : Nat]
             \cup [type : {"sync"}, at : Nat]

(* A list request.  The memberships (scope) are read before the two        *)
(* queries, so that what it answers is stamped with that moment; the two   *)
(* queries, made at once, are one moment here.                             *)
NoRows   == [n \in Note |-> "no"]
NoAnswer == [rows |-> NoRows, hasMore |-> FALSE, unread |-> 0]
ListRequest == [step : {"none", "asked", "scoped", "answered"}, before : 1..MaxNotes + 1,
                scope : BellRole, at : Nat,
                page : [rows : [Note -> State], hasMore : BOOLEAN, unread : Nat]]

NoList == [step |-> "none", before |-> MaxNotes + 1, scope |-> "pm", at |-> 0, page |-> NoAnswer]

Ask(before) == [NoList EXCEPT !.step = "asked", !.before = before]

IdlePost == [step |-> "idle", sel |-> [by |-> "all", of |-> 0], own |-> FALSE,
             unread |-> 0, at |-> 0]

BellTypeOK ==
  /\ note \in [Note -> [state : State, role : BellRole]]
  /\ role \in BellRole
  /\ pushes \subseteq [sel : Selector, at : Nat] /\ pushing \subseteq BellEvent
  /\ post \in [step : {"idle", "sent", "written", "counted", "answered"}, sel : Selector,
               own : BOOLEAN, unread : Nat, at : Nat]
  /\ resync \in BOOLEAN /\ version \in Nat
  /\ online \in BOOLEAN /\ channel \in Seq(BellEvent)
  /\ items \in [Note -> State] /\ unread \in Nat /\ hasMore \in BOOLEAN
  /\ again \in BOOLEAN /\ pushed \subseteq Note /\ replaceNext \in BOOLEAN
  /\ sync \in ListRequest /\ more \in ListRequest
  /\ newest \in Nat /\ outrun \in BOOLEAN
  /\ turns \in 0..MaxTurns

(* Some rows are there and the tab is opened: the first sync is asked for, *)
(* the socket not connected yet.                                           *)
BellInit ==
  /\ \E k \in 0..MaxNotes, s \in {"unread", "read"} :
       note = [n \in Note |-> [state |-> IF n <= k THEN s ELSE "no", role |-> "pm"]]
  /\ role = "pm"
  /\ pushes = {} /\ pushing = {} /\ post = IdlePost /\ resync = FALSE /\ version = 0
  /\ online = FALSE /\ channel = <<>>
  /\ items = NoRows /\ unread = 0 /\ hasMore = FALSE
  /\ again = FALSE /\ pushed = {} /\ replaceNext = FALSE
  /\ sync = Ask(MaxNotes + 1) /\ more = NoList
  /\ newest = 0 /\ outrun = FALSE /\ turns = 0

Turn == turns < MaxTurns /\ turns' = turns + 1

-----------------------------------------------------------------------------
(* The server.                                                             *)

(* Another person's decision: record writes the row and the job with it.   *)
Arrive(n) ==
  /\ note[n].state = "no" /\ \A m \in 1..(n - 1) : note[m].state # "no"
  /\ role # "none"
  /\ note' = [note EXCEPT ![n] = [state |-> "unread", role |-> role]]
  /\ version' = version + 1
  /\ pushes' = pushes \cup {[sel |-> [by |-> "id", of |-> n], at |-> version']}
  /\ Turn
  /\ UNCHANGED <<role, pushing, post, resync, online, channel, tabVars>>

Unread(sel) == {n \in Note : Hit(sel, n) /\ note[n].state = "unread"}

ReadRows(sel) ==
  /\ note' = [n \in Note |-> IF n \in Unread(sel) THEN [note[n] EXCEPT !.state = "read"]
                                                  ELSE note[n]]
  /\ version' = IF Unread(sel) # {} THEN version + 1 ELSE version

(* The person's own decision on a remark reads what it says of it; if it   *)
(* touched nothing, the job is there for the others who are told.          *)
Act(r) ==
  LET sel == [by |-> "remark", of |-> r] IN
  /\ ReadRows(sel)
  /\ pushes' = pushes \cup {[sel |-> sel, at |-> version']}
  /\ Turn
  /\ UNCHANGED <<role, pushing, post, resync, online, channel, tabVars>>

(* What a push has to say: a row of another role is passed over.  It says  *)
(* `read` of the rows there were at the decision, however late it is.      *)
Said(p) ==
  IF p.sel.by = "remark"
    THEN {[type |-> "read", of |-> p.sel, unread |-> Count(role), at |-> p.at]}
    ELSE {[type |-> "new", of |-> n, state |-> note[n].state, unread |-> Count(role),
           at |-> version] : n \in Visible(role) \cap {p.sel.of}}

(* push; after a crash the job is taken again.                             *)
TakePush(p) ==
  /\ p \in pushes
  /\ pushing' = pushing \cup Said(p)
  /\ \/ pushes' = pushes \ {p} /\ UNCHANGED turns
     \/ UNCHANGED pushes /\ Turn
  /\ UNCHANGED <<rowVars, post, resync, online, channel, tabVars>>

(* Into the room of the person; nobody is there while the socket is down.  *)
Emit(e) == channel' = IF online THEN Append(channel, e) ELSE channel

EmitPush(e) ==
  /\ e \in pushing
  /\ pushing' = pushing \ {e}
  /\ Emit(e)
  /\ UNCHANGED <<rowVars, pushes, post, resync, online, tabVars, turns>>

(* markRead: the rows, the count, then the event and the answer.           *)
PostCommit ==
  /\ post.step = "sent"
  /\ ReadRows(post.sel)
  /\ post' = [post EXCEPT !.step = "written", !.at = version']
  /\ UNCHANGED <<role, pushes, pushing, resync, online, channel, tabVars, turns>>

PostCount ==
  /\ post.step = "written"
  /\ post' = [post EXCEPT !.step = "counted", !.unread = Count(role)]
  /\ UNCHANGED <<rowVars, pushes, pushing, resync, online, channel, tabVars, turns>>

PostEmit ==
  /\ post.step = "counted"
  /\ Emit([type |-> "read", of |-> post.sel, unread |-> post.unread, at |-> post.at])
  /\ post' = IF post.own THEN [post EXCEPT !.step = "answered"] ELSE IdlePost
  /\ UNCHANGED <<rowVars, pushes, pushing, resync, online, tabVars, turns>>

(* A pm changes the person's role or removes them; then the sockets are    *)
(* told (revoke).  Coming back is left out: no socket is told of it.       *)
ChangeRole ==
  /\ ~resync /\ role # "none"
  /\ role' \in BellRole \ {role}
  /\ version' = version + 1
  /\ resync' = TRUE
  /\ Turn
  /\ UNCHANGED <<note, pushes, pushing, post, online, channel, tabVars>>

EmitSync ==
  /\ resync /\ resync' = FALSE
  /\ Emit([type |-> "sync", at |-> version])
  /\ UNCHANGED <<rowVars, pushes, pushing, post, online, tabVars, turns>>

(* list: the scope, then the page and the count.                          *)
Page(req) ==
  LET S == {n \in Visible(req.scope) : n < req.before} IN
  [rows |-> [n \in Note |-> IF n \in Top(S) THEN note[n].state ELSE "no"],
   hasMore |-> Cardinality(S) > PAGE, unread |-> Count(req.scope)]

ListStep(req, next) ==
  \/ req.step = "asked" /\ next = [req EXCEPT !.step = "scoped", !.scope = role, !.at = version]
  \/ req.step = "scoped" /\ next = [req EXCEPT !.step = "answered", !.page = Page(req)]

List ==
  /\ \/ ListStep(sync, sync') /\ UNCHANGED more
     \/ ListStep(more, more') /\ UNCHANGED sync
  /\ UNCHANGED <<rowVars, workVars, online, channel, items, unread, hasMore, again, pushed,
                 replaceNext, newest, outrun, turns>>

-----------------------------------------------------------------------------
(* The tab.                                                                *)

(* sync: a second one while the first is under way is put off.             *)
Sync ==
  \/ sync # NoList /\ again' = TRUE /\ UNCHANGED <<pushed, sync>>
  \/ sync = NoList /\ sync' = Ask(MaxNotes + 1) /\ pushed' = {} /\ UNCHANGED again

(* Something computed at version `at` is applied: is it older than what    *)
(* the tab has been told already?                                          *)
Told(at) ==
  /\ newest' = IF at > newest THEN at ELSE newest
  /\ outrun' = (outrun \/ at < newest)

rest == <<rowVars, workVars>>

(* The bell is opened, the tab looked at again, the minute of the poll.    *)
StartSync ==
  /\ sync = NoList
  /\ Sync
  /\ Turn
  /\ UNCHANGED <<rest, online, channel, items, unread, hasMore, replaceNext, more, newest,
                 outrun>>

Shown == {n \in Note : items[n] # "no"}

Older(n, S) == S # {} /\ \A m \in S : n < m

(* finally: the sync put off begins now.                                   *)
AfterSync ==
  /\ sync' = IF again THEN Ask(MaxNotes + 1) ELSE NoList
  /\ pushed' = IF again THEN {} ELSE pushed
  /\ again' = FALSE

(* The answer of sync(): the first page takes the place of its part.       *)
ApplySync ==
  /\ sync.step = "answered"
  /\ LET fresh == {n \in Note : sync.page.rows[n] # "no"}
         older == IF replaceNext \/ ~sync.page.hasMore THEN {}
                  ELSE {n \in Shown : Older(n, fresh)}
     IN /\ items' = [n \in Note |-> IF n \in fresh THEN sync.page.rows[n]
                                    ELSE IF n \in older \cup pushed THEN items[n] ELSE "no"]
        /\ hasMore' = IF older = {} THEN sync.page.hasMore ELSE hasMore
  /\ unread' = sync.page.unread
  /\ replaceNext' = FALSE
  /\ newest' = IF sync.at > newest THEN sync.at ELSE newest
  /\ outrun' = FALSE
  /\ AfterSync
  /\ UNCHANGED <<rest, online, channel, more, turns>>

(* The bell says nothing of a sync that fails.                             *)
SyncFails ==
  /\ sync # NoList /\ Turn
  /\ AfterSync
  /\ outrun' = (outrun \/ ~again)
  /\ UNCHANGED <<rest, online, channel, items, unread, hasMore, replaceNext, more, newest>>

(* loadMore, one at a time: what comes after the last row of the list.     *)
LoadMore ==
  /\ hasMore /\ Shown # {} /\ sync = NoList /\ more = NoList
  /\ \E last \in Shown : (\A n \in Shown : last <= n) /\ more' = Ask(last)
  /\ Turn
  /\ UNCHANGED <<rest, online, channel, items, unread, hasMore, again, pushed, replaceNext,
                 sync, newest, outrun>>

ApplyMore ==
  /\ more.step = "answered"
  /\ items' = [n \in Note |-> IF more.page.rows[n] # "no" THEN more.page.rows[n] ELSE items[n]]
  /\ hasMore' = more.page.hasMore
  /\ unread' = more.page.unread
  /\ more' = NoList
  /\ Told(more.at)
  /\ UNCHANGED <<rest, online, channel, again, pushed, replaceNext, sync, turns>>

(* The button stays.                                                       *)
MoreFails ==
  /\ more # NoList /\ Turn
  /\ more' = NoList
  /\ UNCHANGED <<rest, online, channel, items, unread, hasMore, again, pushed, replaceNext,
                 sync, newest, outrun>>

ApplyRead(sel) ==
  items' = [n \in Note |-> IF items[n] = "unread" /\ Hit(sel, n) THEN "read" ELSE items[n]]

LocalUnread(sel) == Cardinality({n \in Shown : items[n] = "unread" /\ Hit(sel, n)})

(* markRead, markRemark, markAll: is there anything to read, and how much? *)
Worth(sel) ==
  CASE sel.by = "id"     -> LocalUnread(sel) > 0
    [] sel.by = "remark" -> \/ LocalUnread(sel) > 0
                            \/ hasMore /\ unread > LocalUnread(IdlePost.sel)
    [] sel.by = "all"    -> unread > 0

(* read: shown as read at once, the answer corrects the number.            *)
MarkRead(sel) ==
  /\ post.step = "idle" /\ Worth(sel)
  /\ ApplyRead(sel)
  /\ LET count == IF sel.by = "all" THEN unread ELSE LocalUnread(sel)
     IN unread' = IF count > unread THEN 0 ELSE unread - count
  /\ post' = [IdlePost EXCEPT !.step = "sent", !.sel = sel, !.own = TRUE]
  /\ Turn
  /\ UNCHANGED <<rowVars, pushes, pushing, resync, online, channel, hasMore, again, pushed,
                 replaceNext, sync, more, newest, outrun>>

(* Another tab of the person reads.                                        *)
ReadElsewhere(sel) ==
  /\ post.step = "idle" /\ Unread(sel) # {}
  /\ post' = [IdlePost EXCEPT !.step = "sent", !.sel = sel]
  /\ Turn
  /\ UNCHANGED <<rowVars, pushes, pushing, resync, online, channel, tabVars>>

PostAnswer ==
  /\ post.step = "answered"
  /\ unread' = post.unread
  /\ Told(post.at)
  /\ post' = IdlePost
  /\ UNCHANGED <<rowVars, pushes, pushing, resync, online, channel, items, hasMore, again,
                 pushed, replaceNext, sync, more, turns>>

(* The call fails, on its way there or back: sync.                         *)
PostFails ==
  /\ post.step \in {"sent", "answered"} /\ post.own /\ Turn
  /\ post' = IdlePost
  /\ Sync
  /\ UNCHANGED <<rowVars, pushes, pushing, resync, online, channel, items, unread, hasMore,
                 replaceNext, more, newest, outrun>>

(* Mutant: what is pushed during a sync does not make it repeat.           *)
NoteNothing(S) == UNCHANGED <<again, pushed>>

(* noteDuringSync: the answer under way may be older than the push.        *)
NoteDuringSync(S) ==
  /\ again' = (again \/ sync # NoList)
  /\ pushed' = IF sync # NoList THEN pushed \cup S ELSE pushed

(* onNew, onRead and the notification.sync handler.                        *)
Receive ==
  /\ channel # <<>> /\ channel' = Tail(channel)
  /\ LET e == Head(channel) IN
       /\ Told(e.at)
       /\ \/ /\ e.type = "new"
             /\ NoteDuringSync({e.of})
             /\ items' = [items EXCEPT ![e.of] = e.state] /\ unread' = e.unread
             /\ UNCHANGED <<replaceNext, sync>>
          \/ /\ e.type = "read"
             /\ NoteDuringSync({})
             /\ ApplyRead(e.of) /\ unread' = e.unread
             /\ UNCHANGED <<replaceNext, sync>>
          \/ /\ e.type = "sync"
             /\ replaceNext' = TRUE /\ Sync
             /\ UNCHANGED <<items, unread>>
  /\ UNCHANGED <<rest, online, hasMore, more, turns>>

(* The socket is lost, with what was on it, and comes back (onConnect).    *)
DropSocket ==
  /\ online /\ Turn
  /\ online' = FALSE /\ channel' = <<>>
  /\ UNCHANGED <<rest, items, unread, hasMore, again, pushed, replaceNext, sync, more,
                 newest, outrun>>

SocketUp ==
  /\ ~online /\ online' = TRUE
  /\ Sync
  /\ UNCHANGED <<rest, channel, items, unread, hasMore, replaceNext, more, newest, outrun, turns>>

BellNext ==
  \/ \E n \in Note : Arrive(n)
  \/ \E r \in 0..1 : Act(r)
  \/ \E p \in pushes : TakePush(p)
  \/ \E e \in pushing : EmitPush(e)
  \/ PostCommit \/ PostCount \/ PostEmit \/ PostAnswer \/ PostFails
  \/ ChangeRole \/ EmitSync \/ List
  \/ StartSync \/ ApplySync \/ SyncFails \/ LoadMore \/ ApplyMore \/ MoreFails
  \/ \E sel \in Selector : MarkRead(sel) \/ ReadElsewhere(sel)
  \/ Receive \/ DropSocket \/ SocketUp

BellSpec == BellInit /\ [][BellNext]_bellVars

-----------------------------------------------------------------------------
Quiet ==
  /\ online /\ channel = <<>> /\ pushes = {} /\ pushing = {} /\ post = IdlePost /\ ~resync
  /\ sync = NoList /\ more = NoList

(* When nothing is on its way, the bell agrees with the table: the number  *)
(* is the count, and the first page is the newest rows the person may see  *)
(* in the role of today, read or unread as they are.  The only exception   *)
(* is a tab to which, after its last sync, something older came than what  *)
(* it had been told already, or whose last sync failed: that lasts until   *)
(* the next sync.                                                          *)
BellAgrees ==
  Quiet /\ ~outrun =>
    /\ unread = Count(role)
    /\ LET first == Top(Visible(role)) IN
         Top(Shown) = first /\ \A n \in first : items[n] = note[n].state
=============================================================================
