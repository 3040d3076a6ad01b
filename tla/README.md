# RemarkRound in TLA+

RemarkRound runs the acceptance of a software project: the customer files remarks
in rounds, a language model proposes for each one what it is and which paragraph
of the requirements it rests on, a project manager decides, developers repair,
and the customer compares a new screenshot and closes. Every decision is written
to an append-only history that both sides rely on later.

These modules specify the parts of that program in which several actors act at
the same time, in which a process may die half-way, or in which two programs have
to agree without asking each other. TLC checks them on small instances; TLAPS
proves the central properties for every instance.

## 1. The system

One NestJS process (`src/apps/api/src`) serves REST and WebSocket, runs two
LangGraph state machines and a queue worker, and keeps everything in one Postgres
database (`src/packages/db/prisma/schema.prisma`). During a deployment the new
process starts before the old one has stopped, so two of them overlap
(`docs/ARCHITECTURE.md`, section on the queue). There is no lock manager: order
comes from conditional updates (`UPDATE ... WHERE status IN (...)`), from a few
`FOR UPDATE` row locks and from unique indexes, under READ COMMITTED. The browser
client (`src/apps/web`) keeps copies of what it was told and decides by them.

| Component | State | Operations that change it | Talks to |
| --- | --- | --- | --- |
| Remarks (`remarks.service.ts`) | remark, runs, verdicts, advice, history, screenshots | create, import, repeat, fix row, attach frame, begin triage, proposal, fail, cancel, verdict, advise, ready for retest, begin retest, retest result, close, not fixed, link duplicate | Notifications inside its transactions; reads Rounds |
| Rounds (`rounds.service.ts`) | rounds and their events | create, close, reopen | reads remarks |
| Job queue (`jobs.service.ts`) | table `Job`; per process the map `active` | enqueue, cancel by run, claim, finish / retry / fail, heartbeat, sweep, shutdown | calls handlers registered by AgentService, RagService, NotificationsService |
| Run orchestration (`agent.service.ts`, `semaphore.ts`) | per process: graphs in progress, slots | start, verdict, cancel, retest, close, not fixed, execute a job, sweep stale runs | Remarks, Job queue, graphs, checkpoints, events |
| Triage and retest graphs | graph state in checkpoints | nodes, loops, pause for the human | Remarks (proposal, result), model, search |
| Checkpoint store | `GraphCheckpoint`; writes in flight | put, put writes, delete thread | Postgres |
| Run events, WebSocket gateway | last phase per run; rooms, presence, role cached at join | emit, join, leave, commands, revoke | clients, AgentService |
| Notifications | notification rows | fan-out, push, mark read | Job queue (enqueue inside the transaction) |
| Documents and search | documents, chunks | upload, reindex, index job | Job queue, storage, text extraction and chunking |
| Import | import job and rows | create (row loop, then triage) | Remarks, AgentService |
| Members, invitations, projects | memberships, invitations | add, change role, remove, invite, reissue, revoke, accept, decline | gateway (revoke) |
| Accounts and sessions | users, token version, reset links | register, log in, change or reset password, disable, revoke sessions | invitations, gateway |
| Pixel diff | none | compare two frames | retest graph |
| Web client | copies of remarks, runs and notifications; the decision that can still be undone; the session; what tabs share in the local storage | navigate, load, decide, undo, ring, mark read | REST, WebSocket |
| Storage, model access, observability, MCP facade, evaluation and seed tools | files, caches, none | save, call | external |

What makes it hard, and what correctness means there:

* **Remarks.** Every handler reads a row, checks it and writes later. Correct
  means: whatever interleaves, a status moves only along the arrows of
  `docs/STATUS.md`, only a person entitled to it decides, a decided remark rests
  on its newest verdict, the history tells what happened, and a repeated request
  is applied once.
* **Rounds.** Checks on other tables (remarks of the round, status of the round)
  are made outside the transaction that relies on them; some are protected by row
  locks and some are not. Correct means dense, unique numbers, a new round only
  when nothing is pending, a journal that alternates.
* **Job queue.** The row of a job and what a process is doing about it are two
  things. Correct means: an accepted job is settled, once, whatever crashes; it
  is never in two hands; limits hold.
* **Run orchestration.** Remark, run, job and checkpoint are written in separate
  steps with a crash possible in between. Correct means: no remark stays in
  `triaging` for ever, every run ends or waits for a person, what has ended stays
  ended, and no answer of the PM is passed over.
* **Graphs, documents, comparison.** The model may answer anything, the document
  may be reindexed under the graph. Correct means: a pass ends, what reaches a
  person rests on something, a rejected citation does not come back, concurrent
  index jobs leave the text searchable, a comparison says *unchanged* or *fixed*
  for a reason.
* **Access.** A role is cached in rooms and a session in tokens; both are recalled
  after the fact. Correct means: a recall reaches what it is for, the removed stay
  out, a project keeps a pm.
* **Web client.** Pushes, answers and the person's clicks overtake each other.
  Correct means: the badge ends at the number of unread rows, a decision not
  undone is sent, the card offers what the server accepts and tells what the run
  does, whoever a remark waits for is called, links lead where they should, one
  tab rings.

`PROJECT.json` lists every component with its status and, under `hazards`, each
place in the code where this can go wrong, at its line, with the property that
watches it.

## 2. The modules

### The remark: RemarkLifecycle, RemarkCard, RemarkTurns

`RemarkLifecycle` is one remark with its runs, verdicts, advice and newest history
row, for any number of concurrent callers.

* `call[c]` is what a handler has in its local variables between its read and its
  write: operation, status seen, run, role, verdict code, idempotency key.
* `Load...` actions are the read and the checks of a handler (`load`,
  `assertTransition`, role checks where the role decides which verdict is
  allowed); a failed check is a request that changes nothing, hence no step.
* The action named like the method (`BeginTriage`, `ApplyProposal`, `FailRun`,
  `CancelRun`, `Verdict`, `RejectBinding`, `BeginRetest`, `ApplyRetest`, `Close`,
  `NotFixed`, ...) is the transaction. It is one step: its first statement locks
  the remark's row and the rest becomes visible at the commit. `Transition` is
  the conditional update; `Allowed` its list of accepted statuses; `Abandon` the
  409 when no row matched. `applyProposal` and `applyRetest` check the run in a
  separate read, so they have three steps (`LoadProposal`, `CheckRun`,
  `ApplyProposal`).
* `failRun` and `cancelRun` do not use `transition`; their writes are modelled as
  they are, conditional or not.

Abstracted: screenshots, citations, texts, token usage. Role checks that only
refuse a request are left out where no property tells the roles apart.
`failStaleRuns` is `FailRun` by another caller as far as one remark sees it; when
it may run depends on the queue and is in RunOrchestrator.

`RemarkCard` adds no state: a card is a function of the row the page was given.
It states which buttons the page derives for every role, status and newest run,
and which operations the route and the row check accept of that role; the two are
compared in every reachable state (`OffersAreAccepted`). Its exceptions are named
where it is defined (section 3).

`RemarkTurns` compares four tables written apart: whom the rules of the bell call
by the history row (`audience.ts`), for whom the journal says a remark waits
(`journal-filter.ts`), the queue of the developer, and the buttons of the card.

### Rounds: RoundGate

The rounds of one project and the remarks filed in them. Creating a remark takes
three steps, as in the code: the round is found open (`CheckCreate`,
`CheckRepeat`), the round's row is locked and the last number read (`TakeNumber`),
the remark is inserted (`InsertRemark`). Opening a round takes two (`LockProject`,
`OpenRound`), closing two (`CheckClose`, `CloseRound`). Locks are not a variable:
a caller in `numbering` or `opening` holds one. The insert of a remark waits for
the project's lock because its foreign key needs a share lock on that row, and so
do the events of close and reopen. How a remark is decided is one action,
`Decide`; its detail is RemarkLifecycle. The second and third attempt of
`createNumbered` after a refused number are left out because `RoundsAreSound`
(its part `NumberIsFree`) shows that they are never needed.

### The queue: JobQueue and its promise JobPromise

JobQueue has the rows of table `Job` (`rows`) and what each process has in hand
(`hand`): `claimed` (the UPDATE has committed, its answer is under way), `working`,
`aborted`, or one of the three last writes on its way. Actions are the steps of
`poll`/`claim`/`execute`, the heartbeat (`Beat`), the sweep (`Sweep`), SIGTERM
(`Drain`, `GiveUp`, `Exit`), `Crash` and `Start`. `LoseClaim` and `LoseWrite` are
database errors; the code swallows most of them.

Time is one bit per row: the lock is fresh or it has expired. Expiry needs 60 s
without a beat; a live process beats every 15 s, and a stopping one gives its jobs
back 25 s after its last beat at the latest, so `Age` spares rows a live process
holds. An installation of one process (`Solo`) needs no such assumption: there
beats may come late, and the last write of a job may still be in flight when the
stopping process gives the job back. With two processes that second window would
break `NeverTakenTwice` - the write goes by the id alone, and the job may meanwhile
have been claimed elsewhere - and `KeepsThePromise` with it: a late
`queued` of a retry would bring back a job the other process has settled. Both rest
on what the model excludes there: a beat more than 60 s late beside a second process
(its errors are swallowed, `jobs.service.ts:347`), and a last write that starts in
the last instants of a grace period of 25 s and arrives after `jobs.service.ts:175-177`
has given the job back.

`Workload` are the kinds and projects of the jobs that may be enqueued.
`completed` is a history variable: the handler has returned with its work done.
`faults` counts crashes, deployments and lost messages; it bounds the model and is
what `LimitsHeld` relates attempts to (`attempts <= MaxAttempts + faults`): a
crash gives no attempt back, so a job may be taken once more for each of them.

`JobPromise` is what the users of the queue rely on: absent, owed, settled, never
back, and every owed job is settled in the end. JobQueue implements it
(`KeepsThePromise`, the refinement mapping is `Owed`).

### The run: RunOrchestrator and its promise RunPromise

The agent runs of one remark across the four places that know of them: rows,
queue, checkpoints, memory of the process. One call of RemarksService is one step
(what may happen inside it is RemarkLifecycle's subject); a request commits first
(`Begin`, `RejectBinding`, `Decide`) and enqueues afterwards (`Enqueue`), so that a
crash fits in between. The queue is reduced to its promise plus attempts and
redelivery (`Requeue`), a graph to what its checkpoints tell apart: work, the one
node that writes, the pause, the end. There is one process; a crash and its
restart are one step. `AbortRun`, `CancelByRun`, `CancelRun`, `DeleteThread` are
the four parts of `run.cancel`, with everybody else in between.

A redelivered resumption may apply a rejection again that its predecessor had
already put into the checkpoint before the crash, so the count a graph has `heard`
can exceed `rejected`; nothing bounds it but the number of redeliveries, and the
types say `Nat`. Left out: a verdict that names an older run and two retests begun
at once (RemarkLifecycle has both); a settled job is forgotten; the semaphore is
represented by the equal limit of the queue; `pruneCheckpoints` goes by the age of
a run, which is any time after its end.

`RunPromise`: a run is absent, working, waiting or over; it goes back from waiting
to working by an answer, ends from either, and never comes back from the end; and
whatever works ends or waits for a person. RunOrchestrator implements it
(`KeepsRunPromise`).

### The graphs: DocumentIndex, TriageGraph, PixelDiff, RetestGraph, Chunker

`DocumentIndex` is one document and its chunks: upload and reindex write the row
and enqueue; two index jobs may overlap, and the transaction of a job is two steps
(`DELETE` sees the rows of its moment, the commit comes later). A crash, a last
write that is lost or a temporary error gives the job back. Every write may fail on
the way: the enqueue after the row (`EnqueueIndex`), the reading of the row and the
`failed` of a job that gives up (`FailIndex`; `rag.service.ts:88` is outside the
`try`, `:123` may throw, and an error of the database is not retried), the
`uploaded` before a retry (`RetryIndex`). A document whose enqueue or whose word of
failure is gone for good (`lost`) stays `uploaded` or `parsed` until somebody
reindexes it; `DocumentSettles` excepts it when nobody is at work on the document
(`Forgotten`), and promises the end of every other. Copies of a section may be left by two
overlapping jobs, and an older failure may write `failed` over the newer `indexed`:
what `SectionsStaySearchable` says is that no section is missing.

`TriageGraph` is the graph node by node over these documents, with any answer of
the model (`classify`'s own rules applied to it), the rewriting and the binding
loop with their counters, the pause, rejection and resumption. Scores are reduced
to whether the best reaches the threshold, a draft to the sections it names.

`PixelDiff` computes size checks, ratio, box and the two thresholds over frames
that are sets of inked pixels; `RetestGraph` is every path from two frames to what
the customer is shown and on whose word, and, where it is the model's on compared
frames, of which region: one that frames the changes and does not spread over more
than `REGION_RATIO` of the picture.

`Chunker` is `chunkByHeadings` line by line: headings by markdown or number,
table of contents, lists, windows of words. A line is what the regular expressions
tell apart; its header comment lists them.

`MCGraphs` looks at one of the four at a time (`mode`): triage beside an indexing
that is about to commit, index jobs alone, comparison alone, text alone.

### Access: ProjectAccess and Accounts

`ProjectAccess` has memberships, invitations, one room per person and the requests
in hand (`req`): each handler reads, waits and writes by the id of the row it has
read (`row` is "gone" once that row was deleted). `overtaken` and `outlaw` are
history variables: a write that took a pm away on a count somebody had overtaken,
and the removed for whom no invitation was made since.

`Accounts` has one account, its reset link, the requests at its desks, and devices
that sign in, hold a token and a socket. A token is valid while its version and
time stamp agree with the row; hashing and signing are waits. `MCAccess` looks at
one of the two at a time: no handler touches both.

### The web client and what it shares with the server

* `NotificationBell`: rows, pushes, the list and the answers of one person's bell
  against the copy of one tab. Everything computed is stamped with the version of
  the truth it was computed from. Rows commit in the order of (`createdAt`, id);
  the queries of one push are one moment; the open card and overlapping
  `loadMore` are left out. `LoadMore` waits for a running synchronisation; in the
  code a `loadMore` that was sent before the synchronisation and ends first clears
  the flag they share (`notifications.store.ts:154,165`), so another can be sent
  beside it.
* `PendingAction`: the five seconds of undo, the commit over the socket and its
  repetition by REST with the same key. `store.verdict` takes the run at commit
  time. The server takes a request in two steps: it looks for the key (`LookUp`) and
  then runs the transaction (`Serve`), so both copies may find nothing and only the
  unique index (`KeyIsFree`) is left between them. What else a transaction may be
  refused for is RemarkLifecycle's.
* `CardRoom`: a tab that goes from card to card, the rooms of the gateway, run
  events, lost connections, REST answers in any order. Reads do not fail,
  identical reads under way are one, presence, tokens and advice are left out,
  joins are not refused and do not fail (`remark.gateway.ts:153-158`), and the tab
  always has a copy from the list.
* `TabAttention`: several tabs, a lock per notice and a shared map of handled
  ones, read through a lagging copy and written back whole.
* `JournalImport`: the template's columns, what becomes of each row, the loop
  that files them and starts their triage, its end by a closed round or a crash.
* `Navigation`: routes, guards and redirects over a session that is a copy of
  what the server knows, with logins, removals and changes of role in between.

`MCTeam` looks at these and at RoundGate, one at a time: they share no state.

### Proofs

`RemarkLifecycleProofs`, `RoundGateProofs`, `JobQueueProofs`,
`RunOrchestratorProofs`, `AccessProofs`, `WebClientProofs`, `GraphProofs` extend
the modules they are about; `SetLemmas` has the facts on finite sets and numbers they share.

## 3. The runs

| Run | Question | Instance |
| --- | --- | --- |
| `lifecycle` | all safety properties of one remark; does the card offer only what is accepted; is whoever it waits for called | 2 callers, 2 runs, 2 keys, every operation |
| `failure_race` | does a failing run spare a proposal that has arrived? It does not | same |
| `cancel_race` | does a cancellation spare a verdict given in between? It does not | same |
| `no_restart` | can somebody restart what was given up, as the docs say? Nobody can, once the page is opened afterwards | same |
| `jobqueue` | the promise (with liveness), attempts and limits, no second taker, no false `done` | 2 processes, 2 jobs, 2 attempts, concurrency 2, 2 faults |
| `orchestrator` | types, `triaging`, rejections heard | 2 runs, 2 jobs, 1 attempt, 1 rejection, 1 fault |
| `orchestrator_live` | the promise of a run, with liveness | 1 run, 2 jobs, 2 attempts, 2 rejections, 2 faults |
| `graphs` | proposals, passes, index, comparison, chunks | 2 sections, 2 index requests, 2 attempts, 1 index fault, `RETRIEVE_K` 1, 2 rewritings, 1 binding loop, frames of 3 x 3 pixels of which 4 may change, texts of at most 4 lines of 13 kinds, windows of 3 words that share 1 |
| `uncited_defect` | has every defect that waits for the PM a citation? Not always | same, texts of 1 line |
| `access` | who stays pm, which cached role and which session survives a change; the members with their invitations, with their rooms, and the sessions, one at a time | 2 people, 2 requests, 1 device, 2 desks, 2 ticks, 2 passwords, 2 versions |
| `team` | rounds, bell, decisions, card, tabs, import, pages | 2 callers, 2 rounds, 2 remarks, 4 events; 3 notifications, pages of 1, 2 turns; 2 decisions; 2 cards, 3 steps, 2 reads, 3 messages; 2 tabs, 1 notice; journals of up to 3 rows; every navigation |
| `round_race` | is a closed round settled? Not always | the rounds of `team` |

Why the bounds are enough. All conflicts of RemarkLifecycle, RoundGate,
ProjectAccess and Accounts are between a caller that has read and one that writes
in between; the second may perform any number of operations while the first one
waits, so two callers reach every overtaking the code is exposed to. Two runs give
an old and a new one, two keys a repeated and a new one. Two remarks suffice for
numbering (both in flight, or one present), for a repeat and its original, and for
a link; four events allow open, close, reopen, close. In JobQueue two processes are
what a deployment produces, two jobs share a project and fill a limit of one. In
RunOrchestrator two runs give one that is over and its successor; `orchestrator`
has room for each single fault at each point, `orchestrator_live` for a second
fault while the first is being repaired, for two rejections and for retries. The
triage graph's counters are smaller than the code's (6 results, 2 loops) but large
enough to run out: a search that returns one of two sections can miss the other.
Nine pixels with four changed reach both thresholds from both sides. Texts of four
lines contain a table of contents with an entry, a heading and its text; texts of
five lines were explored once, alone, without a counterexample. Two decisions are one that
waits or is being sent and one that replaces it; the proofs take any number.
`MaxSteps` 3 in the card lets a move, a lost connection and a change meet; 4 was
explored alone. Journals of one row come under every header the
parser tells apart, those of three rows exceed `MaxRows`. Navigation has no bound.
Where a safety property is proved (section 4), no bound matters for it.

`CHECK_DEADLOCK FALSE` is set where the instance really ends: all jobs settled, all
rows of bounded tables used, all runs over, all texts cut. Symmetry over callers,
keys and people is used in `lifecycle`, `access` and `team`, which check no
liveness.

Constants that are settings of the code have smaller values than there:
`Concurrency` (8), `KindLimit` (4 and 2), `PairLimit` (2 per project),
`MaxAttempts` (3 or 4), `RETRIEVE_K` (6), `MAX_BIND_LOOPS` (2), `PAGE` (30),
`MaxRows` (`IMPORT_MAX_ROWS`), `maxWords` and `overlapWords`. The others
(`Max...`, `N...`) only bound the state space.

### Fairness

RemarkLifecycle, RoundGate, access and team have none: a person may never act,
and nothing in them is claimed to happen.

JobQueue assumes weak fairness of the timers (claim, sweep, expiry), of a
process's own steps (a handler returns in the end because its calls have
deadlines: `GRAPH_RUN_TIMEOUT_MS`, the timeouts of the model client), of `Exit`
(the container is killed after its grace period) and of `Start` (restart policy).
Nothing is assumed about the choice among jobs: the oldest goes first. Faults are
finite, which is what "in the end" needs. `GiveUp` has no fairness, because a
handler may return within the grace period.

RunOrchestrator assumes weak fairness of the enqueue of a committed request, of
the worker per job, of redelivery and of the sweep of stale runs; nobody makes a
person decide, cancel or start anything. The triage graph's steps are weakly fair
(a job runs it under a deadline), and so are the index jobs.

### What the code does not keep

Five runs end in a counterexample; `PROJECT.json` quotes the sentences they
contradict.

* `failure_race`: `failRun` reads `triaging`, the late proposal commits
  `awaiting_pm`, and `failRun` writes `imported` without a condition.
* `cancel_race`: `cancelRun` has read `awaiting_pm`, the PM's "not that citation"
  commits, and the cancellation, which also accepts `triaging`, undoes it.
* `round_race`: a remark is filed between the check and the write of a close, or
  a round is closed between the check and the insert of a remark.
* `uncited_defect`: a reindexing commits between the search and `applyProposal`;
  the snapshot of the citation finds no row, and a defect without one waits.
* `no_restart`: the button "start again" hangs on a failure event the page must
  have heard; the sweep tells none.

Other disagreements are the stated exceptions of properties that hold otherwise:

* A decision scheduled while the one before is still being sent can be replaced
  (`pending-action.service.ts:23` against `:52`; exception `behind` of
  `DecisionIsKept`).
* Two pms who leave at once leave a project without one (`members.service.ts:100`;
  exception of `PmLostOnlyByOverlap`).
* A join that has read the role before a change caches it after the recall
  (exception of `RoomRoleIsCurrent`); a leave during a join leaves the socket in
  the room (`docs/WS.md:16`), and a dead socket stays in the presence list.
* "Start again" always asks for a triage: after a failed retest it is refused with
  409, for a developer with 403. The button that replaces a frame cancels the
  newest run, whichever comparison gave the result on the card: after a late
  failure of that run, or when the result is an older comparison's, there may be
  nothing left to cancel. While an older comparison still works beside a newer
  run, a retest or a closing is offered and refused (the three exceptions of
  `OffersAreAccepted`; that of an older result takes three runs). The other way
  round, the PM sees `cannot_tell` under "waits for me" (`journal-filter.ts:11`)
  without a button to attach a frame, the API allows the PM decisions in
  `unspecified` that the card does not show, and `duplicate` has no button.
* A draft for the customer is shown after any verdict (`remark.dto.ts`,
  `draftAllowed`, against `docs/API.md:77` and `docs/WS.md:92`).
* An older answer that arrives after a push leaves the badge wrong until the next
  synchronisation; coming back to a project tells no socket (exceptions of
  `BellAgrees`).
* An event of another remark's run turns the card to that run, which then seems to
  work for ever; answers of the store have no order; the failure the sweeper
  writes, and a resumption that was lost, emit nothing (exceptions of `CardTells`).
* A mark of a handled notice that another tab overwrites from its stale copy lets
  two tabs ring (exception `lost` of `OneTabActs`).
* The login forgets the link: `authGuard` sends to `/login` without a way back,
  although `docs/adr/011-evidentiary-history.md:35` says that the card opens after
  the login; and a card no longer readable ends on the page "no access", unlike
  the comment at `guards.ts:68` (both in `NavigationLands`).
* An import whose process dies after the row loop starts no triage, although
  `imports.service.ts:124` says that a restart loses no rows: the rows are kept,
  their triage is not (`ImportIsAccounted`). A header with an unnamed column
  before a named one makes a full row look too long, or drops a cell.
* `fixRow` and the attached frame are two steps of a controller: a crash between
  them leaves an imported remark without a run.
* Overlapping index jobs may leave two copies of a section, or `failed` over a
  newer `indexed`; a document whose enqueue has failed, or whose job could not write
  `failed`, stays `uploaded` or `parsed` (exception `Forgotten` of `DocumentSettles`).

## 4. What is proved

All theorems hold for every value of the constants that satisfies the named
assumptions of the modules; these say no more than that bounds are natural numbers,
that settings are positive, that sets that are counted are finite, and that the
mark for *nobody* is not one of the values (`"none" \notin User`, `Project`,
`Device`). TLC evaluates each of them in a run.

### RemarkLifecycleProofs

`TypeCorrect`, `DecisionAlwaysStands` (`DecisionStands`), `ClosedIsQuiet`
(`NoRetestWhileClosed`), `HistoryIsTrue` (`HistoryTellsFrom`),
`DecisionsAreEntitled` (`EntitledDecision`), `MovesAreRecorded` (`EveryMoveIsRecorded`),
`MovesAreLegal` (`LegalMoves`), `TurnsAreTold` (`TurnsAreAnnounced`),
`OffersStayAccepted` (`OffersAreAccepted`), for any callers, keys and runs.

Types alone are not inductive: what a caller wrote is well typed only because of
what it has read. `CallOK` says for each operation which facts its checks have
established (`Checked`): a verdict in hand is one its author may give in the
status seen, a proposal was read in `triaging`, and so on. These facts are about
the snapshot, so no other caller can spoil them; `TypeInv` is `TypeOK /\ CallOK`.
`DecisionStands` then follows step by step: the only steps into a decided status
are verdicts, which write the verdict row in the same transaction, and the only
steps that leave the newest verdict behind also leave the decided statuses.
`NoRetestWhileClosed` needs the two guards of `close` and `beginRetest` together.
For the action properties, `OwnStep` and `CommitIsTransition` show that a commit
is the conditional update of the caller's own operation, and `AllowedIsSeen` that
for a verdict the accepted statuses are exactly the one read: that is why the
status checked is the status left. `StatusMoves` goes through every write once and
says of each change of status which kind it is of, by whose call, and which row it
leaves; the record, the arrows and the announcements are read off it.

What the card offers depends on the runs, so `OffersStayAccepted` needs a second
invariant, `CardInv`. What a caller knows of its run stays true while it waits
(`Knows`): it exists, it has its mode, and a cancellation that names the newest run
found it the newest. As long as a remark has had one comparison only (`Sole`), its
run is at work or waits only in the statuses of a retest, and it waits, or has
failed late, when its result is shown: then the replacement has a run to cancel.
With two comparisons this is false, and the run with two `Run`s did not reach the
state in which it matters: the proof stopped there, and a search with three runs,
over the operations on runs alone, found it. The exceptions `OldRetestRuns` and `VainReplace`
state what the code does; with them the same search ends without an error.

### RoundGateProofs

`RoundsStaySound` (`RoundsAreSound`), `RoundsOpenUndisturbed` (`OpensUndisturbed`),
`GateTypes`.

Nothing locks what it relies on for a whole request, so `GateInv` says for each
place a request may stand at what it has read that is still true (`CallIsSound`):
the number taken under the round's lock is one more than the round has remarks;
while a round is being opened nothing is pending and no number is larger, because
the insert of a remark and the events of a round wait for the project's lock;
an origin that was found closed is closed, since nothing leads out of closed; what
is to be linked is in one round, since remarks do not move. With `LocksExclude`
(one holder per lock) and `NumbersAreDense` (the numbers of a round are 1 to the
number of its remarks) this is inductive. Cardinality facts come from the
library's finite-set theorems.

### JobQueueProofs

`QueueTypes` (`TypeOK`), `DoneMeansComplete` (`DoneIsComplete`),
`JobsAreNotTakenTwice` (`NeverTakenTwice`), `LimitsAreHeld` (`LimitsHeld`),
`PromiseIsKept` (`Spec => P!Safety`: the safety half of `KeepsThePromise`), for any
processes, jobs, kinds, limits and faults.

`OwnershipInv`: whoever holds a job holds it alone, under a row that is running
and, unless the process is alone, fresh; a hand about to write `done` has
completed, one about to write `retry` has an attempt left. Every step keeps it
because a lock that somebody alive holds does not expire, and what is not fresh or
queued is held by nobody. `AttemptsArePaid` adds that a row free to be taken has
an attempt left or a fault to show for it; `RoomInv` that what a process has in
hand fits the limits and that it awaits one claim at a time - so that a claim
granted against `Saturated` still fits when its answer arrives. The refinement
goes step by step (`Owed`): an enqueue is the promise's request, a final write or a
cancellation its settlement, and everything else a stutter, which is where
`NeverTakenTwice` is used.

### RunOrchestratorProofs

`OrchestratorTypes` (`TypeOK`), `TriagingStaysWorkedOn` (`TriagingIsWorkedOn`),
`RunPromiseIsKept` (`Spec => P!Safety`: the safety half of `KeepsRunPromise`),
`RejectionsAreHeard` (`RejectionIsHeard`), for any number of runs, jobs, attempts,
rejections and faults.

`RowInv`: every run but the newest is over, and the status of the remark says of
the newest what `Agrees` lists. The first half is needed for the second: a sweep,
a failure or a late result of an old run would otherwise move the remark. Every
step is one of four kinds on the two tables (`RowStep`): none, *ready for retest*,
the beginning of a run when all others are over, or the move of the newest run
along `Follows`; the promise of a run follows from the same four.

`HeardInv` is about the way of an answer while nothing has failed. For a run that
is at work or waits and is not being cancelled (`Followed`) it says: one driver at
a time - a request about to enqueue, a job on its way, or a graph at a node
(`OneDriver`); a driver that has not reached the graph will find there what its
action needs - a rejection the checkpoint of a node already resumed, the pause
that has heard all answers but this one, or the proposal about to pause (`Finds`);
a graph at work has heard every rejection and its checkpoint says so (`HasHeard`);
a pause, or a proposal about to pause, has heard all of them, or all but the one
under way (`PausesRight`). Jobs, tasks and cancellations of runs nobody follows
cannot disturb it: an aborted node that may still write belongs to a run that is
no longer followed, and nobody follows it again (`PiecesFit`, `StaysUnfollowed`).
`Settled` - a resumption waits for the invocation before it - is what lets `Finds`
turn into `HasHeard`. TLC checked `HeardInv` before it was proved.

### AccessProofs

`LastPmStays` (`PmLostOnlyByOverlap`), `RoomsAreCurrent` (`RoomRoleIsCurrent`),
`TheRemovedStayOut` (`RemovedStaysOut`), `AccessTypes`; `SessionsStayCurrent`
(`SessionsAreCurrent`).

`AccessInv` says what a reading is still worth: a row read as alive belongs to a
member; a count of the other pms holds as long as nobody has written since
(`HasChecked`); a join nobody has overtaken has read the present role, or a recall
is on its way (`JoinsAsRead`); and for an outlaw there is no invitation.

`AccountInv` follows the data of a token from the row through the requests that
sign: no version is ahead of the account's; what was read or written under the
present version was so under the present password, unless the reading was
overlapped by a change (`sound`); a token stamped after the last change and of the
present version rests on the present password; a socket let in is valid or is
being recalled. The numeric bounds of `AccountsTypeOK` only make the instance
finite and stay with TLC; `AccountShape` is the same without them.

### WebClientProofs

`DecisionsAreKept` (`DecisionIsKept`), `PendingTypes`, for any number of
decisions; `OneTabEverActs` (`OneTabActs`), `AttentionTypes`, for any tabs and
notices.

`PendingInv`: what waits is told to wait, only what is being committed is on its
way, whoever waits beside a commit was taken behind it, what is held back or
was undone in time has never been sent, and no answer says of a decision that it is
applied unless it is (`AnswersAreTrue`) - which is why what the person is told is
settled has been applied, and once. `AttentionInv` says where the mark of a
notice is once a tab has acted on it: in the storage, and either in every tab's
copy or still guarded by the lock of its marker.

`CardsTell` (`CardTells`), `CardTypes`, for any cards, steps, reads and messages.
`RoomInv` takes the code's promises apart: a join of the present visit ends what the
server still has to take up, and every other room has a leave to come, unless the
room was left while the gateway still handled the join (`slipped`); what the tab
was told of its card is read already, or an answer as new is under way, or something
that makes it read again (`ToldIsRead`); the word that a run has stopped is behind
the last word that it is at work (`StopIsSeen`).

`BellsAgree` (`BellAgrees`), `BellTypes`, for any number of rows, pushes, calls and
turns and any `PAGE`. `BellInv` rests on the versions: whatever was computed is what
the tables said at its version, so it still holds of a row unless the row changed
since. Then a word of that change is under way (`NewComes`, `ReadComes`,
`RoleComes`), or the tab has heard of something later or will ask for everything
(`Behind`, `Moot`). The present version is always told or due (`VersionIsTold`). A
row the list shows and the person no longer sees lies below a full page of rows the
person does see (`Deep`), so the first page is right all the same (`SameFirstPage`).
An agreement of what is at rest says nothing of what is under way, hence is far from
inductive. TLC explored `BellInv` with 3 rows, pages of 1 and 2 turns before it was proved.

### GraphProofs

`SearchStaysComplete` (`SectionsStaySearchable`), `ProposalsAreSound`
(`SoundProposal`), `PassesAreBounded` (`CallsBounded`, the safe half of `PassEnds`),
`OutcomesAreGrounded` (`OutcomeHasGround`), for any sections, requests, limits of
the loops, search results and frames. The triage graph runs here beside every step
of the index, not only the one commit of run `graphs`.

`IndexInv`: every chunk carries the number of the transaction that wrote it, none is
ahead of the counter, and the sections present are all or none. `TriageInv` needs
just that numbering: a chunk the PM rejected is excluded from the results, or it has
been reindexed away, and then it never comes back, because a reindexing writes new
ids (`RejectedIsLost`). A rejection is by chunk id, in the code too: the same text
under its new id may be cited again. `CardIsSound` carries what the gate has checked to the card,
and says that the checkpoint excludes at the next rejection all the card cites.
`BudgetInv` ties the calls made to the counters in the graph's state and to the
node it is at (`CallsCounted`): a loop of the binding does not reopen the
rewritings.

`RetestInv` says what each node of the retest graph may rely on: frames that reach
`explain` were compared (`Comparable`), `judge_frames` belongs to the other
strategy, a result is grounded from `apply_retest` on, a region that is not the
empty one frames the change and stays under `REGION_RATIO` (`RegionFits`), and the
model speaks of none but such a region (`SpeaksOfRegion`). Its lemma `BoxFrames` is about every finite set of
pixels; it rests on finite sets of numbers having a least and a largest one
(`SetLemmas`). `FileAssumption` says that a picture has natural sides and finitely
many pixels. The bounds on ids in the type properties stay with TLC: the proofs
let the counter of transactions grow.

### Model-checked only

* Liveness under fairness: the other halves of `KeepsThePromise` and
  `KeepsRunPromise`, `PassEnds`, `DocumentSettles`. The prover has no rule for
  ENABLED here.
* What a recursive or folded definition computes: `ChunksKeepText`,
  `ImportIsAccounted`, which need induction over the text or the rows.
* Type properties of the composed modules (`TeamTypeOK`, and `TypeOK` of `graphs`
  and `access`), which choose by `mode`; their parts are proved where listed.
* `NavigationLands`: Navigation has no constants and no bounds, so the run `team`
  visits all its states and a proof would add nothing.

## 5. What is not modelled

* **Storage and media**: file I/O. **Cross-cutting services**: configuration,
  health, tracing, error texts. **Evaluation and seed tools**: one call at a time
  over the same services. **MCP facade**: a client of the REST API.
* Of modelled components: the view of a remark for each audience (`remark.dto.ts`)
  and the read filters; ranking and fusion of searches (any visible chunk may be
  found); serialisation of checkpoints; pruning of settled jobs; presence;
  registration and profile; slugs; the bytes of csv, xlsx, docx, pdf; prompts and
  scores; the pages' contents, styles and texts. These are computations over data
  or plain I/O without protocol state, and they are most of the lines no
  definition of `map` covers.
* Lock order inside a transaction: transactions are atomic here, so the deadlock
  between `failRun` (run, then remark) and the other handlers (remark, then run),
  which Postgres resolves by aborting one, appears only as a write of `failRun`
  that fails (`Fails` of RunOrchestrator).
* A fan-out of notifications that fails under its savepoint: Postgres undoes it
  and the transaction goes on.

## 6. Plan

Every safety property of the passing runs is proved, except those section 4 leaves
to TLC for the reasons given there.

What would extend the model: presence in rooms, the queue rail of the client, the
views of a remark for each audience.
