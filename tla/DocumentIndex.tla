---------------------------- MODULE DocumentIndex ----------------------------
(***************************************************************************)
(* One document of the project and its chunks                              *)
(* (src/apps/api/src/documents/documents.service.ts, rag/rag.service.ts).  *)
(* Chunks are written and deleted by document, so documents do not meet.   *)
(*                                                                         *)
(* A request writes the row of the document and then enqueues a job, and   *)
(* two jobs of one document may run at a time (two requests, maxConcurrent *)
(* 2).  The transaction of a job is two steps, because the rows it deletes *)
(* are the ones its first statement sees (READ COMMITTED): what another    *)
(* job commits in between stays.  Chunk rows have fresh ids on every write,*)
(* so a chunk is a section with the number of the write that made it.      *)
(***************************************************************************)
EXTENDS Integers, FiniteSets

CONSTANTS
  Section,       \* what chunkByHeadings cuts the text into
  Request,       \* bound on the uploads and reindexings asked for
  MaxAttempts,   \* Job.maxAttempts
  MaxIndexFaults \* bound on the crashes of the process and on last writes lost

ASSUME DocumentAssumption ==
  /\ IsFiniteSet(Section) /\ Section # {} /\ IsFiniteSet(Request)
  /\ MaxAttempts \in Nat \ {0} /\ MaxIndexFaults \in Nat

VARIABLES
  docStatus, \* Document.status
  chunks,    \* rows of table DocumentChunk
  writes,    \* how many indexings have committed (the id of the next chunks)
  index,     \* for each request, how far it and its job have come
  indexFaults

indexVars == <<docStatus, chunks, writes, index, indexFaults>>

MaxWrites == 1 + Cardinality(Request) * (1 + MaxIndexFaults)
Chunk == (1..MaxWrites) \X Section
SectionOf(c) == c[2]
Fresh == {writes + 1} \X Section

(* owed: the row is written, the job is not enqueued; parsed: the text is  *)
(* there and is being embedded; writing: inside the transaction; retrying: *)
(* a temporary error has left indexDocument, the way back to `uploaded` is *)
(* not written; returned: the handler is done, the row of the job is not;  *)
(* unsaid: so it is, and its failure is not on the document; lost: nobody  *)
(* looks after the document for this request any more.                     *)
UnderWay == {"owed", "queued", "parsed", "retrying", "writing", "returned", "unsaid"}
IndexStep == UnderWay \cup {"unasked", "lost", "done"}

NoIndexJob == [step |-> "unasked", attempts |-> 0, victims |-> {}]

IndexTypeOK ==
  /\ docStatus \in {"absent", "uploaded", "parsed", "indexed", "failed"}
  /\ chunks \subseteq Chunk
  /\ writes \in 0..MaxWrites
  /\ index \in [Request -> [step : IndexStep, attempts : 0..MaxAttempts,
                            victims : SUBSET Chunk]]
  /\ indexFaults \in 0..MaxIndexFaults

(* A new project, or one whose document is indexed already.                *)
IndexInit ==
  /\ \/ docStatus = "absent"  /\ writes = 0 /\ chunks = {}
     \/ docStatus = "indexed" /\ writes = 1 /\ chunks = {1} \X Section
  /\ index = [q \in Request |-> NoIndexJob]
  /\ indexFaults = 0

-----------------------------------------------------------------------------
Go(q, from, to) ==
  /\ index[q].step = from
  /\ index' = [index EXCEPT ![q].step = to]

(* upload creates the row, reindex resets its status, at any moment.       *)
AskIndex(q) ==
  /\ Go(q, "unasked", "owed")
  /\ docStatus' = "uploaded"
  /\ UNCHANGED <<chunks, writes, indexFaults>>

(* The enqueue is a write of its own and may fail.                         *)
EnqueueIndex(q) ==
  /\ \E to \in {"queued", "lost"} : Go(q, "owed", to)
  /\ UNCHANGED <<docStatus, chunks, writes, indexFaults>>

(* A crash gives no attempt back, and a job is taken all the same.         *)
OneMore(n) == IF n < MaxAttempts THEN n + 1 ELSE n

(* The attempt a job is in, counted here when it leaves the queue.         *)
Tried(q) == IF index[q].step = "queued" THEN OneMore(index[q].attempts) ELSE index[q].attempts

Fails(q, to) ==
  /\ index[q].step \in {"queued", "parsed", "writing"}
  /\ index' = [index EXCEPT ![q] = [step |-> to, attempts |-> Tried(q), victims |-> {}]]
  /\ UNCHANGED <<chunks, writes, indexFaults>>

(* The file is read and its text extracted.                                *)
Extract(q) ==
  /\ index[q].step = "queued"
  /\ docStatus' = "parsed"
  /\ index' = [index EXCEPT ![q].attempts = Tried(q), ![q].step = "parsed"]
  /\ UNCHANGED <<chunks, writes, indexFaults>>

(* A lasting failure, or the last attempt: no such file, no text in it, no *)
(* embeddings, a transaction that is rolled back.  The document reads      *)
(* `failed`, whatever another job has made of it - unless the row could    *)
(* not be read in the first place, or this very write fails: an error of   *)
(* the database is not retried.                                            *)
FailIndex(q) ==
  \/ Fails(q, "returned") /\ docStatus' = "failed"
  \/ Fails(q, "unsaid") /\ UNCHANGED docStatus

(* A temporary one while attempts are left, written to the document or not.*)
FailForNow(q) ==
  /\ Tried(q) < MaxAttempts
  /\ Fails(q, "retrying")
  /\ docStatus' \in {docStatus, "failed"}

(* Mutant: the retry of a temporary failure is never queued.               *)
RetryForgotten(q) ==
  /\ Go(q, "retrying", "done")
  /\ docStatus' = "uploaded"
  /\ UNCHANGED <<chunks, writes, indexFaults>>

(* indexJob gives the document back, if it can, and the queue the job.     *)
RetryIndex(q) ==
  /\ Go(q, "retrying", "queued")
  /\ docStatus' \in {docStatus, "uploaded"}
  /\ UNCHANGED <<chunks, writes, indexFaults>>

(* Mutant: the old chunks are deleted outside the transaction.             *)
DeleteAtOnce(q) ==
  /\ Go(q, "parsed", "writing")
  /\ chunks' = {}
  /\ UNCHANGED <<docStatus, writes, indexFaults>>

DeleteOld(q) ==
  /\ index[q].step = "parsed"
  /\ index' = [index EXCEPT ![q].step = "writing", ![q].victims = chunks]
  /\ UNCHANGED <<docStatus, chunks, writes, indexFaults>>

CommitIndex(q) ==
  /\ index[q].step = "writing"
  /\ chunks' = (chunks \ index[q].victims) \cup Fresh
  /\ writes' = writes + 1
  /\ docStatus' = "indexed"
  /\ index' = [index EXCEPT ![q].step = "returned", ![q].victims = {}]
  /\ UNCHANGED indexFaults

(* The job is settled, as done or as failed.                               *)
FinishIndex(q) ==
  /\ Go(q, "returned", "done") \/ Go(q, "unsaid", "lost")
  /\ UNCHANGED <<docStatus, chunks, writes, indexFaults>>

(* Its last write is lost, and the sweep gives the job back.               *)
SweepIndex(q) ==
  /\ indexFaults < MaxIndexFaults
  /\ indexFaults' = indexFaults + 1
  /\ Go(q, "returned", "queued") \/ Go(q, "unsaid", "queued")
  /\ UNCHANGED <<docStatus, chunks, writes>>

(* The process dies: transactions roll back, jobs go back to the queue, a  *)
(* request between its two writes has no job.                              *)
AfterCrash(j) ==
  CASE j.step = "owed" -> [j EXCEPT !.step = "lost"]
    [] j.step \in {"parsed", "retrying", "writing", "returned", "unsaid"} ->
         [j EXCEPT !.step = "queued", !.victims = {}]
    [] OTHER -> j

CrashIndex ==
  /\ indexFaults < MaxIndexFaults
  /\ indexFaults' = indexFaults + 1
  /\ index' = [q \in Request |-> AfterCrash(index[q])]
  /\ UNCHANGED <<docStatus, chunks, writes>>

IndexWork(q) ==
  \/ EnqueueIndex(q) \/ Extract(q) \/ FailIndex(q) \/ FailForNow(q) \/ RetryIndex(q)
  \/ DeleteOld(q) \/ CommitIndex(q) \/ FinishIndex(q)

IndexNext == CrashIndex \/ \E q \in Request : AskIndex(q) \/ IndexWork(q) \/ SweepIndex(q)

(* A request goes on to its second write, the queue works its jobs off.    *)
IndexFairness == \A q \in Request : WF_indexVars(IndexWork(q))

-----------------------------------------------------------------------------
(* Once a document has been indexed, all of it can be found: no reindexing,*)
(* overlapping with another or dying half-way, leaves a search without a   *)
(* section.  (It may leave two copies of each, see the README.)            *)
SectionsStaySearchable ==
  writes > 0 => {SectionOf(c) : c \in chunks} = Section

(* Nobody is at work on the document, and a request for it was let go: its *)
(* job was never enqueued, or has failed without a word on the document.   *)
Forgotten ==
  /\ \A q \in Request : index[q].step \notin UnderWay
  /\ \E q \in Request : index[q].step = "lost"

(* A document that is uploaded or parsed ends up indexed or failed, through*)
(* retries, crashes and overlapping jobs.  It may stay as it is only when  *)
(* it is forgotten: the enqueue after its row has not happened             *)
(* (documents.service.ts:85, 94), or the row could not be read or the      *)
(* `failed` not written by the job that failed (rag.service.ts:88, 123).   *)
(* Which of two overlapping jobs has the last word is not promised: an     *)
(* older failure may leave `failed` over the newer `indexed`, with all     *)
(* sections to be found.                                                   *)
DocumentSettles ==
  (docStatus \in {"uploaded", "parsed"})
    ~> (docStatus \in {"indexed", "failed"} \/ Forgotten)
=============================================================================
