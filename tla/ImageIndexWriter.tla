--------------------------- MODULE ImageIndexWriter ---------------------------
(***************************************************************************)
(* nga_tools/backup/image_index_writer.py: one thread that writes the      *)
(* mapping rows of all the pipelines of a command to image_index.sqlite3.  *)
(* A submitter checks the writer, puts its request into a bounded queue    *)
(* and keeps the future; the thread coalesces what is queued into          *)
(* transactions of at most MaxRows rows and answers the futures; close()   *)
(* puts a stop request behind what was accepted and joins the thread.      *)
(*                                                                         *)
(* Row k of request r is <<r, k>>.  SQLite is one atomic commit or failure *)
(* for each transaction; the metrics are left out.                         *)
(***************************************************************************)
EXTENDS Naturals, Sequences, FiniteSets, SequencesExt

CONSTANTS Requests,       \* the calls of submit()
          RowCount,       \* RowCount[r]: the rows of request r
          QueueCapacity,  \* _QUEUE_CAPACITY
          MaxRows,        \* _MAX_TRANSACTION_ROWS
          CloseAfterSubmits,  \* close() is called when no submit() runs
          Stop            \* the _StopRequest

ASSUME WriterAssumption ==
  /\ RowCount \in [Requests -> Nat]
  /\ QueueCapacity \in Nat \ {0} /\ MaxRows \in Nat \ {0}
  /\ CloseAfterSubmits \in BOOLEAN
  /\ Stop \notin Requests

RowsOf(r) == {r} \X (1..RowCount[r])
Rows == UNION {RowsOf(r) : r \in Requests}

VARIABLES
  queue,      \* _queue
  closed,     \* _closed
  fatal,      \* _fatal_error is set
  thread,     \* the writer thread
  requests,   \* the requests it has taken from the queue
  unwritten,  \* the rows of those not yet in a committed transaction
  stopping,   \* stop_after_batch
  submitter,  \* where each call of submit() is
  closer,     \* where close() is
  future, rows, durable  \* as in MappingWriter

threadVars == <<thread, requests, unwritten, stopping>>
indexVars == <<future, rows, durable>>
vars == <<queue, closed, fatal, threadVars, submitter, closer, indexVars>>

Init ==
  /\ queue = <<>> /\ closed = FALSE /\ fatal = FALSE
  /\ thread = "none" /\ requests = <<>> /\ unwritten = <<>> /\ stopping = FALSE
  /\ submitter = [r \in Requests |-> "new"] /\ closer = "open"
  /\ future = [r \in Requests |-> "none"]
  /\ rows = [r \in Requests |-> {}]
  /\ durable = {}

Answer(r, f) == future' = [future EXCEPT ![r] = f]
SubmitterAt(r, s) == submitter' = [submitter EXCEPT ![r] = s]

-----------------------------------------------------------------------------
(* submit()                                                                *)

\* No rows: an answered future, whatever the state of the writer.
SubmitNothing(r) ==
  /\ submitter[r] = "new" /\ RowCount[r] = 0
  /\ SubmitterAt(r, "submitted") /\ Answer(r, "done")
  /\ UNCHANGED <<queue, closed, fatal, threadVars, closer, rows, durable>>

Refuses == closed \/ fatal

\* _ensure_started; the caller of a refused submit() has a failed future.
EnsureStarted(r) ==
  /\ submitter[r] = "new" /\ RowCount[r] > 0
  /\ IF Refuses
     THEN /\ SubmitterAt(r, "submitted") /\ Answer(r, "failed")
          /\ rows' = [rows EXCEPT ![r] = RowsOf(r)]
          /\ UNCHANGED thread
     ELSE /\ SubmitterAt(r, "put")
          /\ thread' = IF thread = "none" THEN "connect" ELSE thread
          /\ UNCHANGED <<future, rows>>
  /\ UNCHANGED <<queue, closed, fatal, requests, unwritten, stopping, closer, durable>>

HasRoom == Len(queue) < QueueCapacity

\* queue.put blocks while the queue is full; it is not under the lock that
\* close() takes.
PutRequest(r) ==
  /\ submitter[r] = "put" /\ HasRoom
  /\ queue' = Append(queue, r)
  /\ SubmitterAt(r, "submitted") /\ Answer(r, "pending")
  /\ rows' = [rows EXCEPT ![r] = RowsOf(r)]
  /\ UNCHANGED <<closed, fatal, threadVars, closer, durable>>

-----------------------------------------------------------------------------
(* _thread_main                                                            *)

\* Mutant: the thread returns at once when it cannot connect.
AfterFatalExit == "exited"
AfterFatal == "failing"

Connect ==
  /\ thread = "connect"
  /\ \/ thread' = "get" /\ UNCHANGED fatal
     \/ thread' = AfterFatal /\ fatal' = TRUE
  /\ UNCHANGED <<queue, closed, requests, unwritten, stopping, submitter, closer, indexVars>>

RowSeq(r) == [k \in 1..RowCount[r] |-> <<r, k>>]

\* Mutant: a stop found while coalescing is dropped.
StopMissed(item) == stopping
StopSeen(item) == item = Stop

\* queue.get for the first request of a batch, get_nowait for the others.
Get ==
  /\ thread = "get" /\ queue # <<>>
  /\ queue' = Tail(queue)
  /\ IF Head(queue) = Stop
     THEN thread' = "exited" /\ UNCHANGED <<requests, unwritten>>
     ELSE /\ thread' = "coalesce"
          /\ requests' = <<Head(queue)>>
          /\ unwritten' = RowSeq(Head(queue))
  /\ UNCHANGED <<closed, fatal, stopping, submitter, closer, indexVars>>

\* Mutant: the rows of a coalesced request are taken, its future is not.
JoinBatchRowsOnly(r) == requests
JoinBatch(r) == Append(requests, r)

Coalesce ==
  /\ thread = "coalesce"
  /\ IF Len(unwritten) >= MaxRows \/ queue = <<>>
     THEN thread' = "write" /\ UNCHANGED <<queue, requests, unwritten, stopping>>
     ELSE /\ queue' = Tail(queue)
          /\ IF Head(queue) = Stop
             THEN /\ stopping' = StopSeen(Head(queue)) /\ thread' = "write"
                  /\ UNCHANGED <<requests, unwritten>>
             ELSE /\ requests' = JoinBatch(Head(queue))
                  /\ unwritten' = unwritten \o RowSeq(Head(queue))
                  /\ UNCHANGED <<stopping, thread>>
  /\ UNCHANGED <<closed, fatal, submitter, closer, indexVars>>

\* The rows of one transaction.
Chunk == SubSeq(unwritten, 1, IF Len(unwritten) < MaxRows THEN Len(unwritten) ELSE MaxRows)

\* _write_requests: one transaction of the batch, or a failure that ends it.
Write ==
  /\ thread = "write" /\ unwritten # <<>>
  /\ \/ /\ durable' = durable \union ToSet(Chunk)
        /\ unwritten' = SubSeq(unwritten, Len(Chunk) + 1, Len(unwritten))
        /\ UNCHANGED thread
     \/ thread' = "fail" /\ UNCHANGED <<durable, unwritten>>
  /\ UNCHANGED <<queue, closed, fatal, requests, stopping, submitter, closer, future, rows>>

\* The futures of the batch, one after the other.  Mutant: they are answered
\* with success whatever the transactions did.
AnswerOfAlways(state) == "done"
AnswerOf(state) == IF state = "fail" THEN "failed" ELSE "done"

Resolve ==
  /\ \/ thread = "write" /\ unwritten = <<>>
     \/ thread = "fail"
  /\ IF requests = <<>>
     THEN /\ thread' = IF stopping THEN "exited" ELSE "get"
          /\ unwritten' = <<>>
          /\ UNCHANGED <<requests, future>>
     ELSE /\ Answer(Head(requests), AnswerOf(thread))
          /\ requests' = Tail(requests)
          /\ UNCHANGED <<thread, unwritten>>
  /\ UNCHANGED <<queue, closed, fatal, stopping, submitter, closer, rows, durable>>

\* _fail_queued_requests, until the stop request.
FailQueued ==
  /\ thread = "failing" /\ queue # <<>>
  /\ queue' = Tail(queue)
  /\ IF Head(queue) = Stop
     THEN thread' = "exited" /\ UNCHANGED future
     ELSE Answer(Head(queue), "failed") /\ UNCHANGED thread
  /\ UNCHANGED <<closed, fatal, requests, unwritten, stopping, submitter, closer, rows, durable>>

-----------------------------------------------------------------------------
(* close()                                                                 *)

BeginClose ==
  /\ closer = "open"
  /\ CloseAfterSubmits => \A r \in Requests : submitter[r] # "put"
  /\ closed' = TRUE
  /\ closer' = IF thread = "none" THEN "closed" ELSE "put"
  /\ UNCHANGED <<queue, fatal, threadVars, submitter, indexVars>>

PutStop ==
  /\ closer = "put" /\ HasRoom
  /\ queue' = Append(queue, Stop)
  /\ closer' = "join"
  /\ UNCHANGED <<closed, fatal, threadVars, submitter, indexVars>>

Join ==
  /\ closer = "join" /\ thread = "exited"
  /\ closer' = "closed"
  /\ UNCHANGED <<queue, closed, fatal, threadVars, submitter, indexVars>>

Terminated ==
  /\ closer = "closed" /\ \A r \in Requests : submitter[r] = "submitted"
  /\ UNCHANGED vars

Next ==
  \/ \E r \in Requests : SubmitNothing(r) \/ EnsureStarted(r) \/ PutRequest(r)
  \/ Connect \/ Get \/ Coalesce \/ Write \/ Resolve \/ FailQueued
  \/ BeginClose \/ PutStop \/ Join \/ Terminated

Spec == Init /\ [][Next]_vars

Fairness ==
  /\ \A r \in Requests : WF_vars(PutRequest(r))
  /\ WF_vars(Connect \/ Get \/ Coalesce \/ Write \/ Resolve \/ FailQueued)
  /\ WF_vars(PutStop \/ Join)
FairSpec == Spec /\ Fairness

-----------------------------------------------------------------------------
\* Type invariant.
TypeOK ==
  /\ queue \in Seq(Requests \union {Stop}) /\ Len(queue) <= QueueCapacity
  /\ closed \in BOOLEAN /\ fatal \in BOOLEAN /\ stopping \in BOOLEAN
  /\ thread \in {"none", "connect", "get", "coalesce", "write", "fail",
                 "failing", "exited"}
  /\ requests \in Seq(Requests) /\ unwritten \in Seq(Rows)
  /\ submitter \in [Requests -> {"new", "put", "submitted"}]
  /\ closer \in {"open", "put", "join", "closed"}
  /\ future \in [Requests -> {"none", "pending", "done", "failed"}]
  /\ rows \in [Requests -> SUBSET Rows] /\ durable \subseteq Rows

\* A request is pending in exactly one place: once in the queue or once in the
\* batch of the thread.
PendingHeldOnce ==
  LET held == queue \o requests IN
  \A r \in Requests :
    future[r] = "pending" <=> Cardinality({i \in 1..Len(held) : held[i] = r}) = 1

\* The queue is served in order: the stop request is behind every request that
\* was accepted, so close() loses none of them.
NothingBehindStop ==
  \A i \in 1..Len(queue) : queue[i] = Stop => i = Len(queue)

\* The writer keeps the promise its callers rely on.
Promise == INSTANCE MappingWriter
ImplementsMappingWriter == Promise!WriterSpec

\* An accepted request is answered, and close() returns.
RequestsAnswered ==
  \A r \in Requests : future[r] = "pending" ~> future[r] \in {"done", "failed"}
CloseReturns == closer # "open" ~> closer = "closed"

\* The requests on their way are where they can be answered.
RequestsAreHeld == TypeOK /\ PendingHeldOnce /\ NothingBehindStop

\* Neither the pipelines nor the command wait for the writer for ever.
NobodyWaitsForEver == RequestsAnswered /\ CloseReturns
=============================================================================
