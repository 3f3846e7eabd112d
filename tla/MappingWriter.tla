---------------------------- MODULE MappingWriter ----------------------------
(***************************************************************************)
(* What the threads that store images rely on when they hand rows to the   *)
(* image index (ImageIndexStore.enqueue_mappings): a future that is "done" *)
(* means that every row of its request is committed.  A future that is     *)
(* "failed" says nothing: the rows may have been committed all the same.   *)
(* ImageIndexWriter implements this; ImageDownloadPipeline uses it.        *)
(***************************************************************************)
EXTENDS Naturals

CONSTANTS Requests,  \* one per enqueue_mappings call
          Rows       \* the (url, path) rows

VARIABLES future,    \* "none", "pending", "done" or "failed"
          rows,      \* the rows of each request that was made
          durable    \* the rows some transaction has committed

writerVars == <<future, rows, durable>>

WriterInit ==
  /\ future = [r \in Requests |-> "none"]
  /\ rows = [r \in Requests |-> {}]
  /\ durable = {}

\* A request is accepted ("pending"), or refused by a writer that is closed or
\* has failed ("failed"); one without rows needs no writer ("done").
Submit(r, R, answer) ==
  /\ future[r] = "none" /\ answer \in {"pending", "failed", "done"}
  /\ answer = "done" => R = {}
  /\ future' = [future EXCEPT ![r] = answer]
  /\ rows' = [rows EXCEPT ![r] = R]
  /\ UNCHANGED durable

PendingRows == UNION {rows[r] : r \in {q \in Requests : future[q] = "pending"}}

Commit(S) ==
  /\ S # {} /\ S \subseteq PendingRows
  /\ durable' = durable \union S
  /\ UNCHANGED <<future, rows>>

Succeed(r) ==
  /\ future[r] = "pending" /\ rows[r] \subseteq durable
  /\ future' = [future EXCEPT ![r] = "done"]
  /\ UNCHANGED <<rows, durable>>

Fail(r) ==
  /\ future[r] = "pending"
  /\ future' = [future EXCEPT ![r] = "failed"]
  /\ UNCHANGED <<rows, durable>>

WriterNext ==
  \/ \E r \in Requests, R \in SUBSET Rows, answer \in {"pending", "failed", "done"} :
       Submit(r, R, answer)
  \/ \E S \in SUBSET Rows : Commit(S)
  \/ \E r \in Requests : Succeed(r) \/ Fail(r)

WriterSpec == WriterInit /\ [][WriterNext]_writerVars
=============================================================================
