------------------------ MODULE ImageDownloadPipeline ------------------------
(***************************************************************************)
(* nga_tools/backup/image_store.py: the image downloads of the threads     *)
(* that are backed up in parallel.  Each pipeline (_ImageDownloadPipeline) *)
(* runs in a thread of its own.  It claims the URLs of its tasks in a      *)
(* table all pipelines share, downloads the ones it owns, hands each file  *)
(* to the store workers and each stored file to the index writer, releases *)
(* the claims with their results, and then waits for the claims of others. *)
(*                                                                         *)
(* A claim object is named by the task that created it.  The two deques    *)
(* and the list of the code are storeQueue, batches and results; the       *)
(* nested blocking drains are the goals of a pipeline: mapGoal is worked   *)
(* off first, then the failure that is owed, then storeGoal, and only then *)
(* does the code after the drain (pc) go on.  Files, URLs and messages are *)
(* left out; the writer is the one of MappingWriter.                       *)
(***************************************************************************)
EXTENDS Naturals, Sequences, FiniteSets

CONSTANTS Pipelines,    \* the threads that download images
          NTasks,       \* NTasks[p]: the number of tasks of p
          Keys,         \* claim keys: attachment identities
          KeyOf,        \* KeyOf[t]: the claim key of the URL of task t
          StoreLimit,   \* image_store_pending_limit()
          ResultLimit,  \* _MAX_PENDING_IMAGE_MAPPING_RESULTS
          BatchLimit,   \* _MAX_PENDING_IMAGE_MAPPING_BATCHES
          Faults,       \* what may go wrong outside this code
          None          \* no task

ASSUME TasksAssumption == NTasks \in [Pipelines -> Nat]

Tasks == UNION {{p} \X (1..NTasks[p]) : p \in Pipelines}
TasksOf(p) == {t \in Tasks : t[1] = p}

FaultKinds == {"download", "store", "mapping", "stream", "callback",
               "setup", "lostfile"}

ASSUME PipelineAssumption ==
  /\ KeyOf \in [Tasks -> Keys]
  /\ StoreLimit \in Nat \ {0} /\ ResultLimit \in Nat \ {0}
  /\ BatchLimit \in Nat \ {0, 1}
  /\ Faults \subseteq FaultKinds
  /\ None \notin Tasks

VARIABLES
  claims,      \* _IMAGE_URL_CLAIMS: key -> open claim, or None
  memo,        \* _COMPLETED_IMAGE_URL_CLAIMS: the keys with a stored file
  claim,       \* the state of each claim object
  waitsOn,     \* the claim a waiter holds; None while not a waiter
  pc,          \* where each pipeline is
  cursor,      \* the task _claim_tasks or _finish_waiters looks at
  pending,     \* _owner_by_temp_path: owned, not yet handed to the store
  current,     \* the task of the download result being handled
  storeQueue,  \* _pending_store_results
  stored,      \* the future of the store work of each task
  results,     \* _pending_mapping_results
  batches,     \* _pending_mapping_batches
  mapGoal,     \* what _drain_mapping_batches still has to do
  storeGoal,   \* what _drain_store_results still has to do
  owed,        \* the task whose store failed, to be released after the flush
  emitting,    \* emit_progress
  emitted,     \* the results given to on_progress
  future, rows, durable  \* the index writer (MappingWriter)

INSTANCE MappingWriter WITH Requests <- Tasks, Rows <- Tasks

claimVars == <<claims, memo, claim>>
taskVars == <<waitsOn, pending, current>>
storeVars == <<storeQueue, stored>>
mapVars == <<results, batches>>
goalVars == <<mapGoal, storeGoal, owed, emitting>>
controlVars == <<pc, cursor>>
indexVars == <<future, rows, durable>>
vars == <<claimVars, taskVars, storeVars, mapVars, goalVars, controlVars,
          emitted, indexVars>>

Put(f, p, v) == [f EXCEPT ![p] = v]

-----------------------------------------------------------------------------
Init ==
  /\ claims = [k \in Keys |-> None] /\ memo = {}
  /\ claim = [t \in Tasks |-> "none"]
  /\ waitsOn = [t \in Tasks |-> None]
  /\ pc = [p \in Pipelines |-> "claim"] /\ cursor = [p \in Pipelines |-> 1]
  /\ pending = [p \in Pipelines |-> {}] /\ current = [p \in Pipelines |-> None]
  /\ storeQueue = [p \in Pipelines |-> <<>>]
  /\ stored = [t \in Tasks |-> "none"]
  /\ results = [p \in Pipelines |-> <<>>] /\ batches = [p \in Pipelines |-> <<>>]
  /\ mapGoal = [p \in Pipelines |-> "none"]
  /\ storeGoal = [p \in Pipelines |-> "none"]
  /\ owed = [p \in Pipelines |-> None]
  /\ emitting = [p \in Pipelines |-> TRUE]
  /\ emitted = [p \in Pipelines |-> <<>>]
  /\ WriterInit

-----------------------------------------------------------------------------
(* The claim table: one critical section each.                             *)

\* Mutant: an open claim of another thread is not looked up.
OpenClaimIgnored(k) == FALSE
OpenClaim(k) == claims[k] # None

\* _claim_image_url for the task under the cursor.
Claim(p) ==
  LET t == <<p, cursor[p]>>
      k == KeyOf[t]
      own == /\ claims' = Put(claims, k, t)
             /\ claim' = Put(claim, t, "open")
             /\ pending' = Put(pending, p, pending[p] \union {t})
             /\ UNCHANGED waitsOn
  IN
  /\ pc[p] = "claim" /\ cursor[p] <= NTasks[p]
  /\ \/ \* another task is downloading it
        /\ OpenClaim(k)
        /\ waitsOn' = Put(waitsOn, t, claims[k])
        /\ UNCHANGED <<claimVars, pending>>
     \/ \* downloaded before, and the file is still valid: a completed claim
        /\ ~OpenClaim(k) /\ k \in memo
        /\ claim' = Put(claim, t, "ok")
        /\ waitsOn' = Put(waitsOn, t, t)
        /\ UNCHANGED <<claims, memo, pending>>
     \/ \* downloaded before, but the file is gone
        /\ ~OpenClaim(k) /\ k \in memo /\ "lostfile" \in Faults
        /\ memo' = memo \ {k} /\ own
     \/ ~OpenClaim(k) /\ k \notin memo /\ UNCHANGED memo /\ own
  /\ cursor' = Put(cursor, p, cursor[p] + 1)
  /\ UNCHANGED <<pc, current, storeVars, mapVars, goalVars, emitted, indexVars>>

\* _release_image_url_claim: o is "ok", "failed" (a result that says so) or
\* "error".
Release(t, o) ==
  /\ claim' = Put(claim, t, o)
  /\ memo' = IF o = "ok" THEN memo \union {KeyOf[t]} ELSE memo \ {KeyOf[t]}
  /\ claims' = IF claims[KeyOf[t]] = t THEN Put(claims, KeyOf[t], None) ELSE claims

-----------------------------------------------------------------------------
(* Goals.  A drain is over when its deque is empty; one that does not block *)
(* ("ready") is also left when the head of the deque is not finished.       *)

MapsIdle(p) ==
  mapGoal[p] = "none" \/ (batches[p] = <<>> /\ mapGoal[p] \in {"one", "ready", "all"})
\* Mutant: the drains of the store work never block.
StoresIdleReady(p) ==
  \/ storeGoal[p] = "none" \/ storeQueue[p] = <<>>
  \/ storeQueue[p] # <<>> /\ stored[Head(storeQueue[p])] = "pending"
StoresIdle(p) == storeGoal[p] = "none" \/ storeQueue[p] = <<>>
Settled(p) == MapsIdle(p) /\ owed[p] = None /\ StoresIdle(p)

\* The code after the drains goes on at l with the goals it sets next.
Goal(p, m, s) == mapGoal' = Put(mapGoal, p, m) /\ storeGoal' = Put(storeGoal, p, s)
Goto(p, l) == pc' = Put(pc, p, l)

\* An exception in _download_owned_tasks: drain everything without progress.
\* What was only a local variable of the code that raised (owed) is forgotten.
Abort(p) ==
  /\ Goto(p, "abort") /\ Goal(p, "none", "all")
  /\ owed' = Put(owed, p, None) /\ emitting' = Put(emitting, p, FALSE)
  /\ current' = Put(current, p, None)

\* _emit_result, whose callback may raise; ok and raised are what follows.
Emit(p, t, o) == emitted' = Put(emitted, p, Append(emitted[p], <<t, o>>))
MayRaise(p) == emitting[p] /\ "callback" \in Faults

\* The end of the except block, and of the pipeline, by an exception: what it
\* has not drained or released by then stays as it is.
GiveUp(p) ==
  /\ Goto(p, "raised") /\ Goal(p, "none", "none")
  /\ owed' = Put(owed, p, None)
  /\ UNCHANGED <<emitting, current>>

\* _submit_pending_mapping_results, which waits for the oldest batch when there
\* are too many and else collects the finished ones; a flush then waits for all
\* (_flush_all_mappings).  With progress its two drains do the same and are one
\* here; without, only the second one suppresses the error of a batch.
SubmitResults(p, R, flush) ==
  IF R = <<>>
  THEN /\ mapGoal' = Put(mapGoal, p, IF flush THEN "all" ELSE "none")
       /\ results' = Put(results, p, R)
       /\ UNCHANGED <<batches, indexVars>>
  ELSE /\ results' = Put(results, p, <<>>)
       /\ batches' = Put(batches, p, Append(batches[p], [id |-> Head(R), items |-> R]))
       /\ LET rs == {R[i] : i \in 1..Len(R)}
          IN  \/ Submit(Head(R), rs, "pending")
              \/ "mapping" \in Faults /\ Submit(Head(R), rs, "failed")
       /\ LET full == Len(batches[p]) + 1 >= BatchLimit
          IN  mapGoal' = Put(mapGoal, p,
                CASE flush /\ emitting[p]         -> "all"
                  [] flush /\ ~emitting[p] /\ full  -> "one_then_all"
                  [] flush /\ ~emitting[p] /\ ~full -> "ready_then_all"
                  [] ~flush /\ full                -> "one"
                  [] ~flush /\ ~full               -> "ready")

\* The head of the deque is not finished: a drain that does not block ends, and
\* a flush goes on with its second drain.
LeaveDrain(p) ==
  /\ \/ /\ mapGoal[p] \in {"ready", "ready_then_all"} /\ batches[p] # <<>>
        /\ future[Head(batches[p]).id] = "pending"
        /\ mapGoal' = Put(mapGoal, p, IF mapGoal[p] = "ready" THEN "none" ELSE "all")
        /\ UNCHANGED storeGoal
     \/ /\ mapGoal[p] = "ready_then_all" /\ batches[p] = <<>>
        /\ mapGoal' = Put(mapGoal, p, "none") /\ UNCHANGED storeGoal
     \/ /\ storeGoal[p] = "ready" /\ MapsIdle(p) /\ owed[p] = None
        /\ storeQueue[p] # <<>> /\ stored[Head(storeQueue[p])] = "pending"
        /\ storeGoal' = Put(storeGoal, p, "none") /\ UNCHANGED mapGoal
  /\ UNCHANGED <<claimVars, taskVars, storeVars, mapVars, owed, emitting,
                 controlVars, emitted, indexVars>>

\* Without progress, the error of a batch is raised again unless suppressed.
Raises(p) == ~emitting[p] /\ mapGoal[p] # "all"

AfterBatch(g) ==
  CASE g = "one" -> "none" [] g = "one_then_all" -> "all" [] OTHER -> g

\* The result of an item of a batch that is done or has failed.  Mutant: the
\* exception of the future is dropped.
OutcomeIgnored(p, id) == "ok"
Outcome(p, id) ==
  IF future[id] = "done" THEN "ok" ELSE IF emitting[p] THEN "failed" ELSE "error"

\* One item of the oldest batch (_finish_mapping_batch).  When the callback
\* raises, the rest of the batch is still released, without progress.
FinishMapping(p) ==
  LET head == Head(batches[p])
      t == Head(head.items)
      broken == mapGoal[p] = "rest"
      o == Outcome(p, head.id)
      last == Len(head.items) = 1
      raises == o = "error" /\ Raises(p)
  IN
  /\ mapGoal[p] # "none" /\ batches[p] # <<>>
  /\ future[head.id] \in {"done", "failed"}
  /\ Release(t, o)
  /\ batches' = Put(batches, p,
       IF last THEN Tail(batches[p])
       ELSE <<[head EXCEPT !.items = Tail(@)]>> \o Tail(batches[p]))
  /\ IF emitting[p] /\ ~broken THEN Emit(p, t, o) ELSE UNCHANGED emitted
  /\ \/ /\ ~(last /\ (broken \/ raises))
        /\ mapGoal' = Put(mapGoal, p, IF last THEN AfterBatch(mapGoal[p]) ELSE mapGoal[p])
        /\ UNCHANGED <<pc, storeGoal, owed, emitting, current>>
     \/ last /\ raises /\ GiveUp(p)
     \/ /\ last /\ (broken \/ MayRaise(p))
        /\ Abort(p)
     \/ /\ ~last /\ ~broken /\ MayRaise(p)
        /\ mapGoal' = Put(mapGoal, p, "rest")
        /\ UNCHANGED <<pc, storeGoal, owed, emitting, current>>
  /\ UNCHANGED <<waitsOn, cursor, pending, storeVars, results, indexVars>>

\* The end of the error path of _finish_store_result.
FinishOwed(p) ==
  LET t == owed[p]
      o == IF emitting[p] THEN "failed" ELSE "error"
  IN
  /\ MapsIdle(p) /\ t # None
  /\ Release(t, o)
  /\ IF emitting[p] THEN Emit(p, t, o) ELSE UNCHANGED emitted
  /\ \/ /\ owed' = Put(owed, p, None) /\ mapGoal' = Put(mapGoal, p, "none")
        /\ UNCHANGED <<pc, storeGoal, emitting, current>>
     \/ MayRaise(p) /\ Abort(p)
  /\ UNCHANGED <<waitsOn, cursor, pending, storeVars, mapVars, indexVars>>

\* Mutant: one more result than the limit is kept.
ResultsFullLate(R) == Len(R) > ResultLimit
ResultsFull(R) == Len(R) >= ResultLimit

\* The oldest store work is finished: _finish_store_result.  Mutant: a store
\* failure is released without flushing the mappings before it.
FlushOnFailureSkipped == FALSE
FlushOnFailure == TRUE

FinishStore(p) ==
  LET t == Head(storeQueue[p]) IN
  /\ MapsIdle(p) /\ owed[p] = None
  /\ storeGoal[p] # "none" /\ storeQueue[p] # <<>>
  /\ stored[t] \in {"ok", "failed"}
  /\ storeQueue' = Put(storeQueue, p, Tail(storeQueue[p]))
  /\ storeGoal' = Put(storeGoal, p, IF storeGoal[p] = "one" THEN "none" ELSE storeGoal[p])
  /\ IF stored[t] = "ok"
     THEN LET R == Append(results[p], t) IN
          /\ IF ResultsFull(R)
             THEN SubmitResults(p, R, FALSE)
             ELSE /\ results' = Put(results, p, R)
                  /\ mapGoal' = Put(mapGoal, p, "none")
                  /\ UNCHANGED <<batches, indexVars>>
          /\ UNCHANGED owed
     ELSE /\ owed' = Put(owed, p, t)
          /\ IF FlushOnFailure
             THEN SubmitResults(p, results[p], TRUE)
             ELSE mapGoal' = Put(mapGoal, p, "none") /\ UNCHANGED <<mapVars, indexVars>>
  /\ UNCHANGED <<claimVars, taskVars, stored, emitting, controlVars, emitted>>

-----------------------------------------------------------------------------
(* The pipeline itself.                                                    *)

\* TemporaryDirectory and _prepare_download_tasks, after the last claim; an
\* exception here is outside the try block.
Start(p) ==
  /\ pc[p] = "claim" /\ cursor[p] > NTasks[p]
  /\ \/ Goto(p, "download")
     \/ "setup" \in Faults /\ Goto(p, "raised")
  /\ UNCHANGED <<claimVars, taskVars, storeVars, mapVars, goalVars, cursor,
                 emitted, indexVars>>

\* download_files_streaming calls _handle_download_progress.
Arrive(p, ok) ==
  /\ pc[p] = "download" /\ Settled(p)
  /\ ok \/ "download" \in Faults
  /\ \E t \in pending[p] :
       current' = Put(current, p, t)
  /\ IF ok
     THEN /\ Goto(p, "success")
          /\ Goal(p, "none", IF Len(storeQueue[p]) >= StoreLimit THEN "one" ELSE "none")
     ELSE Goto(p, "failure") /\ Goal(p, "none", "all")
  /\ UNCHANGED <<claimVars, waitsOn, pending, storeVars, mapVars, owed, emitting,
                 cursor, emitted, indexVars>>

\* A success goes to the store workers; what has finished is then collected.
\* Mutant: the owner stays in _owner_by_temp_path.
HandedNever(p, t) == pending[p]
Handed(p, t) == pending[p] \ {t}

SubmitStore(p) ==
  LET t == current[p] IN
  /\ pc[p] = "success" /\ Settled(p)
  /\ stored' = Put(stored, t, "pending")
  /\ storeQueue' = Put(storeQueue, p, Append(storeQueue[p], t))
  /\ pending' = Put(pending, p, Handed(p, t))
  /\ current' = Put(current, p, None)
  /\ Goto(p, "download") /\ Goal(p, "none", "ready")
  /\ UNCHANGED <<claimVars, waitsOn, mapVars, owed, emitting, cursor, emitted, indexVars>>

\* A failure, the end of the downloads and an abort flush the mappings once
\* the store work is drained.
Flush(p) ==
  /\ Settled(p)
  /\ \/ pc[p] = "failure" /\ Goto(p, "failed")
     \/ pc[p] = "tail" /\ Goto(p, "flushed")
     \/ pc[p] = "abort" /\ Goto(p, "aborting")
  /\ SubmitResults(p, results[p], TRUE)
  /\ storeGoal' = Put(storeGoal, p, "none")
  /\ UNCHANGED <<claimVars, taskVars, storeVars, owed, emitting, cursor, emitted>>

ReleaseFailed(p) ==
  LET t == current[p] IN
  /\ pc[p] = "failed" /\ Settled(p)
  /\ Release(t, "failed") /\ Emit(p, t, "failed")
  /\ pending' = Put(pending, p, pending[p] \ {t})
  /\ \/ /\ Goto(p, "download") /\ Goal(p, "none", "none")
        /\ current' = Put(current, p, None) /\ UNCHANGED <<owed, emitting>>
     \/ MayRaise(p) /\ Abort(p)
  /\ UNCHANGED <<waitsOn, storeVars, mapVars, cursor, indexVars>>

\* The downloads are over, or raise (cancelled, interrupted, closed).
EndDownloads(p) ==
  /\ pc[p] = "download" /\ Settled(p)
  /\ \/ /\ pending[p] = {} /\ Goto(p, "tail") /\ Goal(p, "none", "all")
        /\ UNCHANGED <<owed, emitting, current>>
     \/ "stream" \in Faults /\ Abort(p)
  /\ UNCHANGED <<claimVars, waitsOn, pending, storeVars, mapVars, cursor,
                 emitted, indexVars>>

\* The except block releases what never reached the store, and re-raises.
\* Mutant: it only re-raises.
UnreleasedNone(p) == {}
Unreleased(p) == pending[p]

ReleaseRest(p) ==
  /\ pc[p] = "aborting" /\ Settled(p)
  /\ IF Unreleased(p) = {}
     THEN Goto(p, "raised") /\ UNCHANGED <<claimVars, pending>>
     ELSE \E t \in Unreleased(p) :
            /\ Release(t, "error")
            /\ pending' = Put(pending, p, pending[p] \ {t})
            /\ UNCHANGED pc
  /\ UNCHANGED <<waitsOn, current, storeVars, mapVars, goalVars, cursor,
                 emitted, indexVars>>

BeginWaiters(p) ==
  /\ pc[p] = "flushed" /\ Settled(p)
  /\ Goto(p, "waiters") /\ cursor' = Put(cursor, p, 1) /\ Goal(p, "none", "none")
  /\ UNCHANGED <<claimVars, taskVars, storeVars, mapVars, owed, emitting,
                 emitted, indexVars>>

\* _finish_waiters: blocks until the claim it waits on is completed.
Answered(t) == claim[waitsOn[t]] \in {"ok", "failed", "error"}

FinishWaiter(p) ==
  LET t == <<p, cursor[p]>>
      advance == cursor' = Put(cursor, p, cursor[p] + 1) /\ UNCHANGED pc
      raise == Goto(p, "raised") /\ UNCHANGED cursor
  IN
  /\ pc[p] = "waiters"
  /\ IF cursor[p] > NTasks[p]
     THEN Goto(p, "done") /\ UNCHANGED <<cursor, emitted>>
     ELSE IF waitsOn[t] = None
     THEN advance /\ UNCHANGED emitted
     ELSE /\ Answered(t)
          /\ IF claim[waitsOn[t]] = "error"
             THEN raise /\ UNCHANGED emitted
             ELSE /\ Emit(p, t, claim[waitsOn[t]])
                  /\ (advance \/ (MayRaise(p) /\ raise))
  /\ UNCHANGED <<claimVars, taskVars, storeVars, mapVars, goalVars, indexVars>>

-----------------------------------------------------------------------------
(* The other threads.                                                      *)

\* A store worker validates the file and puts it in images_unique, or raises.
StoreWork(t) ==
  /\ stored[t] = "pending"
  /\ \/ stored' = Put(stored, t, "ok")
     \/ "store" \in Faults /\ stored' = Put(stored, t, "failed")
  /\ UNCHANGED <<claimVars, taskVars, storeQueue, mapVars, goalVars, controlVars,
                 emitted, indexVars>>

WriterWork(r) ==
  /\ \/ \E S \in SUBSET rows[r] : Commit(S)
     \/ Succeed(r)
     \/ "mapping" \in Faults /\ Fail(r)
  /\ UNCHANGED <<claimVars, taskVars, storeVars, mapVars, goalVars, controlVars, emitted>>

-----------------------------------------------------------------------------
PipelineNext(p) ==
  \/ Claim(p) \/ Start(p) \/ \E ok \in BOOLEAN : Arrive(p, ok)
  \/ SubmitStore(p) \/ Flush(p) \/ ReleaseFailed(p) \/ EndDownloads(p)
  \/ ReleaseRest(p) \/ BeginWaiters(p) \/ FinishWaiter(p)
  \/ LeaveDrain(p) \/ FinishMapping(p) \/ FinishOwed(p) \/ FinishStore(p)

Ended(p) == pc[p] \in {"done", "raised"}
Terminated == (\A p \in Pipelines : Ended(p)) /\ UNCHANGED vars

Next ==
  \/ \E p \in Pipelines : PipelineNext(p)
  \/ \E t \in Tasks : StoreWork(t) \/ WriterWork(t)
  \/ Terminated

Spec == Init /\ [][Next]_vars

\* Threads run, the downloads have timeouts, and both pools serve their queues.
Fairness ==
  /\ \A p \in Pipelines : WF_vars(PipelineNext(p))
  /\ \A t \in Tasks : WF_vars(StoreWork(t)) /\ WF_vars(WriterWork(t))
FairSpec == Spec /\ Fairness

-----------------------------------------------------------------------------
ClaimStates == {"none", "open", "ok", "failed", "error"}
PcStates == {"claim", "download", "success", "failure", "failed", "tail",
             "flushed", "abort", "aborting", "waiters", "done", "raised"}
Batch == [id : Tasks, items : Seq(Tasks)]

\* Type invariant.
TypeOK ==
  /\ claims \in [Keys -> Tasks \union {None}] /\ memo \subseteq Keys
  /\ claim \in [Tasks -> ClaimStates]
  /\ waitsOn \in [Tasks -> Tasks \union {None}]
  /\ pc \in [Pipelines -> PcStates] /\ cursor \in [Pipelines -> Nat]
  /\ pending \in [Pipelines -> SUBSET Tasks]
  /\ current \in [Pipelines -> Tasks \union {None}]
  /\ storeQueue \in [Pipelines -> Seq(Tasks)]
  /\ stored \in [Tasks -> {"none", "pending", "ok", "failed"}]
  /\ results \in [Pipelines -> Seq(Tasks)]
  /\ batches \in [Pipelines -> Seq(Batch)]
  /\ mapGoal \in [Pipelines -> {"none", "ready", "one", "rest", "all",
                                 "one_then_all", "ready_then_all"}]
  /\ storeGoal \in [Pipelines -> {"none", "ready", "one", "all"}]
  /\ owed \in [Pipelines -> Tasks \union {None}]
  /\ emitting \in [Pipelines -> BOOLEAN]
  /\ emitted \in [Pipelines -> Seq(Tasks \X {"ok", "failed"})]
  /\ future \in [Tasks -> {"none", "pending", "done", "failed"}]
  /\ rows \in [Tasks -> SUBSET Tasks] /\ durable \subseteq Tasks

\* The mapping of some URL of key k is committed: every URL of k is found in
\* the index, directly or through its alias (mappings_for_urls).
Durable(k) == \E t \in durable : KeyOf[t] = k

\* A success that any caller sees, the owner of the download or a thread that
\* waited for it or met the memo, is in the index already.
SuccessIsDurable ==
  /\ \A p \in Pipelines : \A i \in 1..Len(emitted[p]) :
       emitted[p][i][2] = "ok" => Durable(KeyOf[emitted[p][i][1]])
  /\ \A t \in Tasks : claim[t] = "ok" => Durable(KeyOf[t])
  /\ \A k \in memo : Durable(k)

\* A pipeline that has ended, normally or not, has released its claims: no
\* thread waits for it for ever.
EndedOwnsNothing ==
  \A p \in Pipelines : Ended(p) => \A t \in TasksOf(p) : claim[t] # "open"

\* No pipeline waits for another one while it owns a claim (so they never wait
\* in a circle).
WaitersOwnNothing ==
  \A p \in Pipelines : pc[p] = "waiters" => \A t \in TasksOf(p) : claim[t] # "open"

EmittedTasks(p) == {emitted[p][i][1] : i \in 1..Len(emitted[p])}

\* No task is reported twice, a task reported by its owner says what its claim
\* says, and a pipeline that returns has reported every task.
ReportedOnce ==
  \A p \in Pipelines :
    /\ EmittedTasks(p) \subseteq TasksOf(p)
    /\ Cardinality(EmittedTasks(p)) = Len(emitted[p])
    /\ \A i \in 1..Len(emitted[p]) :
         waitsOn[emitted[p][i][1]] = None => claim[emitted[p][i][1]] = emitted[p][i][2]
    /\ pc[p] = "done" => Len(emitted[p]) = NTasks[p]

\* The pending work of a pipeline is bounded by the three limits.
Bounded ==
  \A p \in Pipelines :
    /\ Len(storeQueue[p]) <= StoreLimit
    /\ Len(results[p]) < ResultLimit
    /\ Len(batches[p]) <= BatchLimit

\* What a task was told: its own claim tells an owner and a task that met the
\* memo, the waiting loop tells the others.
Told(t) ==
  LET p == t[1]
      reports == {i \in 1..Len(emitted[p]) : emitted[p][i][1] = t}
  IN  IF waitsOn[t] \in {None, t}
      THEN IF claim[t] = "open" THEN "none" ELSE claim[t]
      ELSE IF reports # {} THEN emitted[p][CHOOSE i \in reports : TRUE][2]
      ELSE IF pc[p] = "raised" /\ cursor[p] = t[2] THEN "error" ELSE "none"

Shared == INSTANCE SharedDownloads
  WITH flight <- claims,
       answer <- [t \in Tasks |-> Told(t)],
       known <- {k \in Keys : Durable(k)}

\* The batching pipelines implement one shared download per attachment.
ImplementsSharedDownloads == Shared!SharedSpec

\* Every pipeline returns or raises.
PipelinesEnd == \A p \in Pipelines : <>Ended(p)

\* Nobody who waits, or has ended, keeps others waiting: claims are owned only by
\* pipelines that go on to release them.
ClaimsAreReleased == EndedOwnsNothing /\ WaitersOwnNothing
=============================================================================
