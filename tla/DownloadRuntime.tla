--------------------------- MODULE DownloadRuntime ---------------------------
(***************************************************************************)
(* nga_tools/core/image_download_runtime.py: the file downloads (images or *)
(* audio) of all the threads of a command.  One background thread runs an  *)
(* event loop with a fixed number of workers.  A call of download() in     *)
(* another thread registers a _DownloadBatch on the loop, takes the        *)
(* results from the queue of the batch, acknowledges each one on the loop  *)
(* and hands it to a callback.  A failed attempt is retried after a delay. *)
(*                                                                         *)
(* Every action that runs on the loop is one step, as nothing in it awaits;*)
(* the calling threads interleave with it.  A batch is named by its call.  *)
(* A worker that waits for _work_available is in sleeping: the event is    *)
(* always cleared right before the wait, and set() wakes all who wait.     *)
(* An attempt gives a result (a success or a final failure) or a failure   *)
(* that may be retried; how one is made of candidate URLs is left out.     *)
(***************************************************************************)
EXTENDS Integers, Sequences, FiniteSets, SequencesExt

CONSTANTS Calls,           \* the calls of download() and download_streaming()
          Size,            \* Size[c]: the number of items of call c
          Limit,           \* Limit[c]: batch_limit
          Retries,         \* retries
          Capacity,        \* capacity: the number of workers
          None             \* no item

ASSUME DownloadAssumption ==
  /\ Size \in [Calls -> Nat]
  /\ Capacity \in Nat \ {0}
  /\ Limit \in [Calls -> 1..Capacity]
  /\ Retries \in Nat
  /\ None \notin Nat

Workers == 1..Capacity
Items(c) == 0..(Size[c] - 1)

VARIABLES
  batch,      \* the _DownloadBatch of each call
  batches,    \* _batches
  ready,      \* _ready_batches
  readyIds,   \* _ready_batch_ids
  timers,     \* the items whose _retry_ready is scheduled
  events,     \* the results in the queue of each batch
  callState,  \* where each call is
  holding,    \* the result a call has taken and not yet acknowledged
  delivered,  \* the items whose result a call gave to its callback
  result,     \* how each call ended
  job,        \* the item each worker is downloading
  workerState, sleeping,
  closer,     \* where close() is
  closing     \* _closing

queueVars == <<batches, ready, readyIds>>
callVars == <<callState, holding, delivered, result>>
workerVars == <<job, workerState, sleeping>>
closeVars == <<closer, closing>>
vars == <<batch, queueVars, timers, events, callVars, workerVars, closeVars>>

NewBatch(c) == [next |-> 0, outstanding |-> 0, running |-> 0, consumed |-> 0,
                pending |-> 0, cancelled |-> FALSE, retry |-> <<>>,
                attempts |-> [i \in Items(c) |-> 0]]

\* Mutant: a retry waits for a free slot like a new item.
CanDispatchNew(c, b) ==
  ~b.cancelled /\ (b.retry # <<>> \/ b.next < Size[c]) /\ b.outstanding < Limit[c]
CanDispatch(c, b) ==
  /\ ~b.cancelled
  /\ b.retry # <<>> \/ (b.next < Size[c] /\ b.outstanding < Limit[c])

\* Mutant: the batch is enqueued and the workers are not woken.
MakeReadySilently(c, b, q, ids) ==
  IF CanDispatch(c, b) /\ c \notin ids
  THEN ready' = Append(q, c) /\ readyIds' = ids \union {c} /\ UNCHANGED sleeping
  ELSE ready' = q /\ readyIds' = ids /\ UNCHANGED sleeping
MakeReady(c, b, q, ids) ==
  IF CanDispatch(c, b) /\ c \notin ids
  THEN ready' = Append(q, c) /\ readyIds' = ids \union {c} /\ sleeping' = {}
  ELSE ready' = q /\ readyIds' = ids /\ UNCHANGED sleeping

\* What is kept of s, in its order.
Without(s, X) ==
  LET Kept == {i \in DOMAIN s : s[i] \notin X}
      Place(i) == Cardinality({h \in Kept : h <= i})
  IN  [j \in 1..Cardinality(Kept) |-> s[CHOOSE i \in Kept : Place(i) = j]]

RemoveBatches(X) ==
  batches' = batches \ X /\ readyIds' = readyIds \ X /\ ready' = Without(ready, X)

Init ==
  /\ batch = [c \in Calls |-> NewBatch(c)]
  /\ batches = {} /\ ready = <<>> /\ readyIds = {}
  /\ timers = [c \in Calls |-> {}] /\ events = [c \in Calls |-> <<>>]
  /\ callState = [c \in Calls |-> "new"] /\ holding = [c \in Calls |-> None]
  /\ delivered = [c \in Calls |-> <<>>] /\ result = [c \in Calls |-> "none"]
  /\ job = [w \in Workers |-> <<>>] /\ workerState = [w \in Workers |-> "take"]
  /\ sleeping = {} /\ closer = "open" /\ closing = FALSE

Goto(c, state) == callState' = [callState EXCEPT ![c] = state]
EndAs(c, how) == Goto(c, "ended") /\ result' = [result EXCEPT ![c] = how]

-----------------------------------------------------------------------------
(* A call.  Once the loop has gone _run_in_loop raises.                    *)

LoopGone == closer = "closed"

\* Nothing to download, or the runtime is closing.
EndAtOnce(c) ==
  /\ callState[c] = "new" /\ (Size[c] = 0 \/ closing)
  /\ EndAs(c, IF Size[c] = 0 THEN "complete" ELSE "refused")
  /\ UNCHANGED <<batch, queueVars, timers, events, holding, delivered, workerVars, closeVars>>

\* _register_batch
Register(c) ==
  /\ callState[c] = "new" /\ Size[c] > 0 /\ ~closing
  /\ batches' = batches \union {c}
  /\ MakeReady(c, batch[c], ready, readyIds)
  /\ Goto(c, "wait")
  /\ UNCHANGED <<batch, timers, events, holding, delivered, result, job, workerState, closeVars>>

\* events.get()
GetEvent(c) ==
  /\ callState[c] = "wait" /\ events[c] # <<>>
  /\ holding' = [holding EXCEPT ![c] = Head(events[c])]
  /\ events' = [events EXCEPT ![c] = Tail(@)]
  /\ Goto(c, "consume")
  /\ UNCHANGED <<batch, queueVars, timers, delivered, result, workerVars, closeVars>>

\* _consume_result.  Mutant: the slot of the item is not given back.
ConsumedKeepsSlot(b) == [b EXCEPT !.pending = @ - 1, !.consumed = @ + 1]
Consumed(b) ==
  [b EXCEPT !.pending = @ - 1, !.outstanding = @ - 1, !.consumed = @ + 1]

Consume(c) ==
  /\ callState[c] = "consume" /\ ~LoopGone
  /\ IF c \in batches
     THEN LET b == Consumed(batch[c]) IN
          /\ batch' = [batch EXCEPT ![c] = b]
          /\ IF b.consumed >= Size[c]
             THEN RemoveBatches({c}) /\ UNCHANGED sleeping
             ELSE MakeReady(c, b, ready, readyIds) /\ UNCHANGED batches
     ELSE UNCHANGED <<batch, queueVars, sleeping>>
  /\ delivered' = [delivered EXCEPT ![c] = Append(@, holding[c])]
  /\ holding' = [holding EXCEPT ![c] = None]
  /\ Goto(c, "callback")
  /\ UNCHANGED <<timers, events, result, job, workerState, closeVars>>

ConsumeRefused(c) ==
  /\ callState[c] = "consume" /\ LoopGone /\ EndAs(c, "raised")
  /\ UNCHANGED <<batch, queueVars, timers, events, holding, delivered, workerVars, closeVars>>

\* on_progress returns, or raises.
CallbackReturns(c) ==
  /\ callState[c] = "callback"
  /\ IF Len(delivered[c]) < Size[c]
     THEN Goto(c, "wait") /\ UNCHANGED result
     ELSE EndAs(c, "complete")
  /\ UNCHANGED <<batch, queueVars, timers, events, holding, delivered, workerVars, closeVars>>

CallbackRaises(c) ==
  /\ callState[c] = "callback" /\ Goto(c, "cancel")
  /\ UNCHANGED <<batch, queueVars, timers, events, holding, delivered, result,
                 workerVars, closeVars>>

\* What a cancellation does to a batch.  Mutant: it only empties its queues.
CancelledEmptied(b) == [b EXCEPT !.retry = <<>>, !.pending = 0]
Cancelled(b) == [b EXCEPT !.cancelled = TRUE, !.retry = <<>>, !.pending = 0]

\* Mutant: a batch with running downloads is removed as well.
FinishedAnyTime(b) == TRUE
Finished(b) == b.running = 0

\* _cancel_batch: the batch stays until its running downloads are over, but
\* the call raises at once.
Cancel(c) ==
  /\ callState[c] = "cancel"
  /\ IF c \in batches /\ ~LoopGone
     THEN /\ batch' = [batch EXCEPT ![c] = Cancelled(@)]
          /\ IF Finished(batch[c])
             THEN RemoveBatches({c})
             ELSE readyIds' = readyIds \ {c} /\ UNCHANGED <<batches, ready>>
     ELSE UNCHANGED <<batch, queueVars>>
  /\ EndAs(c, "raised")
  /\ UNCHANGED <<timers, events, holding, delivered, workerVars, closeVars>>

-----------------------------------------------------------------------------
(* The workers, and the timers of the loop.                                *)

Live(c) == c \in batches /\ CanDispatch(c, batch[c])

\* A retry goes first and keeps the slot it has; a new item takes one.
\* Mutant: the retry is not taken off its queue.
DispatchedRetryKept(b) ==
  IF b.retry # <<>> THEN [b EXCEPT !.running = @ + 1]
  ELSE [b EXCEPT !.next = @ + 1, !.outstanding = @ + 1, !.running = @ + 1]
Dispatched(b) ==
  IF b.retry # <<>> THEN [b EXCEPT !.retry = Tail(@), !.running = @ + 1]
  ELSE [b EXCEPT !.next = @ + 1, !.outstanding = @ + 1, !.running = @ + 1]
Dispatchee(b) == IF b.retry # <<>> THEN Head(b.retry) ELSE b.next

\* _take_work: the ids before the first live batch are dropped.
Take(w) ==
  /\ workerState[w] = "take" /\ w \notin sleeping
  /\ \E k \in 1..Len(ready) :
       /\ Live(ready[k]) /\ \A i \in 1..(k - 1) : ~Live(ready[i])
       /\ LET c == ready[k]
              b == Dispatched(batch[c])
          IN  /\ batch' = [batch EXCEPT ![c] = b]
              /\ MakeReady(c, b, SubSeq(ready, k + 1, Len(ready)),
                           readyIds \ {ready[i] : i \in 1..k})
              /\ job' = [job EXCEPT ![w] = <<c, Dispatchee(batch[c])>>]
  /\ workerState' = [workerState EXCEPT ![w] = "download"]
  /\ UNCHANGED <<batches, timers, events, callVars, closeVars>>

Idle(w) ==
  /\ workerState[w] = "take" /\ w \notin sleeping
  /\ \A k \in 1..Len(ready) : ~Live(ready[k])
  /\ ready' = <<>> /\ readyIds' = readyIds \ ToSet(ready)
  /\ IF closing
     THEN workerState' = [workerState EXCEPT ![w] = "exited"] /\ UNCHANGED sleeping
     ELSE sleeping' = sleeping \union {w} /\ UNCHANGED workerState
  /\ UNCHANGED <<batch, batches, timers, events, callVars, job, closeVars>>

\* Mutant: one retry more than allowed.
MayRetryOnceMore(b, i) == b.attempts[i] <= Retries
MayRetry(b, i) == b.attempts[i] < Retries

\* The attempt is over; a cancelled batch drops what came of it.
Finish(w, retryable) ==
  /\ workerState[w] = "download"
  /\ LET c == job[w][1]
         i == job[w][2]
         b == [batch[c] EXCEPT !.running = @ - 1]
     IN
     CASE b.cancelled ->
            /\ batch' = [batch EXCEPT ![c] = b]
            /\ IF Finished(b) THEN RemoveBatches({c}) ELSE UNCHANGED queueVars
            /\ UNCHANGED <<timers, events>>
       [] ~b.cancelled /\ retryable /\ MayRetry(b, i) ->
            /\ batch' = [batch EXCEPT ![c] = [b EXCEPT !.attempts[i] = @ + 1]]
            /\ timers' = [timers EXCEPT ![c] = @ \union {i}]
            /\ UNCHANGED <<queueVars, events>>
       [] ~b.cancelled /\ ~(retryable /\ MayRetry(b, i)) ->
            /\ batch' = [batch EXCEPT ![c] = [b EXCEPT !.pending = @ + 1]]
            /\ events' = [events EXCEPT ![c] = Append(@, i)]
            /\ UNCHANGED <<queueVars, timers>>
  /\ job' = [job EXCEPT ![w] = <<>>]
  /\ workerState' = [workerState EXCEPT ![w] = "take"]
  /\ UNCHANGED <<callVars, sleeping, closeVars>>

\* _retry_ready
RetryReady(c, i) ==
  /\ i \in timers[c]
  /\ timers' = [timers EXCEPT ![c] = @ \ {i}]
  /\ IF c \in batches /\ ~batch[c].cancelled
     THEN LET b == [batch[c] EXCEPT !.retry = Append(@, i)] IN
          /\ batch' = [batch EXCEPT ![c] = b]
          /\ MakeReady(c, b, ready, readyIds)
     ELSE UNCHANGED <<batch, ready, readyIds, sleeping>>
  /\ UNCHANGED <<batches, events, callVars, job, workerState, closeVars>>

-----------------------------------------------------------------------------
(* close(): _cancel_all_and_wait, then the shutdown of the loop.           *)

CancelAll ==
  /\ closer = "open"
  /\ batch' = [c \in Calls |-> IF c \in batches THEN Cancelled(batch[c]) ELSE batch[c]]
  /\ LET idle == {c \in batches : Finished(batch[c])} IN
     /\ batches' = batches \ idle /\ readyIds' = readyIds \ batches
     /\ ready' = Without(ready, idle)
  /\ closer' = "cancelled"
  /\ UNCHANGED <<timers, events, callVars, workerVars, closing>>

\* The last batch has gone, and close() asks the loop to end.
AllGone ==
  /\ closer = "cancelled" /\ batches = {}
  /\ closer' = "shutdown"
  /\ UNCHANGED <<batch, queueVars, timers, events, callVars, workerVars, closing>>

Shutdown ==
  /\ closer = "shutdown" /\ ~closing
  /\ closing' = TRUE /\ sleeping' = {}
  /\ UNCHANGED <<batch, queueVars, timers, events, callVars, job, workerState, closer>>

Joined ==
  /\ closing /\ closer = "shutdown" /\ \A w \in Workers : workerState[w] = "exited"
  /\ closer' = "closed"
  /\ UNCHANGED <<batch, queueVars, timers, events, callVars, workerVars, closing>>

Terminated ==
  /\ closer = "closed" /\ \A c \in Calls : callState[c] = "ended"
  /\ UNCHANGED vars

CallNext(c) ==
  \/ EndAtOnce(c) \/ Register(c) \/ GetEvent(c) \/ Consume(c) \/ ConsumeRefused(c)
  \/ CallbackReturns(c) \/ CallbackRaises(c) \/ Cancel(c)
WorkerNext(w) == Take(w) \/ Idle(w) \/ \E retryable \in BOOLEAN : Finish(w, retryable)

Next ==
  \/ \E c \in Calls : CallNext(c) \/ \E i \in Items(c) : RetryReady(c, i)
  \/ \E w \in Workers : WorkerNext(w)
  \/ CancelAll \/ AllGone \/ Shutdown \/ Joined \/ Terminated

Spec == Init /\ [][Next]_vars

\* Attempts have timeouts, timers fire, callbacks return or raise; nobody has
\* to start a call or to close the runtime.
Fairness ==
  /\ \A c \in Calls :
       WF_vars(GetEvent(c) \/ Consume(c) \/ ConsumeRefused(c) \/ CallbackReturns(c)
               \/ CallbackRaises(c) \/ Cancel(c))
  /\ \A c \in Calls : \A i \in Items(c) : WF_vars(RetryReady(c, i))
  /\ \A w \in Workers : WF_vars(WorkerNext(w))
  /\ WF_vars(AllGone \/ Shutdown \/ Joined)
FairSpec == Spec /\ Fairness

-----------------------------------------------------------------------------
(* What the runtime guarantees.                                            *)

Running(c) == {i \in Items(c) : \E w \in Workers : job[w] = <<c, i>>}
Held(c) == {holding[c]} \ {None}
Waiting(c) == ToSet(batch[c].retry) \union timers[c] \union ToSet(events[c]) \union Held(c)

\* Where the items of a call can be.
Places(c) ==
  [retry |-> ToSet(batch[c].retry), timers |-> timers[c], running |-> Running(c),
   events |-> ToSet(events[c]), held |-> Held(c), delivered |-> ToSet(delivered[c])]
Apart(P) == \A p, q \in DOMAIN P : p # q => P[p] \cap P[q] = {}
Together(P) == UNION {P[p] : p \in DOMAIN P}
Located(c) == Together(Places(c))

\* The state has the declared shape; the attempts of an item and the window of
\* a batch stay within the limits the caller gave.
TypeOK ==
  /\ \A c \in Calls :
       /\ batch[c].next \in 0..Size[c] /\ batch[c].outstanding \in 0..Limit[c]
       /\ batch[c].running \in 0..Limit[c] /\ batch[c].consumed \in 0..Size[c]
       /\ batch[c].pending \in -Limit[c]..Limit[c] /\ batch[c].cancelled \in BOOLEAN
       /\ batch[c].retry \in Seq(Items(c)) /\ batch[c].attempts \in [Items(c) -> 0..Retries]
       /\ timers[c] \subseteq Items(c) /\ events[c] \in Seq(Items(c))
       /\ holding[c] \in Items(c) \union {None} /\ delivered[c] \in Seq(Items(c))
       /\ callState[c] \in {"new", "wait", "consume", "callback", "cancel", "ended"}
       /\ result[c] \in {"none", "complete", "raised", "refused"}
  /\ batches \subseteq Calls /\ ready \in Seq(Calls) /\ readyIds \subseteq Calls
  /\ \A w \in Workers : job[w] = <<>> \/ \E c \in Calls : job[w] \in {c} \X Items(c)
  /\ workerState \in [Workers -> {"take", "download", "exited"}]
  /\ sleeping \subseteq Workers
  /\ closer \in {"open", "cancelled", "shutdown", "closed"} /\ closing \in BOOLEAN

\* The ids of the queue agree with the queue, every batch that can dispatch is
\* queued once, and no worker sleeps while there is such a batch: the event is
\* cleared by every worker that finds nothing, also by one that raced with
\* _make_ready (_make_ready, _take_work, _worker).
NoLostWakeup ==
  /\ IsInjective(ready) /\ readyIds \subseteq ToSet(ready)
  /\ \A c \in batches : CanDispatch(c, batch[c]) => c \in readyIds /\ sleeping = {}
  /\ closing => sleeping = {}

\* Every item a live batch has dispatched and not yet delivered is in exactly
\* one place (a worker, a retry timer, the retry queue, the result queue or the
\* hands of the call) and outstanding, running and pending_results count them
\* (_take_work, _worker, _retry_ready, _consume_result).  So the window bounds
\* what a slow callback or many retries let pile up.
ItemsAccounted ==
  \A c \in batches : ~batch[c].cancelled =>
    LET b == batch[c] IN
    /\ IsInjective(b.retry) /\ IsInjective(events[c]) /\ IsInjective(delivered[c])
    /\ \A v, w \in Workers : job[v] = job[w] /\ job[v] # <<>> => v = w
    /\ Apart(Places(c)) /\ Located(c) = 0..(b.next - 1)
    /\ Cardinality(Waiting(c) \union Running(c)) <= Limit[c]
    /\ b.outstanding = b.next - Len(delivered[c]) /\ b.consumed = Len(delivered[c])
    /\ b.running = Cardinality({w \in Workers : job[w] # <<>> /\ job[w][1] = c})
    /\ b.pending = Len(events[c]) + Cardinality(Held(c))

\* A call that returns has given its callback exactly one result for each item,
\* whatever was retried, and leaves no batch, timer or worker behind
\* (_download, _consume_result).
CompleteCalls ==
  \A c \in Calls :
    /\ IsInjective(delivered[c])
    /\ result[c] = "complete" =>
         /\ ToSet(delivered[c]) = Items(c)
         /\ c \notin batches /\ Waiting(c) = {} /\ Running(c) = {}

\* The running downloads of every batch are known to the loop: a batch that
\* was cancelled is only forgotten when its last download is over, so
\* _cancel_all_and_wait cannot miss one (_cancel_batch, _worker).
RunningIsRegistered == \A w \in Workers : job[w] # <<>> => job[w][1] \in batches

\* What a step may never do: start a download for a call that was cancelled,
\* neither a new item nor a retry whose timer fires later (_retry_ready).
CancelledStartsNothing ==
  [][\A w \in Workers : job'[w] # job[w] /\ job'[w] # <<>> =>
       LET c == job'[w][1] IN
       ~batch[c].cancelled /\ callState[c] # "ended"]_vars

\* Every call that was registered comes to its end.  Only close() in the middle
\* of a call may leave it waiting, which the scopes of use_download_runtime in
\* the commands rule out.
CallsEnd ==
  \A c \in Calls : callState[c] # "new" ~> callState[c] = "ended" \/ closer # "open"

\* close() returns once it has begun: every batch leaves the loop, also the one
\* of a call that ended while its downloads were running.
CloseReturns == closer # "open" ~> closer = "closed"

\* Every file of a call is in one place until the call has its result, and every
\* call that returns has the results of all of them.
FilesAccounted == TypeOK /\ ItemsAccounted /\ CompleteCalls

\* The workers' queue is sound, and nothing they work on is forgotten.
QueueIsSound == NoLostWakeup /\ RunningIsRegistered

\* Neither the calls nor close() wait for ever.
CallersReturn == CallsEnd /\ CloseReturns
=============================================================================
