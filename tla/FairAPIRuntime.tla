--------------------------- MODULE FairAPIRuntime ---------------------------
(***************************************************************************)
(* nga_tools/ngaclient/api_runtime.py: the worker pool every page request  *)
(* of a command goes through.  A call of map_ordered or map_unordered is a *)
(* generator: it registers one _Batch, the workers fetch its items, and    *)
(* the calling thread takes the results one by one.  All the state is      *)
(* guarded by one condition variable and every action below is one         *)
(* critical section; a thread inside condition.wait() is in sleepingCalls  *)
(* or sleepingWorkers until some notify_all empties both sets.             *)
(*                                                                         *)
(* A batch is named by its call.  The pages, the HTTP sessions and the     *)
(* metrics are left out; a fetch either returns or raises.                 *)
(***************************************************************************)
EXTENDS Naturals, Sequences, FiniteSets

CONSTANTS Calls,           \* the map_ordered / map_unordered calls
          Size,            \* Size[c]: the number of items of call c
          Ordered,         \* the calls made through map_ordered
          Capacity         \* the number of workers, and the result window

ASSUME CallsAssumption ==
  /\ Size \in [Calls -> Nat]
  /\ Ordered \subseteq Calls
ASSUME CapacityAssumption == Capacity \in Nat \ {0}

Workers == 1..Capacity

VARIABLES
  batch,           \* the _Batch of each call
  batches,         \* _batches: the registered calls
  ready,           \* _ready_batches: the round-robin deque
  readyIds,        \* _ready_batch_ids
  closing, closed, \* _closing, _closed
  callState,       \* where the generator of each call is
  result,          \* how each call ended
  delivered,       \* the item indices each call has yielded to its caller
  job,             \* the item each worker is fetching
  workerState,     \* where each worker is
  sleepingCalls,   \* calling threads inside condition.wait()
  sleepingWorkers  \* workers inside condition.wait()

queueVars == <<batches, ready, readyIds>>
closeVars == <<closing, closed>>
callVars == <<callState, result, delivered>>
workerVars == <<job, workerState>>
sleepVars == <<sleepingCalls, sleepingWorkers>>
vars == <<batch, queueVars, closeVars, callVars, workerVars, sleepVars>>

NewBatch == [next |-> 0, yielded |-> 0, outstanding |-> 0, running |-> 0,
             cancelled |-> FALSE, failed |-> FALSE,
             outcomes |-> {}, completed |-> <<>>]

Elements(s) == {s[k] : k \in 1..Len(s)}
Distinct(s) == \A i, j \in 1..Len(s) : s[i] = s[j] => i = j

\* deque.remove, and the rebuild of the deque in _remove_batch_locked: an
\* element occurs at most once (ReadyQueue below), so one removal is all.
Without(s, e) ==
  IF e \in Elements(s)
  THEN LET k == CHOOSE i \in 1..Len(s) : s[i] = e
       IN  [i \in 1..(Len(s) - 1) |-> IF i < k THEN s[i] ELSE s[i + 1]]
  ELSE s

\* Mutant of CanDispatch: no stop after an error.
CanDispatchAfterError(c, b) ==
  b.next < Size[c] /\ b.outstanding < Capacity
CanDispatch(c, b) ==
  /\ ~b.cancelled
  /\ ~b.failed
  /\ b.next < Size[c]
  /\ b.outstanding < Capacity

\* Mutant of MakeReady: the batch is put at the head.
MakeReadyFirst(c, b, q, ids) ==
  IF CanDispatch(c, b) /\ c \notin ids
  THEN ready' = <<c>> \o q /\ readyIds' = ids \union {c}
  ELSE ready' = q /\ readyIds' = ids
MakeReady(c, b, q, ids) ==
  IF CanDispatch(c, b) /\ c \notin ids
  THEN ready' = Append(q, c) /\ readyIds' = ids \union {c}
  ELSE ready' = q /\ readyIds' = ids

RemoveBatch(c) ==
  /\ batches' = batches \ {c}
  /\ readyIds' = readyIds \ {c}
  /\ ready' = Without(ready, c)

\* Mutants of NotifyAll: wake the workers only, or the callers only.
NotifyWorkersOnly == sleepingWorkers' = {} /\ UNCHANGED sleepingCalls
NotifyCallsOnly == sleepingCalls' = {} /\ UNCHANGED sleepingWorkers
NotifyAll == sleepingCalls' = {} /\ sleepingWorkers' = {}

-----------------------------------------------------------------------------
Init ==
  /\ batch = [c \in Calls |-> NewBatch]
  /\ batches = {} /\ ready = <<>> /\ readyIds = {}
  /\ closing = FALSE /\ closed = FALSE
  /\ callState = [c \in Calls |-> "new"]
  /\ result = [c \in Calls |-> "none"]
  /\ delivered = [c \in Calls |-> <<>>]
  /\ job = [w \in Workers |-> <<>>]
  /\ workerState = [w \in Workers |-> "take"]
  /\ sleepingCalls = {} /\ sleepingWorkers = {}

Goto(c, state) == callState' = [callState EXCEPT ![c] = state]
EndAs(c, how) == result' = [result EXCEPT ![c] = how]

-----------------------------------------------------------------------------
(* The calling thread.                                                     *)

\* _register_batch, on the first next() of the generator.
Register(c) ==
  /\ callState[c] = "new" /\ Size[c] > 0 /\ ~closing
  /\ batches' = batches \union {c}
  /\ MakeReady(c, batch[c], ready, readyIds)
  /\ Goto(c, "loop")
  /\ NotifyAll
  /\ UNCHANGED <<batch, closeVars, result, delivered, workerVars>>

\* No items: the generator returns at once.  A closed runtime refuses.
EndAtOnce(c) ==
  /\ callState[c] = "new" /\ (Size[c] = 0 \/ closing)
  /\ EndAs(c, IF Size[c] = 0 THEN "complete" ELSE "refused")
  /\ Goto(c, "ended")
  /\ UNCHANGED <<batch, queueVars, closeVars, delivered, workerVars, sleepVars>>

\* The predicate of the wait loop, and the index it then takes: map_ordered
\* waits for the next item in order, map_unordered takes the oldest result.
Available(c) ==
  IF c \in Ordered THEN batch[c].yielded \in batch[c].outcomes
                   ELSE batch[c].completed # <<>>
NextIndexAny(c) == Head(batch[c].completed)
NextIndex(c) ==
  IF c \in Ordered THEN batch[c].yielded ELSE Head(batch[c].completed)

\* Mutant of Consumed: the slot is not given back.
ConsumedKeepsSlot(b, i) ==
  [b EXCEPT !.outcomes = @ \ {i}, !.completed = Without(@, i),
            !.yielded = @ + 1]
Consumed(b, i) ==
  [b EXCEPT !.outcomes = @ \ {i}, !.completed = Without(@, i),
            !.outstanding = @ - 1, !.yielded = @ + 1]

Consume(c) ==
  /\ callState[c] = "loop" /\ c \notin sleepingCalls
  /\ ~batch[c].failed /\ Available(c)
  /\ LET b == Consumed(batch[c], NextIndex(c))
     IN  /\ batch' = [batch EXCEPT ![c] = b]
         /\ MakeReady(c, b, ready, readyIds)
  /\ delivered' = [delivered EXCEPT ![c] = Append(@, NextIndex(c))]
  /\ Goto(c, "yielded")
  /\ NotifyAll
  /\ UNCHANGED <<batches, closeVars, result, workerVars>>

AwaitResult(c) ==
  /\ callState[c] = "loop" /\ c \notin sleepingCalls
  /\ ~batch[c].failed /\ ~Available(c)
  /\ sleepingCalls' = sleepingCalls \union {c}
  /\ UNCHANGED <<batch, queueVars, closeVars, callVars, workerVars, sleepingWorkers>>

\* _wait_for_failed_batch_locked, entered from the loop and after each wait;
\* when the last running fetch is back the batch goes and the error is raised.
AwaitFailed(c) ==
  /\ c \notin sleepingCalls
  /\ \/ callState[c] = "loop" /\ batch[c].failed
     \/ callState[c] = "failing"
  /\ batch' = [batch EXCEPT ![c].cancelled = TRUE]
  /\ EndAs(c, "failed")
  /\ IF batch[c].running = 0
     THEN RemoveBatch(c) /\ Goto(c, "finally") /\ UNCHANGED sleepingCalls
     ELSE /\ Goto(c, "failing")
          /\ sleepingCalls' = sleepingCalls \union {c}
          /\ UNCHANGED queueVars
  /\ UNCHANGED <<closeVars, delivered, workerVars, sleepingWorkers>>

\* The caller asks for the next item, or leaves the generator.
Resume(c) ==
  /\ callState[c] = "yielded"
  /\ IF batch[c].yielded < Size[c]
     THEN Goto(c, "loop") /\ UNCHANGED result
     ELSE Goto(c, "finally") /\ EndAs(c, "complete")
  /\ UNCHANGED <<batch, queueVars, closeVars, delivered, workerVars, sleepVars>>

Abandon(c) ==
  /\ callState[c] = "yielded"
  /\ Goto(c, "finally") /\ EndAs(c, "abandoned")
  /\ UNCHANGED <<batch, queueVars, closeVars, delivered, workerVars, sleepVars>>

\* The finally block: an unfinished batch is cancelled (_cancel_batch) and its
\* running fetches are awaited before the batch is removed.
MayRemoveAnyTime(c) == TRUE
MayRemove(c) == batch[c].yielded >= Size[c] \/ batch[c].running = 0

Finally(c) ==
  /\ callState[c] = "finally"
  /\ batch' = [batch EXCEPT ![c].cancelled = @ \/ batch[c].yielded < Size[c]]
  /\ IF MayRemove(c)
     THEN RemoveBatch(c) /\ Goto(c, "ended") /\ NotifyAll
     ELSE /\ readyIds' = readyIds \ {c}
          /\ Goto(c, "draining")
          /\ sleepingCalls' = {c} /\ sleepingWorkers' = {}
          /\ UNCHANGED <<batches, ready>>
  /\ UNCHANGED <<closeVars, result, delivered, workerVars>>

Drain(c) ==
  /\ callState[c] = "draining" /\ c \notin sleepingCalls
  /\ IF batch[c].running = 0
     THEN RemoveBatch(c) /\ Goto(c, "ended") /\ NotifyAll
     ELSE /\ sleepingCalls' = sleepingCalls \union {c}
          /\ UNCHANGED <<queueVars, callState, sleepingWorkers>>
  /\ UNCHANGED <<batch, closeVars, result, delivered, workerVars>>

-----------------------------------------------------------------------------
(* The workers.                                                            *)

\* _take_work_locked pops ids until one names a batch that can dispatch.
Live(c) == c \in batches /\ CanDispatch(c, batch[c])
IsFirstLive(k) ==
  /\ k \in 1..Len(ready) /\ Live(ready[k])
  /\ \A i \in 1..(k - 1) : ~Live(ready[i])

\* Mutant: the cursor is not advanced.
DispatchedAgain(b) == [b EXCEPT !.outstanding = @ + 1, !.running = @ + 1]
Dispatched(b) ==
  [b EXCEPT !.next = @ + 1, !.outstanding = @ + 1, !.running = @ + 1]

Take(w) ==
  /\ workerState[w] = "take" /\ w \notin sleepingWorkers
  /\ \E k \in 1..Len(ready) :
       /\ IsFirstLive(k)
       /\ LET c == ready[k]
              b == Dispatched(batch[c])
          IN  /\ batch' = [batch EXCEPT ![c] = b]
              /\ MakeReady(c, b, SubSeq(ready, k + 1, Len(ready)),
                           readyIds \ {ready[i] : i \in 1..k})
              /\ job' = [job EXCEPT ![w] = <<c, batch[c].next>>]
  /\ workerState' = [workerState EXCEPT ![w] = "fetch"]
  /\ UNCHANGED <<batches, closeVars, callVars, sleepVars>>

\* Nothing to take: wait, or return when the runtime is closing.
Idle(w) ==
  /\ workerState[w] = "take" /\ w \notin sleepingWorkers
  /\ \A k \in 1..Len(ready) : ~Live(ready[k])
  /\ ready' = <<>> /\ readyIds' = readyIds \ Elements(ready)
  /\ IF closing
     THEN /\ workerState' = [workerState EXCEPT ![w] = "exited"]
          /\ UNCHANGED sleepingWorkers
     ELSE /\ sleepingWorkers' = sleepingWorkers \union {w}
          /\ UNCHANGED workerState
  /\ UNCHANGED <<batch, batches, closeVars, callVars, job, sleepingCalls>>

Completed(b, i, ok) ==
  [b EXCEPT !.running = @ - 1,
            !.outcomes = @ \union {i}, !.completed = Append(@, i),
            !.failed = @ \/ ~ok, !.cancelled = @ \/ (~ok /\ ~b.failed)]

\* The fetch returned (ok) or raised: the outcome is filed and all are woken.
Finish(w, ok) ==
  /\ workerState[w] = "fetch"
  /\ LET c == job[w][1]
         i == job[w][2]
     IN  /\ batch' = [batch EXCEPT ![c] = Completed(@, i, ok)]
         /\ readyIds' = IF ~ok /\ ~batch[c].failed THEN readyIds \ {c} ELSE readyIds
  /\ job' = [job EXCEPT ![w] = <<>>]
  /\ workerState' = [workerState EXCEPT ![w] = "take"]
  /\ NotifyAll
  /\ UNCHANGED <<batches, ready, closeVars, callVars>>

-----------------------------------------------------------------------------
(* close(): no call is refused before it, none is accepted after it.       *)

Close ==
  /\ ~closing
  /\ closing' = TRUE
  /\ batch' = [c \in Calls |-> IF c \in batches
                               THEN [batch[c] EXCEPT !.cancelled = TRUE]
                               ELSE batch[c]]
  /\ NotifyAll
  /\ UNCHANGED <<queueVars, closed, callVars, workerVars>>

Joined ==
  /\ closing /\ ~closed
  /\ \A w \in Workers : workerState[w] = "exited"
  /\ closed' = TRUE
  /\ NotifyAll
  /\ UNCHANGED <<batch, queueVars, closing, callVars, workerVars>>

\* The command is over.
Terminated ==
  /\ closed /\ \A c \in Calls : callState[c] = "ended"
  /\ UNCHANGED vars

-----------------------------------------------------------------------------
CallNext(c) ==
  \/ Register(c) \/ EndAtOnce(c) \/ Consume(c) \/ AwaitResult(c)
  \/ AwaitFailed(c) \/ Resume(c) \/ Abandon(c) \/ Finally(c) \/ Drain(c)
WorkerNext(w) ==
  \/ Take(w) \/ Idle(w) \/ \E ok \in BOOLEAN : Finish(w, ok)

Next ==
  \/ \E c \in Calls : CallNext(c)
  \/ \E w \in Workers : WorkerNext(w)
  \/ Close \/ Joined \/ Terminated

Spec == Init /\ [][Next]_vars

\* A thread that may run does: a fetch has a timeout, a caller that holds a
\* generator asks for the next item or drops it.  Nobody has to make a call.
Fairness ==
  /\ \A c \in Calls :
       WF_vars(Consume(c) \/ AwaitResult(c) \/ AwaitFailed(c) \/ Resume(c)
               \/ Abandon(c) \/ Finally(c) \/ Drain(c))
  /\ \A w \in Workers : WF_vars(WorkerNext(w))
  /\ WF_vars(Joined)
FairSpec == Spec /\ Fairness

-----------------------------------------------------------------------------
CallStates == {"new", "loop", "yielded", "failing", "finally", "draining", "ended"}
Results == {"none", "complete", "failed", "abandoned", "refused"}
BatchType ==
  [next : Nat, yielded : Nat, outstanding : Nat, running : Nat,
   cancelled : BOOLEAN, failed : BOOLEAN,
   outcomes : SUBSET Nat, completed : Seq(Nat)]

\* Type invariant.
TypeOK ==
  /\ batch \in [Calls -> BatchType]
  /\ batches \subseteq Calls /\ ready \in Seq(Calls) /\ readyIds \subseteq Calls
  /\ closing \in BOOLEAN /\ closed \in BOOLEAN
  /\ callState \in [Calls -> CallStates] /\ result \in [Calls -> Results]
  /\ delivered \in [Calls -> Seq(Nat)]
  /\ job \in [Workers -> (Calls \X Nat) \union {<<>>}]
  /\ workerState \in [Workers -> {"take", "fetch", "exited"}]
  /\ sleepingCalls \subseteq Calls /\ sleepingWorkers \subseteq Workers

\* The deque holds only registered batches, each at most once; a batch that
\* can dispatch is in it, and an id that is not in _ready_batch_ids any more
\* but still in the deque belongs to a batch that will never dispatch.
ReadyQueue ==
  /\ Distinct(ready)
  /\ Elements(ready) \subseteq batches
  /\ readyIds \subseteq Elements(ready)
  /\ \A c \in batches : CanDispatch(c, batch[c]) => c \in readyIds
  /\ \A c \in Elements(ready) \ readyIds : batch[c].cancelled

\* No wake-up is lost: while a worker sleeps no registered batch has an item
\* to dispatch, while a caller sleeps in its loop it has neither a result to
\* take nor an error to raise, and while it waits for its running fetches one
\* of them is still running.
NoLostWakeup ==
  /\ sleepingWorkers # {} => \A c \in batches : ~CanDispatch(c, batch[c])
  /\ \A c \in sleepingCalls :
       \/ callState[c] = "loop" /\ ~Available(c) /\ ~batch[c].failed
       \/ callState[c] \in {"failing", "draining"} /\ batch[c].running > 0

Fetching(c) == {w \in Workers : workerState[w] = "fetch" /\ job[w][1] = c}

\* The counters say what the workers do: running counts the workers that are
\* fetching for the batch, outstanding adds the results nobody has taken, and
\* the two containers of results agree.
Counters ==
  \A c \in Calls :
    /\ batch[c].running = Cardinality(Fetching(c))
    /\ batch[c].outstanding = batch[c].running + Len(batch[c].completed)
    /\ Elements(batch[c].completed) = batch[c].outcomes

\* "retain only unconsumed in-flight results" (iter_pages): a batch never has
\* more than the window of fetched or running items that its caller lacks.
WindowBound == \A c \in Calls : batch[c].outstanding \in 0..Capacity

\* Every item that was dispatched is in exactly one place: being fetched by
\* one worker, filed as a result, or delivered once.
InFlight(c) == {job[w][2] : w \in Fetching(c)}
ExactlyOnce ==
  \A c \in Calls :
    /\ InFlight(c) \union batch[c].outcomes \union Elements(delivered[c])
         = 0..(batch[c].next - 1)
    /\ Cardinality(InFlight(c)) + Cardinality(batch[c].outcomes)
         + Len(delivered[c]) = batch[c].next

\* map_ordered yields the items in order, and a call that completes has
\* yielded every item.
OrderKept ==
  \A c \in Calls :
    /\ c \in Ordered => \A k \in 1..Len(delivered[c]) : delivered[c][k] = k - 1
    /\ result[c] = "complete" => Len(delivered[c]) = Size[c]

\* Each item is fetched and delivered once, and ordered calls get their results in
\* order (_take_work_locked, map_ordered).
DeliveredExactly == TypeOK /\ ExactlyOnce /\ OrderKept

\* A call that has ended has no fetch running: iter_pages reads what its
\* fetches stored right after it has closed the generator.
QuietWhenEnded ==
  \A c \in Calls : callState[c] = "ended" => Fetching(c) = {}

\* A failed or cancelled batch dispatches nothing more, and a failure of one
\* batch never stops the dispatch of another.
FailureIsolated ==
  [][\A c \in Calls :
       /\ batch[c].failed \/ batch[c].cancelled => batch'[c].next = batch[c].next
       /\ batch'[c].failed /\ ~batch[c].failed =>
            \A d \in Calls \ {c} : batch'[d] = batch[d]]_vars

\* A call that has started ends: every item is delivered, or the call fails,
\* or its caller drops it.  Only close() in the middle of a call may leave it
\* waiting, which the scopes of use_api_runtime in the commands rule out.
CallsEnd == \A c \in Calls : callState[c] = "loop" ~> callState[c] = "ended" \/ closing
\* close() returns, also in the middle of a call.
CloseReturns == closing ~> closed
=============================================================================
