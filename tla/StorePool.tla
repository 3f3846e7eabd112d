------------------------------- MODULE StorePool -------------------------------
(***************************************************************************)
(* The pool that checks and places images: nga_tools/backup/               *)
(* image_store_runtime.py.  Worker threads take work from a bounded queue; *)
(* use_image_store_runtime starts the pool for a command and closes it     *)
(* when the command's last scope ends (commands/backup.py): by then no     *)
(* thread hands in work any more, but work may still be waiting.           *)
(***************************************************************************)
EXTENDS Integers, Sequences, FiniteSets

CONSTANTS PoolWorkers, Clients,
          MaxWork,      \* bound: work items of a client
          Idle, Gone, Stop

Capacity == 2 * Cardinality(PoolWorkers)
WorkItems == Clients \X (1..MaxWork)

StorePoolAssumption ==
  /\ IsFiniteSet(PoolWorkers) /\ PoolWorkers # {} /\ MaxWork \in Nat
  /\ Idle # Gone /\ WorkItems \intersect {Idle, Gone, Stop} = {}

VARIABLES
  pool,        \* "none", "open", "joining", "stopping": of the active runtime
  scopes,      \* the clients inside of use_image_store_runtime
  fresh,       \* the clients that have not yet been inside
  queue,       \* _queue
  unfinished,  \* the items not yet reported by task_done
  worker,      \* worker -> Idle, the item it runs, or Gone
  stops,       \* stop items still to be put
  future       \* item -> "new", "putting", "pending", "done", "failed"

poolVars == <<pool, scopes, fresh, queue, unfinished, worker, stops, future>>

PoolInit ==
  /\ pool = "none" /\ scopes = {} /\ fresh = Clients
  /\ queue = <<>> /\ unfinished = 0 /\ stops = 0
  /\ worker = [w \in PoolWorkers |-> Gone]
  /\ future = [i \in WorkItems |-> "new"]

-----------------------------------------------------------------------------

\* The first scope starts the pool, and its workers; scopes nest.
Open(c) ==
  /\ c \in fresh /\ pool \in {"none", "open"}
  /\ fresh' = fresh \ {c} /\ scopes' = scopes \union {c}
  /\ pool' = "open"
  /\ worker' = IF pool = "none" THEN [w \in PoolWorkers |-> Idle] ELSE worker
  /\ UNCHANGED <<queue, unfinished, stops, future>>

\* The pool is open, or submit raises; then the item is put, which may have to wait.
Submit(i) ==
  /\ i[1] \in scopes /\ pool = "open"
  /\ future[i] = "new" /\ \A k \in WorkItems : k[1] = i[1] => future[k] # "putting"
  /\ future' = [future EXCEPT ![i] = "putting"]
  /\ UNCHANGED <<pool, scopes, fresh, queue, unfinished, worker, stops>>

PutWork(i) ==
  /\ future[i] = "putting" /\ Len(queue) < Capacity
  /\ queue' = Append(queue, i) /\ unfinished' = unfinished + 1
  /\ future' = [future EXCEPT ![i] = "pending"]
  /\ UNCHANGED <<pool, scopes, fresh, worker, stops>>

TakeWork(w) ==
  /\ worker[w] = Idle /\ queue # <<>>
  /\ queue' = Tail(queue)
  /\ IF Head(queue) = Stop
     THEN worker' = [worker EXCEPT ![w] = Gone] /\ unfinished' = unfinished - 1
     ELSE worker' = [worker EXCEPT ![w] = Head(queue)] /\ UNCHANGED unfinished
  /\ UNCHANGED <<pool, scopes, fresh, stops, future>>

\* Mutant: a worker ends with work that raises.
AfterFailureGone == Gone
AfterFailure == Idle

\* The result, or the error, is in the future, and the worker goes on.
RunWork(w) ==
  /\ worker[w] \notin {Idle, Gone}
  /\ \E o \in {"done", "failed"} :
       /\ future' = [future EXCEPT ![worker[w]] = o]
       /\ worker' = [worker EXCEPT ![w] = IF o = "done" THEN Idle ELSE AfterFailure]
  /\ unfinished' = unfinished - 1
  /\ UNCHANGED <<pool, scopes, fresh, queue, stops>>

\* A client leaves its scope, whether or not it has waited for its work.  The last
\* one closes the pool.
LeaveScope(c) ==
  /\ c \in scopes /\ \A k \in WorkItems : k[1] = c => future[k] # "putting"
  /\ scopes' = scopes \ {c}
  /\ pool' = IF scopes = {c} THEN "joining" ELSE pool
  /\ UNCHANGED <<fresh, queue, unfinished, worker, stops, future>>

\* Mutant: one stop item, whatever the number of workers.
OneStop == 1
Stops == Cardinality(PoolWorkers)

\* close: when no item is unfinished, one stop for each worker,
Joined ==
  /\ pool = "joining" /\ unfinished = 0
  /\ pool' = "stopping" /\ stops' = Stops
  /\ UNCHANGED <<scopes, fresh, queue, unfinished, worker, future>>

PutStop ==
  /\ pool = "stopping" /\ stops > 0 /\ Len(queue) < Capacity
  /\ queue' = Append(queue, Stop) /\ unfinished' = unfinished + 1
  /\ stops' = stops - 1
  /\ UNCHANGED <<pool, scopes, fresh, worker, future>>

\* and when the threads have ended, a next command may start a pool.
Closed ==
  /\ pool = "stopping" /\ stops = 0 /\ \A w \in PoolWorkers : worker[w] = Gone
  /\ pool' = "none"
  /\ fresh' = IF fresh = {} THEN Clients ELSE fresh
  /\ future' = IF fresh = {} THEN [i \in WorkItems |-> "new"] ELSE future
  /\ UNCHANGED <<scopes, queue, unfinished, worker, stops>>

PoolStep ==
  \/ \E i \in WorkItems : PutWork(i)
  \/ \E w \in PoolWorkers : TakeWork(w) \/ RunWork(w)
  \/ \E c \in Clients : LeaveScope(c)
  \/ Joined \/ PutStop \/ Closed

PoolNext ==
  \/ PoolStep
  \/ \E c \in Clients : Open(c)
  \/ \E i \in WorkItems : Submit(i)

\* Threads run on; the bodies of scopes end, and so does each work item.
PoolFairness ==
  /\ \A i \in WorkItems : WF_poolVars(PutWork(i))
  /\ \A w \in PoolWorkers : WF_poolVars(TakeWork(w)) /\ WF_poolVars(RunWork(w))
  /\ \A c \in Clients : WF_poolVars(LeaveScope(c))
  /\ WF_poolVars(Joined) /\ WF_poolVars(PutStop) /\ WF_poolVars(Closed)

-----------------------------------------------------------------------------

PoolTypes ==
  /\ pool \in {"none", "open", "joining", "stopping"}
  /\ scopes \subseteq Clients /\ fresh \subseteq Clients
  /\ queue \in Seq(WorkItems \union {Stop}) /\ Len(queue) <= Capacity
  /\ unfinished \in Nat /\ stops \in Nat
  /\ worker \in [PoolWorkers -> WorkItems \union {Idle, Gone}]
  /\ future \in [WorkItems -> {"new", "putting", "pending", "done", "failed"}]

Busy == {w \in PoolWorkers : worker[w] \in WorkItems}
Running == {w \in PoolWorkers : worker[w] # Gone}
Waits(i) == \E k \in 1..Len(queue) : queue[k] = i
Runs(i) == \E w \in PoolWorkers : worker[w] = i

\* An item without a result is in the queue or with a worker, once; only clients
\* in a scope hand in, and as long as there is one the pool is open.
ItemsHeld ==
  /\ \A i \in WorkItems : future[i] = "pending" <=> Waits(i) \/ Runs(i)
  /\ \A i \in WorkItems : ~(Waits(i) /\ Runs(i))
  /\ \A j, k \in 1..Len(queue) : queue[j] = queue[k] /\ queue[j] # Stop => j = k
  /\ \A v, w \in Busy : worker[v] = worker[w] => v = w
  /\ \A i \in WorkItems : future[i] = "putting" => i[1] \in scopes
  /\ scopes # {} <=> pool = "open"

\* No work can find a closed queue, and join() returns when all of it is done:
\* every worker lives until then, and is sent one stop, with no work before it.
WorkersStay ==
  /\ unfinished = Len(queue) + Cardinality(Busy)
  /\ pool \in {"open", "joining"} => Running = PoolWorkers
  /\ pool = "none" => queue = <<>> /\ Running = {}
  /\ pool = "stopping" => /\ \A k \in 1..Len(queue) : queue[k] = Stop
                          /\ Busy = {} /\ stops + Len(queue) = Cardinality(Running)
  /\ pool # "stopping" => stops = 0 /\ ~Waits(Stop)

\* The pool loses no work, does none twice, and ends all of its workers, whatever
\* work raises and whoever leaves without its results.
\* (ImageStoreRuntime, use_image_store_runtime, image_store_runtime.py.)
WorkIsHeld == PoolTypes /\ ItemsHeld /\ WorkersStay

\* All work handed in gets a result, work that raises and clients that leave
\* without it notwithstanding, and the pool closes with nothing left in its queue:
\* no client waits for ever, for a place in the queue or for a result.
\* (ImageStoreRuntime, image_store_runtime.py.)
WorkIsDone ==
  /\ \A i \in WorkItems : future[i] = "putting" ~> future[i] \in {"done", "failed"}
  /\ [](pool = "joining" => <>(pool = "none" /\ queue = <<>> /\ unfinished = 0))
=============================================================================
