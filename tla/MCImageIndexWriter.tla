-------------------------- MODULE MCImageIndexWriter --------------------------
(***************************************************************************)
(* Small instances of the two services behind the image pipelines: the     *)
(* index writer and the store pool.  They share no state: in a behaviour   *)
(* one of them is used and the other rests.  Until it is used nothing of   *)
(* it is enabled that fairness asks for.                                   *)
(***************************************************************************)
EXTENDS ImageIndexWriter, TLC

CONSTANTS r1, r2, r3, r4,                            \* ImageIndexWriter
          PoolWorkers, Clients, MaxWork, Idle, Gone  \* StorePool

\* With MaxRows = 3: r1 and r2 make a batch of two transactions that cut r2.
MCRowCount == (r1 :> 2) @@ (r2 :> 3) @@ (r3 :> 1) @@ (r4 :> 0)

VARIABLES part,  \* the part that moves
          pool, scopes, fresh, work, unfinished, worker, stops, outcome

Pool == INSTANCE StorePool WITH queue <- work, future <- outcome

ASSUME PoolBounds == Pool!StorePoolAssumption

poolVars == <<pool, scopes, fresh, work, unfinished, worker, stops, outcome>>

ServicesInit == part \in {"writer", "pool"} /\ Init /\ Pool!PoolInit
WriterMoves == part = "writer" /\ Next /\ UNCHANGED <<part, poolVars>>
PoolMoves == part = "pool" /\ Pool!PoolNext /\ UNCHANGED <<part, vars>>
ServicesSpec ==
  /\ ServicesInit /\ [][WriterMoves \/ PoolMoves]_<<part, vars, poolVars>>
  /\ Fairness /\ Pool!PoolFairness

\* A request or a piece of work without an answer is in one place, once, from
\* which it will be taken, and nothing comes behind the stops
\* (image_index_writer.py, image_store_runtime.py).
NothingIsLost == RequestsAreHeld /\ Pool!WorkIsHeld

\* Whoever asks one of the services is answered, and each of them closes
\* (image_index_writer.py, image_store_runtime.py).
EveryoneIsAnswered == NobodyWaitsForEver /\ Pool!WorkIsDone
=============================================================================
