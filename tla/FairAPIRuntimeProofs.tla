------------------------ MODULE FairAPIRuntimeProofs ------------------------
(***************************************************************************)
(* Proofs about FairAPIRuntime for any calls, sizes and number of workers. *)
(***************************************************************************)
EXTENDS RoundRobin, FunctionTheorems, FiniteSetTheorems, TLAPS

-----------------------------------------------------------------------------
(* Sequences.                                                              *)

\* Appending a new element to a sequence without duplicates.
LEMMA AppendFacts ==
  ASSUME NEW S, NEW s \in Seq(S), NEW e \in S
  PROVE  /\ Append(s, e) \in Seq(S)
         /\ Len(Append(s, e)) = Len(s) + 1
         /\ Elements(Append(s, e)) = Elements(s) \union {e}
         /\ Distinct(s) /\ e \notin Elements(s) => Distinct(Append(s, e))
  BY DEF Elements, Distinct

\* Removing an element from a sequence without duplicates.
LEMMA WithoutFacts ==
  ASSUME NEW S, NEW s \in Seq(S), Distinct(s), NEW e
  PROVE  /\ Without(s, e) \in Seq(S)
         /\ Elements(Without(s, e)) = Elements(s) \ {e}
         /\ Distinct(Without(s, e))
         /\ e \in Elements(s) => Len(Without(s, e)) = Len(s) - 1
<1>1. CASE e \notin Elements(s)
  BY <1>1 DEF Without, Elements
<1>2. CASE e \in Elements(s)
  <2> DEFINE k == CHOOSE i \in 1..Len(s) : s[i] = e
             t == [i \in 1..(Len(s) - 1) |-> IF i < k THEN s[i] ELSE s[i + 1]]
  <2>1. k \in 1..Len(s) /\ s[k] = e
    BY <1>2 DEF Elements
  <2>2. Without(s, e) = t
    BY <1>2 DEF Without
  <2> HIDE DEF k
  <2>3. t \in Seq(S) /\ Len(t) = Len(s) - 1
    BY <2>1
  <2> DEFINE f(i) == IF i < k THEN i ELSE i + 1
  <2>4. \A i \in 1..Len(t) : f(i) \in 1..Len(s) \ {k} /\ t[i] = s[f(i)]
    BY <2>1, <2>3
  <2> HIDE DEF t
  <2>5. \A i \in 1..Len(s) \ {k} : \E j \in 1..Len(t) : f(j) = i
    <3> TAKE i \in 1..Len(s) \ {k}
    <3>1. CASE i < k
      <4>1. i \in 1..Len(t) /\ f(i) = i
        BY <3>1, <2>1, <2>3
      <4> QED  BY <4>1
    <3>2. CASE i > k
      <4>1. i - 1 \in 1..Len(t) /\ f(i - 1) = i
        BY <3>2, <2>1, <2>3
      <4> QED  BY <4>1
    <3> QED  BY <3>1, <3>2, <2>1
  <2>6. \A i, j \in 1..Len(t) : f(i) = f(j) => i = j
    BY <2>1, <2>3
  <2> HIDE DEF f
  <2>7. Distinct(t)
    BY <2>4, <2>6 DEF Distinct
  <2>8. Elements(t) = Elements(s) \ {e}
    <3>1. Elements(t) \subseteq Elements(s) \ {e}
      BY <2>1, <2>4 DEF Elements, Distinct
    <3>2. Elements(s) \ {e} \subseteq Elements(t)
      <4> SUFFICES ASSUME NEW i \in 1..Len(s), s[i] # e
                   PROVE  s[i] \in Elements(t)
        BY DEF Elements
      <4>1. PICK j \in 1..Len(t) : f(j) = i
        BY <2>1, <2>5
      <4> QED  BY <4>1, <2>4 DEF Elements
    <3> QED  BY <3>1, <3>2
  <2> QED  BY <2>2, <2>3, <2>7, <2>8
<1> QED  BY <1>1, <1>2

\* What is left of a sequence without duplicates after its first k elements.
LEMMA SuffixFacts ==
  ASSUME NEW S, NEW s \in Seq(S), Distinct(s), NEW k \in 1..Len(s)
  PROVE  /\ SubSeq(s, k + 1, Len(s)) \in Seq(S)
         /\ Elements(SubSeq(s, k + 1, Len(s))) = Elements(s) \ {s[i] : i \in 1..k}
         /\ Distinct(SubSeq(s, k + 1, Len(s)))
<1> DEFINE t == SubSeq(s, k + 1, Len(s))
<1>1. t \in Seq(S) /\ Len(t) = Len(s) - k
  OBVIOUS
<1>2. \A i \in 1..Len(t) : t[i] = s[i + k]
  OBVIOUS
<1> HIDE DEF t
<1>3. \A i \in 1..Len(s) : i > k => i - k \in 1..Len(t) /\ t[i - k] = s[i]
  BY <1>1, <1>2
<1>4. Distinct(t)
  BY <1>1, <1>2 DEF Distinct
<1>5. Elements(t) \subseteq Elements(s) \ {s[i] : i \in 1..k}
  BY <1>1, <1>2 DEF Elements, Distinct
<1>6. Elements(s) \ {s[i] : i \in 1..k} \subseteq Elements(t)
  <2> SUFFICES ASSUME NEW i \in 1..Len(s), s[i] \notin {s[j] : j \in 1..k}
               PROVE  s[i] \in Elements(t)
    BY DEF Elements
  <2>1. i > k
    OBVIOUS
  <2> QED  BY <2>1, <1>3 DEF Elements
<1> QED  BY <1>1, <1>4, <1>5, <1>6 DEF t

-----------------------------------------------------------------------------
(* The inductive invariant.                                                *)

\* What a worker is fetching was dispatched, has no result yet, and is fetched
\* by no other worker.
JobsOK ==
  \A w \in Workers : workerState[w] = "fetch" =>
    /\ job[w] \in Calls \X Nat
    /\ job[w][2] < batch[job[w][1]].next
    /\ job[w][2] \notin batch[job[w][1]].outcomes
    /\ \A v \in Workers : workerState[v] = "fetch" /\ job[v] = job[w] => v = w

\* The books of each batch balance.
BooksOK ==
  \A c \in Calls :
    /\ batch[c].next = batch[c].outstanding + batch[c].yielded
    /\ batch[c].next <= Size[c]
    /\ batch[c].outstanding <= Capacity
    /\ \A i \in batch[c].outcomes : i < batch[c].next
    /\ Distinct(batch[c].completed)

\* A batch that is not registered has no fetch running, and the generator is
\* between its registration and its finally block when it is registered.
LifecycleOK ==
  \A c \in Calls :
    /\ c \notin batches => batch[c].running = 0
    /\ callState[c] \in {"new", "ended"} => c \notin batches
    /\ callState[c] \in {"loop", "yielded"} => c \in batches

IInv ==
  /\ TypeOK /\ ReadyQueue /\ NoLostWakeup /\ Counters
  /\ JobsOK /\ BooksOK /\ LifecycleOK

\* MakeReady keeps the deque sound and enqueues a batch that can dispatch.
LEMMA MakeReadyFacts ==
  ASSUME NEW c \in Calls, NEW b, NEW q \in Seq(Calls), NEW ids \in SUBSET Calls,
         Distinct(q), ids \subseteq Elements(q),
         c \in Elements(q) \ ids => ~CanDispatch(c, b),
         MakeReady(c, b, q, ids)
  PROVE  /\ ready' \in Seq(Calls) /\ Distinct(ready')
         /\ ids \subseteq readyIds' /\ readyIds' \subseteq ids \union {c}
         /\ readyIds' \subseteq Elements(ready')
         /\ Elements(ready') \subseteq Elements(q) \union {c}
         /\ Elements(ready') \ readyIds' \subseteq Elements(q) \ ids
         /\ CanDispatch(c, b) => c \in readyIds'
<1>1. CASE CanDispatch(c, b) /\ c \notin ids
  <2>1. ready' = Append(q, c) /\ readyIds' = ids \union {c} /\ c \notin Elements(q)
    BY <1>1 DEF MakeReady
  <2> QED  BY <2>1, AppendFacts
<1>2. CASE ~(CanDispatch(c, b) /\ c \notin ids)
  BY <1>2 DEF MakeReady
<1> QED  BY <1>1, <1>2

\* Removing a batch takes it, and only it, out of the deque and the sets.
LEMMA RemoveBatchFacts ==
  ASSUME TypeOK, ReadyQueue, NEW c \in Calls, RemoveBatch(c)
  PROVE  /\ ready' \in Seq(Calls) /\ Distinct(ready')
         /\ Elements(ready') = Elements(ready) \ {c}
         /\ readyIds' = readyIds \ {c} /\ batches' = batches \ {c}
  BY WithoutFacts DEF TypeOK, ReadyQueue, RemoveBatch

\* Fetching(c) is finite.
LEMMA FetchingFinite ==
  ASSUME NEW c PROVE IsFiniteSet(Fetching(c)) /\ Cardinality(Fetching(c)) \in Nat
<1>1. IsFiniteSet(Workers)
  BY FS_Interval, CapacityAssumption DEF Workers
<1>2. Fetching(c) \subseteq Workers
  BY DEF Fetching
<1> QED  BY <1>1, <1>2, FS_Subset, FS_CardinalityType

LEMMA InitInv == Init => IInv
<1> SUFFICES ASSUME Init PROVE IInv
  OBVIOUS
<1>1. NewBatch \in BatchType /\ Distinct(NewBatch.completed)
      /\ Elements(NewBatch.completed) = {} /\ Len(NewBatch.completed) = 0
  BY DEF NewBatch, BatchType, Distinct, Elements
<1>2. TypeOK
  <2>1. batch \in [Calls -> BatchType] /\ delivered \in [Calls -> Seq(Nat)]
        /\ ready \in Seq(Calls)
    BY <1>1 DEF Init
  <2>2. callState \in [Calls -> CallStates] /\ result \in [Calls -> Results]
    BY DEF Init, CallStates, Results
  <2>3. /\ job \in [Workers -> (Calls \X Nat) \union {<<>>}]
        /\ workerState \in [Workers -> {"take", "fetch", "exited"}]
    BY DEF Init
  <2> QED  BY <2>1, <2>2, <2>3 DEF Init, TypeOK
<1>3. ReadyQueue
  BY DEF Init, ReadyQueue, Elements, Distinct
<1>4. NoLostWakeup
  BY DEF Init, NoLostWakeup
<1>5. Counters
  <2>1. \A c \in Calls : Fetching(c) = {}
    BY DEF Init, Fetching
  <2>2. Cardinality({}) = 0
    BY FS_EmptySet
  <2>3. \A c \in Calls : batch[c] = NewBatch
    BY DEF Init
  <2>4. NewBatch.running = 0 /\ NewBatch.outstanding = 0 /\ NewBatch.outcomes = {}
    BY DEF NewBatch
  <2> SUFFICES ASSUME NEW c \in Calls
               PROVE  /\ batch[c].running = Cardinality(Fetching(c))
                      /\ batch[c].outstanding = batch[c].running + Len(batch[c].completed)
                      /\ Elements(batch[c].completed) = batch[c].outcomes
    BY DEF Counters
  <2>5. Cardinality(Fetching(c)) = 0
    BY <2>1, <2>2
  <2>6. batch[c].running = Cardinality(Fetching(c))
    BY <2>3, <2>4, <2>5
  <2>7. batch[c].outstanding = batch[c].running + Len(batch[c].completed)
    BY <2>3 DEF NewBatch
  <2>8. Elements(batch[c].completed) = batch[c].outcomes
    BY <1>1, <2>3, <2>4
  <2> QED  BY <2>6, <2>7, <2>8
<1>6. JobsOK /\ BooksOK /\ LifecycleOK
  BY <1>1, CapacityAssumption, CallsAssumption
     DEF Init, JobsOK, BooksOK, LifecycleOK, NewBatch
<1> QED  BY <1>2, <1>3, <1>4, <1>5, <1>6 DEF IInv

-----------------------------------------------------------------------------
(* Steps that change nothing of a batch but its cancelled flag.            *)

SameBooks ==
  /\ batch' \in [Calls -> BatchType]
  /\ \A c \in Calls :
       /\ batch'[c].next = batch[c].next /\ batch'[c].yielded = batch[c].yielded
       /\ batch'[c].outstanding = batch[c].outstanding
       /\ batch'[c].running = batch[c].running
       /\ batch'[c].outcomes = batch[c].outcomes
       /\ batch'[c].completed = batch[c].completed
       /\ batch'[c].failed = batch[c].failed
       /\ batch[c].cancelled => batch'[c].cancelled

\* A step that leaves the batches alone.
LEMMA UnchangedBooks == TypeOK /\ UNCHANGED batch => SameBooks
  BY DEF TypeOK, SameBooks

\* Setting a cancelled flag.
LEMMA CancelOne ==
  ASSUME TypeOK, NEW c \in Calls, NEW v \in BOOLEAN, batch[c].cancelled => v,
         batch' = [batch EXCEPT ![c].cancelled = v]
  PROVE  SameBooks /\ batch'[c].cancelled = v
<1>1. batch \in [Calls -> BatchType]
  BY DEF TypeOK
<1>2. \A d \in Calls : batch[d] \in BatchType
  BY <1>1
<1>3. [batch[c] EXCEPT !.cancelled = v] \in BatchType
  BY <1>2 DEF BatchType
<1>4. batch' = [batch EXCEPT ![c] = [batch[c] EXCEPT !.cancelled = v]]
  OBVIOUS
<1>5. batch' \in [Calls -> BatchType]
  BY <1>1, <1>3, <1>4
<1>6. \A d \in Calls : d # c => batch'[d] = batch[d]
  BY <1>1
<1>7. batch'[c] = [batch[c] EXCEPT !.cancelled = v]
  BY <1>1
<1>8. /\ batch'[c].cancelled = v
      /\ batch'[c].next = batch[c].next /\ batch'[c].yielded = batch[c].yielded
      /\ batch'[c].outstanding = batch[c].outstanding
      /\ batch'[c].running = batch[c].running
      /\ batch'[c].outcomes = batch[c].outcomes
      /\ batch'[c].completed = batch[c].completed
      /\ batch'[c].failed = batch[c].failed
  BY <1>2, <1>7 DEF BatchType
<1> QED  BY <1>5, <1>6, <1>8 DEF SameBooks

\* Such steps keep the books and the workers' jobs.
LEMMA SameBooksFacts ==
  ASSUME Counters, JobsOK, BooksOK, TypeOK, SameBooks, UNCHANGED workerVars
  PROVE  Counters' /\ JobsOK' /\ BooksOK'
<1>1. Counters'
  <2>1. \A c \in Calls : Fetching(c)' = Fetching(c)
    BY DEF Fetching, workerVars
  <2> QED  BY <2>1 DEF Counters, SameBooks, Elements
<1>2. JobsOK'
  <2> SUFFICES ASSUME NEW w \in Workers, workerState[w] = "fetch"
               PROVE  /\ job[w] \in Calls \X Nat
                      /\ job[w][2] < batch'[job[w][1]].next
                      /\ job[w][2] \notin batch'[job[w][1]].outcomes
                      /\ \A v \in Workers :
                           workerState[v] = "fetch" /\ job[v] = job[w] => v = w
    BY DEF JobsOK, workerVars
  <2>1. job[w] \in Calls \X Nat
    BY DEF JobsOK
  <2>2. job[w][1] \in Calls
    BY <2>1
  <2> QED  BY <2>1, <2>2 DEF JobsOK, SameBooks
<1>3. BooksOK'
  BY DEF BooksOK, SameBooks, Distinct
<1> QED  BY <1>1, <1>2, <1>3

\* A batch that can dispatch after such a step could dispatch before it.
LEMMA SameBooksDispatch ==
  ASSUME TypeOK, SameBooks, NEW c \in Calls, CanDispatch(c, batch'[c])
  PROVE  CanDispatch(c, batch[c])
  BY DEF SameBooks, CanDispatch

-----------------------------------------------------------------------------
(* The actions of the calling thread.                                      *)

\* Steps that only move the generator on, or put its thread to sleep.
LEMMA EndAtOnceInv == ASSUME IInv, NEW c \in Calls, EndAtOnce(c) PROVE IInv'
<1> USE DEF EndAtOnce, Goto, EndAs
<1>1. TypeOK'
  BY DEF IInv, TypeOK, CallStates, Results, queueVars, closeVars, workerVars, sleepVars
<1>2. Counters' /\ JobsOK' /\ BooksOK'
  BY UnchangedBooks, SameBooksFacts DEF IInv
<1>3. ReadyQueue'
  BY DEF IInv, ReadyQueue, queueVars, Distinct, Elements, CanDispatch
<1>4. NoLostWakeup'
  BY DEF IInv, TypeOK, NoLostWakeup, queueVars, sleepVars, CanDispatch, Available
<1>5. LifecycleOK'
  BY DEF IInv, TypeOK, LifecycleOK, queueVars
<1> QED  BY <1>1, <1>2, <1>3, <1>4, <1>5 DEF IInv

LEMMA AwaitResultInv == ASSUME IInv, NEW c \in Calls, AwaitResult(c) PROVE IInv'
<1> USE DEF AwaitResult
<1>1. TypeOK'
  BY DEF IInv, TypeOK, queueVars, closeVars, callVars, workerVars
<1>2. Counters' /\ JobsOK' /\ BooksOK'
  BY UnchangedBooks, SameBooksFacts DEF IInv
<1>3. ReadyQueue'
  BY DEF IInv, ReadyQueue, queueVars, Distinct, Elements, CanDispatch
<1>4. NoLostWakeup'
  BY DEF IInv, TypeOK, NoLostWakeup, queueVars, callVars, CanDispatch, Available
<1>5. LifecycleOK'
  BY DEF IInv, TypeOK, LifecycleOK, queueVars, callVars
<1> QED  BY <1>1, <1>2, <1>3, <1>4, <1>5 DEF IInv

LEMMA MoveOnInv ==
  ASSUME IInv, NEW c \in Calls, Resume(c) \/ Abandon(c)
  PROVE  IInv'
<1> USE DEF Resume, Abandon, Goto, EndAs
<1>1. TypeOK'
  BY DEF IInv, TypeOK, CallStates, Results, queueVars, closeVars, workerVars, sleepVars
<1>2. Counters' /\ JobsOK' /\ BooksOK'
  BY UnchangedBooks, SameBooksFacts DEF IInv
<1>3. ReadyQueue'
  BY DEF IInv, ReadyQueue, queueVars, Distinct, Elements, CanDispatch
<1>4. NoLostWakeup'
  BY DEF IInv, TypeOK, NoLostWakeup, queueVars, sleepVars, CanDispatch, Available
<1>5. LifecycleOK'
  BY DEF IInv, TypeOK, LifecycleOK, queueVars
<1> QED  BY <1>1, <1>2, <1>3, <1>4, <1>5 DEF IInv

\* A step that changes no variable.
LEMMA StutterInv == ASSUME IInv, UNCHANGED vars PROVE IInv'
<1> USE DEF vars, queueVars, closeVars, callVars, workerVars, sleepVars
<1>1. TypeOK'
  BY DEF IInv, TypeOK
<1>2. Counters' /\ JobsOK' /\ BooksOK'
  BY UnchangedBooks, SameBooksFacts DEF IInv
<1>3. ReadyQueue'
  BY DEF IInv, ReadyQueue, Distinct, Elements, CanDispatch
<1>4. NoLostWakeup'
  BY DEF IInv, NoLostWakeup, CanDispatch, Available
<1>5. LifecycleOK'
  BY DEF IInv, LifecycleOK
<1> QED  BY <1>1, <1>2, <1>3, <1>4, <1>5 DEF IInv

\* Removing a batch that has no fetch running, or has yielded everything.
LEMMA YieldedNotRunning ==
  ASSUME IInv, NEW c \in Calls, MayRemove(c)
  PROVE  batch[c].running = 0
<1>1. batch[c] \in BatchType
  BY DEF IInv, TypeOK
<1>2. batch[c].running \in Nat /\ batch[c].outstanding \in Nat
      /\ batch[c].yielded \in Nat /\ Len(batch[c].completed) \in Nat
  BY <1>1 DEF BatchType
<1>3. batch[c].outstanding = batch[c].running + Len(batch[c].completed)
  BY DEF IInv, Counters
<1>4. batch[c].outstanding + batch[c].yielded <= Size[c]
  BY DEF IInv, BooksOK
<1>5. Size[c] \in Nat
  BY CallsAssumption
<1> QED  BY <1>2, <1>3, <1>4, <1>5 DEF MayRemove

\* What a removal leaves is a sound queue.
LEMMA RemoveBatchQueue ==
  ASSUME IInv, NEW c \in Calls, RemoveBatch(c), SameBooks
  PROVE  /\ ReadyQueue'
         /\ ready' \in Seq(Calls) /\ readyIds' \subseteq Calls /\ batches' \subseteq Calls
<1>1. TypeOK /\ ReadyQueue
  BY DEF IInv
<1>2. /\ ready' \in Seq(Calls) /\ Distinct(ready')
      /\ Elements(ready') = Elements(ready) \ {c}
      /\ readyIds' = readyIds \ {c} /\ batches' = batches \ {c}
  BY <1>1, RemoveBatchFacts
<1>3. readyIds' \subseteq Calls /\ batches' \subseteq Calls
  BY <1>1, <1>2 DEF TypeOK
<1>4. \A d \in batches' : CanDispatch(d, batch'[d]) => d \in readyIds'
  <2> SUFFICES ASSUME NEW d \in batches', CanDispatch(d, batch'[d])
               PROVE  d \in readyIds'
    OBVIOUS
  <2>1. CanDispatch(d, batch[d])
    BY <1>1, <1>3, SameBooksDispatch
  <2> QED  BY <1>1, <1>2, <2>1 DEF ReadyQueue
<1>5. \A d \in Elements(ready') \ readyIds' : batch'[d].cancelled
  BY <1>1, <1>2 DEF ReadyQueue, SameBooks, TypeOK
<1>6. Elements(ready') \subseteq batches' /\ readyIds' \subseteq Elements(ready')
  BY <1>1, <1>2 DEF ReadyQueue
<1>7. Distinct(ready)' /\ Elements(ready)' = Elements(ready')
  BY <1>2 DEF Distinct, Elements
<1>8. ReadyQueue'
  BY <1>2, <1>4, <1>5, <1>6, <1>7 DEF ReadyQueue, CanDispatch
<1> QED  BY <1>2, <1>3, <1>8

\* Nobody sleeps through a removal or a cancellation: a batch that cannot
\* dispatch still cannot, and the sleeping callers wait for the same thing.
LEMMA SameBooksWakeup ==
  ASSUME IInv, SameBooks, batches' \subseteq batches,
         sleepingWorkers' \subseteq sleepingWorkers,
         \A d \in sleepingCalls' :
           \/ d \in sleepingCalls /\ callState'[d] = callState[d]
           \/ d \in Calls /\ callState'[d] \in {"failing", "draining"} /\ batch[d].running > 0
  PROVE  NoLostWakeup'
<1>1. TypeOK /\ NoLostWakeup
  BY DEF IInv
<1>2. sleepingWorkers' # {} => \A d \in batches' : ~CanDispatch(d, batch'[d])
  <2> SUFFICES ASSUME sleepingWorkers' # {}, NEW d \in batches', CanDispatch(d, batch'[d])
               PROVE  FALSE
    OBVIOUS
  <2>1. CanDispatch(d, batch[d])
    BY <1>1, SameBooksDispatch DEF TypeOK
  <2> QED  BY <1>1, <2>1 DEF NoLostWakeup
<1>3. \A d \in sleepingCalls' :
         \/ callState'[d] = "loop" /\ ~Available(d)' /\ ~batch'[d].failed
         \/ callState'[d] \in {"failing", "draining"} /\ batch'[d].running > 0
  <2> SUFFICES ASSUME NEW d \in sleepingCalls'
               PROVE  \/ callState'[d] = "loop" /\ ~Available(d)' /\ ~batch'[d].failed
                      \/ callState'[d] \in {"failing", "draining"} /\ batch'[d].running > 0
    OBVIOUS
  <2>1. d \in Calls
    BY <1>1 DEF TypeOK
  <2>2. Available(d)' = Available(d) /\ batch'[d].running = batch[d].running
        /\ batch'[d].failed = batch[d].failed
    BY <2>1 DEF SameBooks, Available
  <2>3. CASE d \in sleepingCalls /\ callState'[d] = callState[d]
    BY <2>2, <2>3, <1>1 DEF NoLostWakeup
  <2>4. CASE callState'[d] \in {"failing", "draining"} /\ batch[d].running > 0
    BY <2>2, <2>4
  <2> QED  BY <2>3, <2>4
<1> QED  BY <1>2, <1>3 DEF NoLostWakeup, CanDispatch

LEMMA AwaitFailedInv == ASSUME IInv, NEW c \in Calls, AwaitFailed(c) PROVE IInv'
<1> USE DEF AwaitFailed
<1>1. TypeOK /\ SameBooks
  BY CancelOne DEF IInv
<1>2. Counters' /\ JobsOK' /\ BooksOK'
  BY <1>1, SameBooksFacts DEF IInv
<1>3. callState[c] \in {"loop", "failing"} /\ c \notin sleepingCalls
  OBVIOUS
<1>4. CASE batch[c].running = 0
  <2>1. RemoveBatch(c) /\ Goto(c, "finally") /\ UNCHANGED sleepingCalls
    BY <1>4
  <2>2. /\ ReadyQueue'
        /\ ready' \in Seq(Calls) /\ readyIds' \subseteq Calls /\ batches' \subseteq Calls
    BY <1>1, <2>1, RemoveBatchQueue
  <2>3. batches' = batches \ {c}
    BY <2>1 DEF RemoveBatch
  <2>4. TypeOK'
    BY <1>1, <2>1, <2>2 DEF TypeOK, SameBooks, Goto, EndAs, CallStates, Results,
                            closeVars, workerVars
  <2>5. NoLostWakeup'
    BY <1>1, <1>3, <2>1, <2>3, SameBooksWakeup DEF Goto, TypeOK
  <2>6. LifecycleOK'
    BY <1>1, <1>4, <2>1, <2>3 DEF IInv, LifecycleOK, SameBooks, Goto, TypeOK
  <2> QED  BY <1>2, <2>2, <2>4, <2>5, <2>6 DEF IInv
<1>5. CASE batch[c].running # 0
  <2>1. /\ Goto(c, "failing") /\ sleepingCalls' = sleepingCalls \union {c}
        /\ UNCHANGED queueVars
    BY <1>5
  <2>2. TypeOK'
    BY <1>1, <2>1 DEF TypeOK, SameBooks, Goto, EndAs, CallStates, Results,
                      closeVars, workerVars, queueVars
  <2>3. batch[c].running > 0
    BY <1>1, <1>5 DEF TypeOK, BatchType
  <2>4. NoLostWakeup'
    BY <1>1, <1>3, <2>1, <2>3, SameBooksWakeup DEF Goto, TypeOK, queueVars
  <2>5. ReadyQueue'
    <3>1. \A d \in batches : CanDispatch(d, batch'[d]) => d \in readyIds
      BY <1>1, SameBooksDispatch DEF IInv, ReadyQueue, TypeOK
    <3>2. \A d \in Elements(ready) \ readyIds : batch'[d].cancelled
      BY <1>1 DEF IInv, ReadyQueue, SameBooks, TypeOK
    <3> QED  BY <2>1, <3>1, <3>2
             DEF IInv, ReadyQueue, queueVars, Elements, Distinct, CanDispatch
  <2>6. LifecycleOK'
    BY <1>1, <1>3, <2>1 DEF IInv, LifecycleOK, SameBooks, Goto, TypeOK, queueVars
  <2> QED  BY <1>2, <2>2, <2>4, <2>5, <2>6 DEF IInv
<1> QED  BY <1>4, <1>5

\* The batch is taken out and the generator ends.
LEMMA RemovalInv ==
  ASSUME IInv, NEW c \in Calls, SameBooks, batch[c].running = 0,
         RemoveBatch(c), Goto(c, "ended"), NotifyAll,
         UNCHANGED <<closeVars, result, delivered, workerVars>>
  PROVE  IInv'
<1>1. TypeOK
  BY DEF IInv
<1>2. Counters' /\ JobsOK' /\ BooksOK'
  BY <1>1, SameBooksFacts DEF IInv
<1>3. /\ ReadyQueue'
      /\ ready' \in Seq(Calls) /\ readyIds' \subseteq Calls /\ batches' \subseteq Calls
  BY RemoveBatchQueue
<1>4. batches' = batches \ {c}
  BY DEF RemoveBatch
<1>5. TypeOK'
  BY <1>1, <1>3 DEF TypeOK, SameBooks, Goto, CallStates, NotifyAll, closeVars, workerVars
<1>6. NoLostWakeup'
  BY DEF NotifyAll, NoLostWakeup
<1>7. LifecycleOK'
  BY <1>1, <1>4 DEF IInv, LifecycleOK, SameBooks, Goto, TypeOK
<1> QED  BY <1>2, <1>3, <1>5, <1>6, <1>7 DEF IInv

LEMMA FinallyInv == ASSUME IInv, NEW c \in Calls, Finally(c) PROVE IInv'
<1>1. TypeOK /\ batch \in [Calls -> BatchType] /\ batch[c] \in BatchType
  BY DEF IInv, TypeOK
<1>2. batch[c].cancelled \in BOOLEAN
  BY <1>1 DEF BatchType
<1> DEFINE v == batch[c].cancelled \/ batch[c].yielded < Size[c]
<1>3. v \in BOOLEAN /\ (batch[c].cancelled => v)
  BY <1>2
<1>4. batch' = [batch EXCEPT ![c].cancelled = v]
  BY <1>1 DEF Finally
<1> HIDE DEF v
<1>5. SameBooks /\ batch'[c].cancelled = v
  BY <1>1, <1>3, <1>4, CancelOne
<1>6. CASE MayRemove(c)
  <2>1. RemoveBatch(c) /\ Goto(c, "ended") /\ NotifyAll
    BY <1>6 DEF Finally
  <2>2. batch[c].running = 0
    BY <1>6, YieldedNotRunning
  <2> QED  BY <1>5, <2>1, <2>2, RemovalInv DEF Finally
<1>7. CASE ~MayRemove(c)
  <2>1. /\ readyIds' = readyIds \ {c} /\ Goto(c, "draining")
        /\ sleepingCalls' = {c} /\ sleepingWorkers' = {}
        /\ UNCHANGED <<batches, ready, closeVars, result, delivered, workerVars>>
    BY <1>7 DEF Finally
  <2>2. batch[c].running > 0 /\ v
    <3>1. batch[c].yielded \in Nat /\ Size[c] \in Nat /\ batch[c].running \in Nat
      BY <1>1, CallsAssumption DEF BatchType
    <3> QED  BY <3>1, <1>7 DEF MayRemove, v
  <2>3. TypeOK'
    BY <1>1, <1>5, <2>1 DEF TypeOK, SameBooks, Goto, CallStates, closeVars, workerVars
  <2>4. Counters' /\ JobsOK' /\ BooksOK'
    BY <1>1, <1>5, <2>1, SameBooksFacts DEF IInv
  <2>5. NoLostWakeup'
    BY <1>1, <1>5, <2>1, <2>2, SameBooksWakeup DEF Goto, TypeOK
  <2>6. LifecycleOK'
    BY <1>1, <1>5, <2>1 DEF IInv, LifecycleOK, SameBooks, Goto, TypeOK
  <2>7. ReadyQueue'
    <3>1. ~CanDispatch(c, batch'[c])
      BY <1>5, <2>2 DEF CanDispatch
    <3>2. \A d \in batches : CanDispatch(d, batch'[d]) => d \in readyIds \ {c}
      BY <1>1, <1>5, <3>1, SameBooksDispatch DEF IInv, ReadyQueue, TypeOK
    <3>3. \A d \in Elements(ready) \ (readyIds \ {c}) : batch'[d].cancelled
      BY <1>1, <1>5, <2>2 DEF IInv, ReadyQueue, SameBooks, TypeOK
    <3> QED  BY <2>1, <3>2, <3>3
             DEF IInv, ReadyQueue, Elements, Distinct, CanDispatch
  <2> QED  BY <2>3, <2>4, <2>5, <2>6, <2>7 DEF IInv
<1> QED  BY <1>6, <1>7

LEMMA DrainInv == ASSUME IInv, NEW c \in Calls, Drain(c) PROVE IInv'
<1>1. TypeOK /\ SameBooks
  BY UnchangedBooks DEF Drain, IInv
<1>2. CASE batch[c].running = 0
  BY <1>1, <1>2, RemovalInv DEF Drain
<1>3. CASE batch[c].running # 0
  <2>1. /\ sleepingCalls' = sleepingCalls \union {c}
        /\ UNCHANGED <<batch, queueVars, callVars, sleepingWorkers, closeVars, workerVars>>
    BY <1>3 DEF Drain, callVars
  <2>2. TypeOK'
    BY <1>1, <2>1 DEF TypeOK, queueVars, closeVars, callVars, workerVars
  <2>3. Counters' /\ JobsOK' /\ BooksOK'
    BY <1>1, <2>1, SameBooksFacts DEF IInv
  <2>4. batch[c].running > 0
    BY <1>1, <1>3 DEF TypeOK, BatchType
  <2>5. NoLostWakeup'
    BY <1>1, <2>1, <2>4, SameBooksWakeup DEF Drain, queueVars, callVars
  <2>6. ReadyQueue'
    BY <2>1 DEF IInv, ReadyQueue, queueVars, Distinct, Elements, CanDispatch
  <2>7. LifecycleOK'
    BY <2>1 DEF IInv, LifecycleOK, queueVars, callVars
  <2> QED  BY <2>2, <2>3, <2>5, <2>6, <2>7 DEF IInv
<1> QED  BY <1>2, <1>3

\* Enqueueing the batch of c, whose record becomes b, keeps the queue sound.
LEMMA MakeReadyQueue ==
  ASSUME IInv, NEW c \in Calls, NEW b, MakeReady(c, b, ready, readyIds),
         batch' \in [Calls -> BatchType], batch'[c] = b,
         batch[c].cancelled => b.cancelled,
         \A d \in Calls \ {c} : batch'[d] = batch[d],
         batches' = batches \union {c}
  PROVE  ReadyQueue' /\ ready' \in Seq(Calls) /\ readyIds' \subseteq Calls
<1>1. TypeOK /\ ReadyQueue
  BY DEF IInv
<1>2. /\ ready \in Seq(Calls) /\ readyIds \in SUBSET Calls /\ Distinct(ready)
      /\ readyIds \subseteq Elements(ready)
  BY <1>1 DEF TypeOK, ReadyQueue
<1>3. c \in Elements(ready) \ readyIds => ~CanDispatch(c, b)
  BY <1>1 DEF ReadyQueue, CanDispatch
<1>4. /\ ready' \in Seq(Calls) /\ Distinct(ready')
      /\ readyIds \subseteq readyIds' /\ readyIds' \subseteq readyIds \union {c}
      /\ readyIds' \subseteq Elements(ready')
      /\ Elements(ready') \subseteq Elements(ready) \union {c}
      /\ Elements(ready') \ readyIds' \subseteq Elements(ready) \ readyIds
      /\ CanDispatch(c, b) => c \in readyIds'
  BY <1>2, <1>3, MakeReadyFacts, SMTT(20)
<1>5. Elements(ready') \subseteq batches' /\ readyIds' \subseteq Calls
  BY <1>1, <1>4 DEF ReadyQueue, TypeOK
<1>6. \A d \in batches' : CanDispatch(d, batch'[d]) => d \in readyIds'
  BY <1>1, <1>4 DEF ReadyQueue, TypeOK
<1>7. \A d \in Elements(ready') \ readyIds' : batch'[d].cancelled
  <2> SUFFICES ASSUME NEW d \in Elements(ready') \ readyIds'
               PROVE  batch'[d].cancelled
    OBVIOUS
  <2>1. batch[d].cancelled /\ d \in Calls
    BY <1>1, <1>4 DEF ReadyQueue, TypeOK
  <2> QED  BY <2>1
<1>8. Distinct(ready)' /\ Elements(ready)' = Elements(ready')
  BY <1>4 DEF Distinct, Elements
<1>9. ReadyQueue'
  BY <1>4, <1>5, <1>6, <1>7, <1>8 DEF ReadyQueue, CanDispatch
<1> QED  BY <1>4, <1>5, <1>9

LEMMA RegisterInv == ASSUME IInv, NEW c \in Calls, Register(c) PROVE IInv'
<1>1. TypeOK /\ SameBooks
  BY UnchangedBooks DEF Register, IInv
<1>2. ReadyQueue' /\ ready' \in Seq(Calls) /\ readyIds' \subseteq Calls
  BY <1>1, MakeReadyQueue DEF Register, TypeOK
<1>3. TypeOK'
  BY <1>1, <1>2 DEF Register, TypeOK, Goto, CallStates, NotifyAll, closeVars, workerVars
<1>4. Counters' /\ JobsOK' /\ BooksOK'
  BY <1>1, SameBooksFacts DEF IInv, Register
<1>5. NoLostWakeup'
  BY DEF Register, NotifyAll, NoLostWakeup
<1>6. LifecycleOK'
  BY <1>1 DEF IInv, LifecycleOK, Register, Goto, TypeOK
<1> QED  BY <1>2, <1>3, <1>4, <1>5, <1>6 DEF IInv

\* Taking a result that is there moves it out of the two containers.
LEMMA ConsumedFacts ==
  ASSUME IInv, NEW c \in Calls, Available(c), NEW b, b = Consumed(batch[c], NextIndex(c))
  PROVE  /\ NextIndex(c) \in batch[c].outcomes /\ NextIndex(c) \in Nat
         /\ b \in BatchType
         /\ b.next = batch[c].next /\ b.yielded = batch[c].yielded + 1
         /\ b.outstanding = batch[c].outstanding - 1 /\ b.running = batch[c].running
         /\ b.cancelled = batch[c].cancelled /\ b.failed = batch[c].failed
         /\ b.outcomes = batch[c].outcomes \ {NextIndex(c)}
         /\ Distinct(b.completed) /\ Elements(b.completed) = b.outcomes
         /\ Len(b.completed) = Len(batch[c].completed) - 1
<1> DEFINE a == batch[c]
           i == NextIndex(c)
<1>1. a \in BatchType
  BY DEF IInv, TypeOK
<1>2. /\ a.next \in Nat /\ a.yielded \in Nat /\ a.outstanding \in Nat /\ a.running \in Nat
      /\ a.cancelled \in BOOLEAN /\ a.failed \in BOOLEAN
      /\ a.outcomes \in SUBSET Nat /\ a.completed \in Seq(Nat)
  BY <1>1 DEF BatchType
<1>3. Elements(a.completed) = a.outcomes /\ a.outstanding = a.running + Len(a.completed)
  BY DEF IInv, Counters
<1>4. Distinct(a.completed)
  BY DEF IInv, BooksOK
<1>5. i \in a.outcomes
  <2>1. CASE c \in Ordered
    BY <2>1 DEF Available, NextIndex
  <2>2. CASE c \notin Ordered
    <3>1. a.completed # <<>> /\ i = Head(a.completed)
      BY <2>2 DEF Available, NextIndex
    <3>2. 1 \in 1..Len(a.completed) /\ i = a.completed[1]
      BY <1>2, <3>1
    <3> QED  BY <1>3, <3>2 DEF Elements
  <2> QED  BY <2>1, <2>2
<1>6. i \in Nat
  BY <1>2, <1>5
<1> HIDE DEF i
<1> DEFINE s == a.completed
           t == Without(s, i)
<1>7. /\ t \in Seq(Nat) /\ Elements(t) = a.outcomes \ {i} /\ Distinct(t)
      /\ Len(t) = Len(a.completed) - 1
  <2>1. s \in Seq(Nat) /\ Distinct(s) /\ Elements(s) = a.outcomes
    BY <1>2, <1>3, <1>4
  <2> HIDE DEF s
  <2>2. /\ t \in Seq(Nat) /\ Elements(t) = Elements(s) \ {i} /\ Distinct(t)
        /\ i \in Elements(s) => Len(t) = Len(s) - 1
    BY <2>1, WithoutFacts
  <2> QED  BY <2>1, <2>2, <1>5 DEF s
<1>8. b = [a EXCEPT !.outcomes = a.outcomes \ {i}, !.completed = t,
                    !.outstanding = a.outstanding - 1, !.yielded = a.yielded + 1]
  BY DEF Consumed, i
<1> HIDE DEF t
<1>9. a.outstanding - 1 \in Nat
  <2>1. Len(t) \in Nat /\ Len(a.completed) = Len(t) + 1
    BY <1>2, <1>7
  <2> QED  BY <1>2, <1>3, <2>1
<1>10. b \in BatchType
  <2>1. a.outcomes \ {i} \in SUBSET Nat /\ a.yielded + 1 \in Nat
    BY <1>2
  <2> DEFINE u == a.outcomes \ {i}
             n == a.outstanding - 1
             m == a.yielded + 1
  <2>2. b = [a EXCEPT !.outcomes = u, !.completed = t, !.outstanding = n, !.yielded = m]
        /\ u \in SUBSET Nat /\ n \in Nat /\ m \in Nat
    BY <1>8, <1>9, <2>1
  <2> HIDE DEF a, u, n, m
  <2> QED  BY <1>1, <1>7, <2>2 DEF BatchType
<1>11. /\ b.next = a.next /\ b.yielded = a.yielded + 1
       /\ b.outstanding = a.outstanding - 1 /\ b.running = a.running
       /\ b.cancelled = a.cancelled /\ b.failed = a.failed
       /\ b.outcomes = a.outcomes \ {i} /\ b.completed = t
  BY <1>1, <1>8 DEF BatchType
<1> QED  BY <1>5, <1>6, <1>7, <1>10, <1>11 DEF i

LEMMA ConsumeInv == ASSUME IInv, NEW c \in Calls, Consume(c) PROVE IInv'
<1> DEFINE i == NextIndex(c)
           b == Consumed(batch[c], i)
<1>1. TypeOK /\ Available(c) /\ batch \in [Calls -> BatchType]
  BY DEF Consume, IInv, TypeOK
<1>2. /\ batch' = [batch EXCEPT ![c] = b]
      /\ MakeReady(c, b, ready, readyIds)
      /\ delivered' = [delivered EXCEPT ![c] = Append(delivered[c], i)]
      /\ Goto(c, "yielded") /\ NotifyAll /\ callState[c] = "loop"
      /\ UNCHANGED <<batches, closeVars, result, workerVars>>
  BY DEF Consume
<1>3. /\ i \in batch[c].outcomes /\ i \in Nat /\ b \in BatchType
      /\ b.next = batch[c].next /\ b.yielded = batch[c].yielded + 1
      /\ b.outstanding = batch[c].outstanding - 1 /\ b.running = batch[c].running
      /\ b.cancelled = batch[c].cancelled /\ b.failed = batch[c].failed
      /\ b.outcomes = batch[c].outcomes \ {i}
      /\ Distinct(b.completed) /\ Elements(b.completed) = b.outcomes
      /\ Len(b.completed) = Len(batch[c].completed) - 1
  BY <1>1, ConsumedFacts
<1> HIDE DEF i, b
<1>4. /\ batch' \in [Calls -> BatchType] /\ batch'[c] = b
      /\ \A d \in Calls \ {c} : batch'[d] = batch[d]
  BY <1>1, <1>2, <1>3
<1>5. c \in batches
  BY <1>2 DEF IInv, LifecycleOK
<1>6. ReadyQueue' /\ ready' \in Seq(Calls) /\ readyIds' \subseteq Calls
  BY <1>2, <1>3, <1>4, <1>5, MakeReadyQueue
<1>7. delivered' \in [Calls -> Seq(Nat)]
  BY <1>1, <1>2, <1>3 DEF TypeOK
<1>8. TypeOK'
  BY <1>1, <1>2, <1>4, <1>6, <1>7
     DEF TypeOK, Goto, CallStates, NotifyAll, closeVars, workerVars
<1>9. NoLostWakeup'
  BY <1>2 DEF NotifyAll, NoLostWakeup
<1>10. LifecycleOK'
  BY <1>1, <1>2, <1>3, <1>4, <1>5 DEF IInv, LifecycleOK, Goto, TypeOK
<1>11. \A d \in Calls : Fetching(d)' = Fetching(d)
  BY <1>2 DEF Fetching, workerVars
<1>12. Counters'
  <2>1. batch[c].outstanding \in Nat /\ batch[c].running \in Nat
        /\ batch[c].completed \in Seq(Nat)
    BY <1>1 DEF BatchType
  <2>2. batch[c].outstanding = batch[c].running + Len(batch[c].completed)
        /\ batch[c].running = Cardinality(Fetching(c))
    BY DEF IInv, Counters
  <2>3. b.outstanding = b.running + Len(b.completed) /\ b.running = Cardinality(Fetching(c))
    BY <1>3, <2>1, <2>2
  <2> SUFFICES ASSUME NEW d \in Calls
               PROVE  /\ batch'[d].running = Cardinality(Fetching(d))
                      /\ batch'[d].outstanding = batch'[d].running + Len(batch'[d].completed)
                      /\ Elements(batch'[d].completed) = batch'[d].outcomes
    BY <1>11 DEF Counters, Elements
  <2>4. CASE d = c
    BY <1>3, <1>4, <2>3, <2>4
  <2>5. CASE d # c
    BY <1>4, <2>5 DEF IInv, Counters
  <2> QED  BY <2>4, <2>5
<1>13. BooksOK'
  <2>1. batch[c].outstanding \in Nat /\ batch[c].next \in Nat /\ batch[c].yielded \in Nat
    BY <1>1 DEF BatchType
  <2>2. /\ b.next = b.outstanding + b.yielded /\ b.next <= Size[c]
        /\ b.outstanding <= Capacity
        /\ \A k \in b.outcomes : k < b.next
    <3>1. /\ batch[c].next = batch[c].outstanding + batch[c].yielded
          /\ batch[c].next <= Size[c] /\ batch[c].outstanding <= Capacity
          /\ \A k \in batch[c].outcomes : k < batch[c].next
      BY DEF IInv, BooksOK
    <3>2. \A k \in b.outcomes : k < b.next
      BY <1>3, <3>1
    <3>3. b.next = b.outstanding + b.yielded /\ b.next <= Size[c]
      BY <1>3, <2>1, <3>1, SMTT(20)
    <3>4. b.outstanding <= Capacity
      BY <1>3, <2>1, <3>1, CapacityAssumption
    <3> QED  BY <3>2, <3>3, <3>4
  <2> SUFFICES ASSUME NEW d \in Calls
               PROVE  /\ batch'[d].next = batch'[d].outstanding + batch'[d].yielded
                      /\ batch'[d].next <= Size[d]
                      /\ batch'[d].outstanding <= Capacity
                      /\ \A k \in batch'[d].outcomes : k < batch'[d].next
                      /\ Distinct(batch'[d].completed)
    BY DEF BooksOK, Distinct
  <2>3. CASE d = c
    BY <1>3, <1>4, <2>2, <2>3
  <2>4. CASE d # c
    BY <1>4, <2>4 DEF IInv, BooksOK
  <2> QED  BY <2>3, <2>4
<1>14. JobsOK'
  <2> SUFFICES ASSUME NEW w \in Workers, workerState[w] = "fetch"
               PROVE  /\ job[w] \in Calls \X Nat
                      /\ job[w][2] < batch'[job[w][1]].next
                      /\ job[w][2] \notin batch'[job[w][1]].outcomes
                      /\ \A v \in Workers :
                           workerState[v] = "fetch" /\ job[v] = job[w] => v = w
    BY <1>2 DEF JobsOK, workerVars
  <2>1. /\ job[w] \in Calls \X Nat
        /\ job[w][2] < batch[job[w][1]].next
        /\ job[w][2] \notin batch[job[w][1]].outcomes
        /\ \A v \in Workers : workerState[v] = "fetch" /\ job[v] = job[w] => v = w
    BY DEF IInv, JobsOK
  <2>2. job[w][1] \in Calls
    BY <2>1
  <2>3. CASE job[w][1] = c
    BY <1>3, <1>4, <2>1, <2>3
  <2>4. CASE job[w][1] # c
    BY <1>4, <2>1, <2>2, <2>4
  <2> QED  BY <2>3, <2>4
<1> QED  BY <1>6, <1>8, <1>9, <1>10, <1>12, <1>13, <1>14 DEF IInv

-----------------------------------------------------------------------------
(* close().                                                                *)

LEMMA CloseInv == ASSUME IInv, Close PROVE IInv'
<1>1. TypeOK /\ batch \in [Calls -> BatchType]
  BY DEF IInv, TypeOK
<1>2. \A c \in Calls : batch[c] \in BatchType
  BY <1>1
<1>3. \A c \in Calls : [batch[c] EXCEPT !.cancelled = TRUE] \in BatchType
  BY <1>2 DEF BatchType
<1>4. batch' \in [Calls -> BatchType]
  BY <1>1, <1>2, <1>3 DEF Close
<1>5. SameBooks
  <2>1. \A c \in Calls : batch'[c] = IF c \in batches
                                    THEN [batch[c] EXCEPT !.cancelled = TRUE] ELSE batch[c]
    BY DEF Close
  <2> QED  BY <1>2, <1>4, <2>1, ZenonT(30) DEF SameBooks, BatchType
<1>6. TypeOK'
  BY <1>1, <1>4 DEF Close, TypeOK, NotifyAll, queueVars, callVars, workerVars
<1>7. Counters' /\ JobsOK' /\ BooksOK'
  BY <1>1, <1>5, SameBooksFacts DEF IInv, Close
<1>8. NoLostWakeup'
  BY DEF Close, NotifyAll, NoLostWakeup
<1>9. ReadyQueue'
  <2>1. \A d \in batches : CanDispatch(d, batch'[d]) => d \in readyIds
    BY <1>1, <1>5, SameBooksDispatch DEF IInv, ReadyQueue, TypeOK
  <2>2. \A d \in Elements(ready) \ readyIds : batch'[d].cancelled
    BY <1>1, <1>5 DEF IInv, ReadyQueue, SameBooks, TypeOK
  <2> QED  BY <2>1, <2>2
           DEF IInv, Close, ReadyQueue, queueVars, Elements, Distinct, CanDispatch
<1>10. LifecycleOK'
  BY <1>5 DEF IInv, Close, LifecycleOK, SameBooks, queueVars, callVars
<1> QED  BY <1>6, <1>7, <1>8, <1>9, <1>10 DEF IInv

LEMMA JoinedInv == ASSUME IInv, Joined PROVE IInv'
<1> USE DEF Joined
<1>1. TypeOK'
  BY DEF IInv, TypeOK, NotifyAll, queueVars, callVars, workerVars
<1>2. Counters' /\ JobsOK' /\ BooksOK'
  BY UnchangedBooks, SameBooksFacts DEF IInv
<1>3. ReadyQueue'
  BY DEF IInv, ReadyQueue, queueVars, Distinct, Elements, CanDispatch
<1>4. NoLostWakeup'
  BY DEF NotifyAll, NoLostWakeup
<1>5. LifecycleOK'
  BY DEF IInv, LifecycleOK, queueVars, callVars
<1> QED  BY <1>1, <1>2, <1>3, <1>4, <1>5 DEF IInv

-----------------------------------------------------------------------------
(* The actions of a worker.                                                *)

\* The books of a worker's step: the batch of c becomes b and the others stay;
\* the fetching workers of the others stay too.
OneBatch(c, b) ==
  /\ b \in BatchType
  /\ batch' \in [Calls -> BatchType] /\ batch'[c] = b
  /\ \A d \in Calls \ {c} : batch'[d] = batch[d]

LEMMA OneBatchFacts ==
  ASSUME TypeOK, NEW c \in Calls, NEW b \in BatchType, batch' = [batch EXCEPT ![c] = b]
  PROVE  OneBatch(c, b)
  BY DEF OneBatch, TypeOK

\* What has to be shown of the batch a worker's step changes.
LEMMA OneBatchBooks ==
  ASSUME Counters, BooksOK, NEW c \in Calls, NEW b, OneBatch(c, b),
         \A d \in Calls \ {c} : Fetching(d)' = Fetching(d),
         b.running = Cardinality(Fetching(c)'),
         b.outstanding = b.running + Len(b.completed),
         Elements(b.completed) = b.outcomes, Distinct(b.completed),
         b.next = b.outstanding + b.yielded, b.next <= Size[c],
         b.outstanding <= Capacity, \A i \in b.outcomes : i < b.next
  PROVE  Counters' /\ BooksOK'
<1>1. Counters'
  <2> SUFFICES ASSUME NEW d \in Calls
               PROVE  /\ batch'[d].running = Cardinality(Fetching(d)')
                      /\ batch'[d].outstanding = batch'[d].running + Len(batch'[d].completed)
                      /\ Elements(batch'[d].completed) = batch'[d].outcomes
    BY DEF Counters, Elements
  <2>1. CASE d = c
    BY <2>1 DEF OneBatch
  <2>2. CASE d # c
    BY <2>2 DEF OneBatch, Counters
  <2> QED  BY <2>1, <2>2
<1>2. BooksOK'
  <2> SUFFICES ASSUME NEW d \in Calls
               PROVE  /\ batch'[d].next = batch'[d].outstanding + batch'[d].yielded
                      /\ batch'[d].next <= Size[d]
                      /\ batch'[d].outstanding <= Capacity
                      /\ \A k \in batch'[d].outcomes : k < batch'[d].next
                      /\ Distinct(batch'[d].completed)
    BY DEF BooksOK, Distinct
  <2>1. CASE d = c
    BY <2>1 DEF OneBatch
  <2>2. CASE d # c
    BY <2>2 DEF OneBatch, BooksOK
  <2> QED  BY <2>1, <2>2
<1> QED  BY <1>1, <1>2

LEMMA DispatchedFacts ==
  ASSUME NEW a \in BatchType, NEW b, b = Dispatched(a)
  PROVE  /\ b \in BatchType /\ b.next = a.next + 1 /\ b.yielded = a.yielded
         /\ b.outstanding = a.outstanding + 1 /\ b.running = a.running + 1
         /\ b.cancelled = a.cancelled /\ b.failed = a.failed
         /\ b.outcomes = a.outcomes /\ b.completed = a.completed
<1> DEFINE n == a.next + 1
           m == a.outstanding + 1
           r == a.running + 1
<1>1. n \in Nat /\ m \in Nat /\ r \in Nat
  BY DEF BatchType
<1>2. b = [a EXCEPT !.next = n, !.outstanding = m, !.running = r]
  BY DEF Dispatched
<1> HIDE DEF n, m, r
<1>3. b \in BatchType
  BY <1>1, <1>2 DEF BatchType
<1>4. b.next = n /\ b.outstanding = m /\ b.running = r
  BY <1>2 DEF BatchType
<1>5. /\ b.yielded = a.yielded /\ b.cancelled = a.cancelled /\ b.failed = a.failed
      /\ b.outcomes = a.outcomes /\ b.completed = a.completed
  BY <1>2 DEF BatchType
<1> QED  BY <1>3, <1>4, <1>5 DEF n, m, r

\* The queue after a dispatch: the ids popped before the batch that was live
\* name batches that cannot dispatch, and the batch is enqueued again if it can.
LEMMA TakeQueue ==
  ASSUME IInv, NEW k \in 1..Len(ready), IsFirstLive(k), NEW c, c = ready[k],
         NEW b, OneBatch(c, b),
         MakeReady(c, b, SubSeq(ready, k + 1, Len(ready)),
                   readyIds \ {ready[i] : i \in 1..k}),
         UNCHANGED batches
  PROVE  ReadyQueue' /\ ready' \in Seq(Calls) /\ readyIds' \subseteq Calls
<1> DEFINE q == SubSeq(ready, k + 1, Len(ready))
           P == {ready[i] : i \in 1..k}
           ids == readyIds \ P
<1>1. TypeOK /\ ReadyQueue /\ ready \in Seq(Calls)
  BY DEF IInv, TypeOK
<1>2. /\ q \in Seq(Calls) /\ Distinct(q) /\ Elements(q) = Elements(ready) \ P
  BY <1>1, SuffixFacts DEF ReadyQueue
<1>3. c \in Calls /\ c \in P /\ c \in batches /\ CanDispatch(c, batch[c])
  BY <1>1 DEF IsFirstLive, Live
<1>4. \A d \in P \ {c} : ~Live(d)
  BY DEF IsFirstLive
<1> HIDE DEF q, P
<1>5. ids \in SUBSET Calls /\ ids \subseteq Elements(q) /\ c \notin Elements(q)
  BY <1>1, <1>2, <1>3 DEF ReadyQueue, TypeOK
<1>6. MakeReady(c, b, q, ids)
  BY DEF q, P
<1> HIDE DEF ids
<1>7. /\ ready' \in Seq(Calls) /\ Distinct(ready')
      /\ ids \subseteq readyIds' /\ readyIds' \subseteq ids \union {c}
      /\ readyIds' \subseteq Elements(ready')
      /\ Elements(ready') \subseteq Elements(q) \union {c}
      /\ Elements(ready') \ readyIds' \subseteq Elements(q) \ ids
      /\ CanDispatch(c, b) => c \in readyIds'
  BY <1>2, <1>3, <1>5, <1>6, MakeReadyFacts
<1>8. Elements(ready') \subseteq batches /\ readyIds' \subseteq Calls
  BY <1>1, <1>2, <1>3, <1>5, <1>7 DEF ReadyQueue
<1>9. \A d \in batches : CanDispatch(d, batch'[d]) => d \in readyIds'
  <2> SUFFICES ASSUME NEW d \in batches, CanDispatch(d, batch'[d])
               PROVE  d \in readyIds'
    OBVIOUS
  <2>1. CASE d = c
    BY <1>3, <1>7, <2>1 DEF OneBatch
  <2>2. CASE d # c
    <3>1. d \in Calls /\ batch'[d] = batch[d]
      BY <1>1, <2>2 DEF OneBatch, TypeOK
    <3>2. d \in readyIds /\ Live(d)
      BY <1>1, <3>1 DEF ReadyQueue, Live
    <3>3. d \in ids
      BY <1>4, <2>2, <3>2 DEF ids
    <3> QED  BY <1>7, <3>3
  <2> QED  BY <2>1, <2>2
<1>10. \A d \in Elements(ready') \ readyIds' : batch'[d].cancelled
  <2> SUFFICES ASSUME NEW d \in Elements(ready') \ readyIds'
               PROVE  batch'[d].cancelled
    OBVIOUS
  <2>1. d \in Elements(q) /\ d \notin ids
    BY <1>7
  <2>2. d \in Elements(ready) /\ d \notin readyIds
    BY <1>2, <2>1 DEF ids
  <2>3. batch[d].cancelled /\ d \in Calls
    BY <1>1, <2>2 DEF ReadyQueue, TypeOK
  <2>4. d # c
    BY <1>5, <2>1
  <2> QED  BY <2>3, <2>4 DEF OneBatch
<1>11. Distinct(ready)' /\ Elements(ready)' = Elements(ready')
  BY <1>7 DEF Distinct, Elements
<1>12. ReadyQueue'
  BY <1>7, <1>8, <1>9, <1>10, <1>11 DEF ReadyQueue, CanDispatch
<1> QED  BY <1>7, <1>8, <1>12

LEMMA TakeInv == ASSUME IInv, NEW w \in Workers, Take(w) PROVE IInv'
<1>1. PICK k \in 1..Len(ready) :
        /\ IsFirstLive(k)
        /\ batch' = [batch EXCEPT ![ready[k]] = Dispatched(batch[ready[k]])]
        /\ MakeReady(ready[k], Dispatched(batch[ready[k]]), SubSeq(ready, k + 1, Len(ready)),
                     readyIds \ {ready[i] : i \in 1..k})
        /\ job' = [job EXCEPT ![w] = <<ready[k], batch[ready[k]].next>>]
  BY DEF Take
<1>0. PICK c : c = ready[k]
  OBVIOUS
<1> DEFINE a == batch[c]
           b == Dispatched(a)
<1>2. TypeOK /\ workerState[w] = "take" /\ w \notin sleepingWorkers
  BY DEF Take, IInv
<1>3. workerState' = [workerState EXCEPT ![w] = "fetch"]
      /\ UNCHANGED <<batches, closeVars, callVars, sleepVars>>
  BY DEF Take
<1>4. c \in Calls /\ Live(c) /\ a \in BatchType
  BY <1>0, <1>1, <1>2 DEF TypeOK, IsFirstLive
<1>5. /\ b \in BatchType /\ b.next = a.next + 1 /\ b.yielded = a.yielded
      /\ b.outstanding = a.outstanding + 1 /\ b.running = a.running + 1
      /\ b.cancelled = a.cancelled /\ b.failed = a.failed
      /\ b.outcomes = a.outcomes /\ b.completed = a.completed
  BY <1>4, DispatchedFacts
<1> HIDE DEF b
<1>6. OneBatch(c, b)
  BY <1>0, <1>1, <1>2, <1>4, <1>5, OneBatchFacts DEF b
<1>7. ReadyQueue' /\ ready' \in Seq(Calls) /\ readyIds' \subseteq Calls
  BY <1>0, <1>1, <1>3, <1>6, TakeQueue DEF b
<1>8. job' = [job EXCEPT ![w] = <<c, a.next>>]
  BY <1>0, <1>1
<1>9. a.next \in Nat /\ a.outstanding \in Nat /\ a.running \in Nat /\ a.yielded \in Nat
      /\ a.outcomes \subseteq Nat /\ a.completed \in Seq(Nat)
  BY <1>4 DEF BatchType
<1> HIDE DEF a
<1>10. TypeOK'
  <2>1. job' \in [Workers -> (Calls \X Nat) \union {<<>>}]
    BY <1>2, <1>4, <1>8, <1>9 DEF TypeOK
  <2>2. workerState' \in [Workers -> {"take", "fetch", "exited"}]
    BY <1>2, <1>3 DEF TypeOK
  <2> QED  BY <1>2, <1>3, <1>6, <1>7, <2>1, <2>2
           DEF TypeOK, OneBatch, closeVars, callVars, sleepVars
<1>11. NoLostWakeup'
  <2>1. sleepingWorkers = {}
    BY <1>4 DEF IInv, NoLostWakeup, Live
  <2>2. \A d \in Calls : Available(d)' = Available(d)
        /\ batch'[d].failed = batch[d].failed
        /\ batch'[d].running >= batch[d].running
        /\ batch[d].running \in Nat /\ batch'[d].running \in Nat
    <3> SUFFICES ASSUME NEW d \in Calls
                 PROVE  /\ Available(d)' = Available(d)
                        /\ batch'[d].failed = batch[d].failed
                        /\ batch'[d].running >= batch[d].running
                        /\ batch[d].running \in Nat /\ batch'[d].running \in Nat
      OBVIOUS
    <3>1. batch[d].running \in Nat
      BY <1>2 DEF TypeOK, BatchType
    <3>2. CASE d = c
      BY <1>5, <1>6, <1>9, <3>1, <3>2 DEF OneBatch, Available, a
    <3>3. CASE d # c
      <4>1. batch'[d] = batch[d]
        BY <1>6, <3>3 DEF OneBatch
      <4> QED  BY <3>1, <4>1 DEF Available
    <3> QED  BY <3>2, <3>3
  <2>3. UNCHANGED <<callState, sleepingCalls, sleepingWorkers>>
    BY <1>3 DEF callVars, sleepVars
  <2> SUFFICES ASSUME NEW d \in sleepingCalls
               PROVE  \/ callState[d] = "loop" /\ ~Available(d)' /\ ~batch'[d].failed
                      \/ callState[d] \in {"failing", "draining"} /\ batch'[d].running > 0
    BY <2>1, <2>3 DEF NoLostWakeup
  <2>4. d \in Calls
    BY <1>2 DEF TypeOK
  <2>5. \/ callState[d] = "loop" /\ ~Available(d) /\ ~batch[d].failed
        \/ callState[d] \in {"failing", "draining"} /\ batch[d].running > 0
    BY DEF IInv, NoLostWakeup
  <2>6. CASE callState[d] = "loop" /\ ~Available(d) /\ ~batch[d].failed
    BY <2>2, <2>4, <2>6
  <2>7. CASE callState[d] \in {"failing", "draining"} /\ batch[d].running > 0
    BY <2>2, <2>4, <2>7
  <2> QED  BY <2>5, <2>6, <2>7
<1>12. /\ Fetching(c)' = Fetching(c) \union {w} /\ w \notin Fetching(c)
       /\ \A d \in Calls \ {c} : Fetching(d)' = Fetching(d)
  BY <1>2, <1>3, <1>4, <1>8 DEF Fetching, TypeOK
<1>13. /\ b.running = Cardinality(Fetching(c)') /\ b.outstanding = b.running + Len(b.completed)
  <2>1. Cardinality(Fetching(c) \union {w}) = Cardinality(Fetching(c)) + 1
    BY <1>12, FetchingFinite, FS_AddElement
  <2>2. a.running = Cardinality(Fetching(c)) /\ a.outstanding = a.running + Len(a.completed)
    BY <1>4 DEF IInv, Counters, a
  <2>3. Len(a.completed) \in Nat
    BY <1>9
  <2> QED  BY <1>5, <1>9, <1>12, <2>1, <2>2, <2>3
<1>14. Counters' /\ BooksOK'
  <2>1. /\ a.next = a.outstanding + a.yielded /\ \A i \in a.outcomes : i < a.next
        /\ Distinct(a.completed) /\ Elements(a.completed) = a.outcomes
    BY <1>4 DEF IInv, BooksOK, Counters, a
  <2>2. a.next < Size[c] /\ a.outstanding < Capacity /\ Size[c] \in Nat
    BY <1>4, CallsAssumption DEF Live, CanDispatch, a
  <2>3. b.next = b.outstanding + b.yielded /\ b.next <= Size[c] /\ b.outstanding <= Capacity
    <3>1. b.next = b.outstanding + b.yielded
      BY <1>5, <1>9, <2>1
    <3>2. b.next <= Size[c]
      BY <1>5, <1>9, <2>2
    <3>3. b.outstanding <= Capacity
      BY <1>5, <1>9, <2>2, CapacityAssumption
    <3> QED  BY <3>1, <3>2, <3>3
  <2>4. \A i \in b.outcomes : i < b.next
    BY <1>5, <1>9, <2>1
  <2>5. Elements(b.completed) = b.outcomes /\ Distinct(b.completed)
    BY <1>5, <2>1
  <2>6. Counters /\ BooksOK
    BY DEF IInv
  <2> QED  BY <1>4, <1>6, <1>12, <1>13, <2>3, <2>4, <2>5, <2>6, OneBatchBooks
<1>15. JobsOK'
  <2>1. job'[w] = <<c, a.next>>
    BY <1>2, <1>8 DEF TypeOK
  <2>2. \A v \in Workers \ {w} : job'[v] = job[v] /\ workerState'[v] = workerState[v]
    BY <1>2, <1>3, <1>8 DEF TypeOK
  <2>3. \A v \in Workers \ {w} : workerState[v] = "fetch" =>
          /\ job[v] \in Calls \X Nat
          /\ job[v][2] < batch'[job[v][1]].next
          /\ job[v][2] \notin batch'[job[v][1]].outcomes
          /\ job[v] # <<c, a.next>>
    <3> SUFFICES ASSUME NEW v \in Workers \ {w}, workerState[v] = "fetch"
                 PROVE  /\ job[v] \in Calls \X Nat
                        /\ job[v][2] < batch'[job[v][1]].next
                        /\ job[v][2] \notin batch'[job[v][1]].outcomes
                        /\ job[v] # <<c, a.next>>
      OBVIOUS
    <3>1. /\ job[v] \in Calls \X Nat /\ job[v][2] < batch[job[v][1]].next
          /\ job[v][2] \notin batch[job[v][1]].outcomes
      BY DEF IInv, JobsOK
    <3>2. job[v][1] \in Calls /\ job[v][2] \in Nat
      BY <3>1
    <3>3. CASE job[v][1] = c
      <4>1. job[v][2] < a.next /\ job[v][2] \notin a.outcomes
        BY <3>1, <3>3 DEF a
      <4>2. job[v][2] < b.next /\ job[v][2] \notin b.outcomes
        BY <1>5, <1>9, <3>2, <4>1
      <4>3. job[v] # <<c, a.next>>
        BY <1>9, <3>2, <4>1
      <4> QED  BY <1>6, <3>1, <3>3, <4>2, <4>3 DEF OneBatch
    <3>4. CASE job[v][1] # c
      BY <1>6, <3>1, <3>2, <3>4 DEF OneBatch
    <3> QED  BY <3>3, <3>4
  <2>4. a.next \notin a.outcomes
    BY <1>4, <1>9 DEF IInv, BooksOK, a
  <2>5. /\ <<c, a.next>> \in Calls \X Nat
        /\ a.next < batch'[c].next /\ a.next \notin batch'[c].outcomes
    BY <1>4, <1>5, <1>6, <1>9, <2>4 DEF OneBatch
  <2>6. \A v \in Workers : workerState'[v] = "fetch" =>
          /\ job'[v] \in Calls \X Nat
          /\ job'[v][2] < batch'[job'[v][1]].next
          /\ job'[v][2] \notin batch'[job'[v][1]].outcomes
    BY <2>1, <2>2, <2>3, <2>5
  <2>7. \A v, u \in Workers :
          workerState'[v] = "fetch" /\ workerState'[u] = "fetch" /\ job'[u] = job'[v] => u = v
    <3> SUFFICES ASSUME NEW v \in Workers, NEW u \in Workers, u # v,
                        workerState'[v] = "fetch", workerState'[u] = "fetch"
                 PROVE  job'[u] # job'[v]
      OBVIOUS
    <3>1. CASE v = w \/ u = w
      BY <2>1, <2>2, <2>3, <3>1
    <3>2. CASE v # w /\ u # w
      BY <2>2, <3>2 DEF IInv, JobsOK
    <3> QED  BY <3>1, <3>2
  <2> QED  BY <2>6, <2>7 DEF JobsOK
<1>16. LifecycleOK'
  <2>1. UNCHANGED <<batches, callState>> /\ c \in batches
    BY <1>3, <1>4 DEF callVars, Live
  <2> QED  BY <1>6, <2>1 DEF IInv, LifecycleOK, OneBatch
<1> QED  BY <1>7, <1>10, <1>11, <1>14, <1>15, <1>16 DEF IInv

LEMMA IdleInv == ASSUME IInv, NEW w \in Workers, Idle(w) PROVE IInv'
<1>1. TypeOK /\ ReadyQueue /\ SameBooks
  BY UnchangedBooks DEF Idle, IInv
<1>2. /\ ready' = <<>> /\ readyIds' = readyIds \ Elements(ready)
      /\ \A k \in 1..Len(ready) : ~Live(ready[k])
      /\ UNCHANGED <<batch, batches, closeVars, callVars, job, sleepingCalls>>
  BY DEF Idle
<1>3. readyIds' = {} /\ Elements(ready') = {} /\ Distinct(ready') /\ ready' \in Seq(Calls)
  BY <1>1, <1>2 DEF ReadyQueue, Elements, Distinct
<1>4. \A c \in batches : ~CanDispatch(c, batch[c])
  <2> SUFFICES ASSUME NEW c \in batches, CanDispatch(c, batch[c]) PROVE FALSE
    OBVIOUS
  <2>1. c \in Elements(ready) /\ Live(c)
    BY <1>1 DEF ReadyQueue, Live
  <2> QED  BY <1>2, <2>1 DEF Elements
<1>5. TypeOK'
  BY <1>1, <1>2, <1>3 DEF Idle, TypeOK, closeVars, callVars
<1>6. ReadyQueue'
  <2>1. Distinct(ready)' /\ Elements(ready)' = {}
    BY <1>3 DEF Distinct, Elements
  <2> QED  BY <1>2, <1>3, <1>4, <2>1 DEF ReadyQueue, CanDispatch
<1>7. NoLostWakeup'
  BY <1>2, <1>4 DEF IInv, NoLostWakeup, CanDispatch, Available, callVars
<1>8. \A v \in Workers : workerState'[v] = "fetch" <=> workerState[v] = "fetch"
  BY <1>1 DEF Idle, TypeOK
<1>9. \A c \in Calls : Fetching(c)' = Fetching(c)
  BY <1>2, <1>8 DEF Fetching
<1>10. Counters' /\ BooksOK'
  BY <1>2, <1>9 DEF IInv, Counters, BooksOK, Elements, Distinct
<1>11. JobsOK'
  BY <1>2, <1>8 DEF IInv, JobsOK
<1>12. LifecycleOK'
  BY <1>2 DEF IInv, LifecycleOK, callVars
<1> QED  BY <1>5, <1>6, <1>7, <1>10, <1>11, <1>12 DEF IInv

LEMMA CompletedFacts ==
  ASSUME NEW a \in BatchType, NEW i \in Nat, NEW ok \in BOOLEAN, a.running > 0,
         i \notin a.outcomes, Distinct(a.completed), Elements(a.completed) = a.outcomes,
         NEW b, b = Completed(a, i, ok)
  PROVE  /\ b \in BatchType /\ b.next = a.next /\ b.yielded = a.yielded
         /\ b.outstanding = a.outstanding /\ b.running = a.running - 1
         /\ b.outcomes = a.outcomes \union {i}
         /\ Distinct(b.completed) /\ Elements(b.completed) = b.outcomes
         /\ Len(b.completed) = Len(a.completed) + 1
         /\ b.failed = (a.failed \/ ~ok)
         /\ b.cancelled = (a.cancelled \/ (~ok /\ ~a.failed))
<1> DEFINE s == a.completed
           t == Append(s, i)
           r == a.running - 1
           o == a.outcomes \union {i}
           f == a.failed \/ ~ok
           n == a.cancelled \/ (~ok /\ ~a.failed)
<1>1. s \in Seq(Nat) /\ Distinct(s) /\ Elements(s) = a.outcomes
  BY DEF BatchType
<1> HIDE DEF s
<1>2. t \in Seq(Nat) /\ Len(t) = Len(s) + 1 /\ Elements(t) = o /\ Distinct(t)
  BY <1>1, AppendFacts
<1>3. r \in Nat /\ o \in SUBSET Nat
  BY DEF BatchType
<1>4. f \in BOOLEAN /\ n \in BOOLEAN
  BY DEF BatchType
<1>5. b = [a EXCEPT !.running = r, !.outcomes = o, !.completed = t,
                    !.failed = f, !.cancelled = n]
  BY DEF Completed, s
<1> HIDE DEF t, r, o, f, n
<1>6. b \in BatchType
  BY <1>2, <1>3, <1>4, <1>5 DEF BatchType
<1>7. b.next = a.next /\ b.yielded = a.yielded /\ b.outstanding = a.outstanding
  BY <1>5 DEF BatchType
<1>8. b.running = r /\ b.outcomes = o /\ b.completed = t /\ b.failed = f /\ b.cancelled = n
  BY <1>5 DEF BatchType
<1> QED  BY <1>2, <1>6, <1>7, <1>8 DEF r, o, f, n, s

LEMMA FinishInv ==
  ASSUME IInv, NEW w \in Workers, NEW ok \in BOOLEAN, Finish(w, ok)
  PROVE  IInv'
<1>1. PICK c, i : c = job[w][1] /\ i = job[w][2]
  OBVIOUS
<1> DEFINE a == batch[c]
           b == Completed(a, i, ok)
<1>2. TypeOK /\ workerState[w] = "fetch"
  BY DEF Finish, IInv
<1>3. /\ batch' = [batch EXCEPT ![c] = b]
      /\ readyIds' = IF ~ok /\ ~batch[c].failed THEN readyIds \ {c} ELSE readyIds
      /\ job' = [job EXCEPT ![w] = <<>>]
      /\ workerState' = [workerState EXCEPT ![w] = "take"]
      /\ NotifyAll /\ UNCHANGED <<batches, ready, closeVars, callVars>>
  BY <1>1 DEF Finish
<1>4. /\ job[w] \in Calls \X Nat /\ job[w] = <<c, i>> /\ c \in Calls /\ i \in Nat
      /\ i < a.next /\ i \notin a.outcomes
      /\ \A v \in Workers : workerState[v] = "fetch" /\ job[v] = job[w] => v = w
  BY <1>1, <1>2 DEF IInv, JobsOK
<1>5. a \in BatchType
  BY <1>2, <1>4 DEF TypeOK
<1>6. /\ a.next \in Nat /\ a.outstanding \in Nat /\ a.running \in Nat /\ a.yielded \in Nat
      /\ a.outcomes \subseteq Nat /\ a.completed \in Seq(Nat)
      /\ a.cancelled \in BOOLEAN /\ a.failed \in BOOLEAN
  BY <1>5 DEF BatchType
<1>7. /\ a.running = Cardinality(Fetching(c)) /\ a.outstanding = a.running + Len(a.completed)
      /\ Elements(a.completed) = a.outcomes
  BY <1>4 DEF IInv, Counters
<1>8. /\ a.next = a.outstanding + a.yielded /\ a.next <= Size[c] /\ a.outstanding <= Capacity
      /\ \A k \in a.outcomes : k < a.next
      /\ Distinct(a.completed)
  BY <1>4 DEF IInv, BooksOK
<1>9. w \in Fetching(c)
  BY <1>1, <1>2 DEF Fetching
<1>10. a.running > 0
  <2>1. Cardinality(Fetching(c)) # 0
    BY <1>9, FetchingFinite, FS_EmptySet
  <2> QED  BY <1>6, <1>7, <2>1
<1> HIDE DEF a
<1>11. /\ b \in BatchType /\ b.next = a.next /\ b.yielded = a.yielded
       /\ b.outstanding = a.outstanding /\ b.running = a.running - 1
       /\ b.outcomes = a.outcomes \union {i}
       /\ Distinct(b.completed) /\ Elements(b.completed) = b.outcomes
       /\ Len(b.completed) = Len(a.completed) + 1
       /\ b.failed = (a.failed \/ ~ok)
       /\ b.cancelled = (a.cancelled \/ (~ok /\ ~a.failed))
  BY <1>4, <1>5, <1>7, <1>8, <1>10, CompletedFacts
<1> HIDE DEF b
<1>12. OneBatch(c, b)
  BY <1>2, <1>3, <1>4, <1>11, OneBatchFacts
<1>13. readyIds' \subseteq readyIds /\ (c \notin readyIds' => c \notin readyIds \/ (~ok /\ ~a.failed))
       /\ readyIds \ {c} \subseteq readyIds'
  BY <1>3 DEF a
<1>14. TypeOK'
  <2>1. job' \in [Workers -> (Calls \X Nat) \union {<<>>}]
    BY <1>2, <1>3 DEF TypeOK
  <2>2. workerState' \in [Workers -> {"take", "fetch", "exited"}]
    BY <1>2, <1>3 DEF TypeOK
  <2> QED  BY <1>2, <1>3, <1>12, <1>13, <2>1, <2>2
           DEF TypeOK, OneBatch, NotifyAll, closeVars, callVars
<1>15. NoLostWakeup'
  BY <1>3 DEF NotifyAll, NoLostWakeup
<1>16. ReadyQueue'
  <2>1. ReadyQueue
    BY DEF IInv
  <2>2. CanDispatch(c, b) => ok /\ CanDispatch(c, a)
    BY <1>11 DEF CanDispatch
  <2>3. \A d \in batches : CanDispatch(d, batch'[d]) => d \in readyIds'
    <3> SUFFICES ASSUME NEW d \in batches, CanDispatch(d, batch'[d])
                 PROVE  d \in readyIds'
      OBVIOUS
    <3>1. d \in Calls
      BY <1>2 DEF TypeOK
    <3>2. CASE d = c
      <4>1. ok /\ CanDispatch(c, batch[c])
        BY <1>12, <2>2, <3>2 DEF OneBatch, a
      <4> QED  BY <1>3, <2>1, <3>2, <4>1 DEF ReadyQueue
    <3>3. CASE d # c
      BY <1>12, <1>13, <2>1, <3>1, <3>3 DEF OneBatch, ReadyQueue
    <3> QED  BY <3>2, <3>3
  <2>4. \A d \in Elements(ready) \ readyIds' : batch'[d].cancelled
    <3> SUFFICES ASSUME NEW d \in Elements(ready) \ readyIds'
                 PROVE  batch'[d].cancelled
      OBVIOUS
    <3>1. d \in Calls
      BY <1>2, <2>1 DEF TypeOK, ReadyQueue
    <3>2. CASE d = c /\ d \notin readyIds
      <4>1. a.cancelled
        BY <2>1, <3>2 DEF ReadyQueue, a
      <4> QED  BY <1>11, <1>12, <3>2, <4>1 DEF OneBatch
    <3>3. CASE d = c /\ d \in readyIds
      <4>1. ~ok /\ ~a.failed
        BY <1>13, <3>3
      <4> QED  BY <1>11, <1>12, <3>3, <4>1 DEF OneBatch
    <3>4. CASE d # c
      <4>1. d \notin readyIds
        BY <1>13, <3>4
      <4> QED  BY <1>12, <2>1, <3>1, <3>4, <4>1 DEF OneBatch, ReadyQueue
    <3> QED  BY <3>2, <3>3, <3>4
  <2>5. Distinct(ready)' /\ Elements(ready)' = Elements(ready)
    BY <1>3, <2>1 DEF ReadyQueue, Distinct, Elements
  <2>6. UNCHANGED <<batches, ready>>
    BY <1>3
  <2>7. readyIds' \subseteq Elements(ready)
    BY <1>13, <2>1 DEF ReadyQueue
  <2> QED  BY <2>1, <2>3, <2>4, <2>5, <2>6, <2>7 DEF ReadyQueue, CanDispatch
<1>17. /\ Fetching(c)' = Fetching(c) \ {w}
       /\ \A d \in Calls \ {c} : Fetching(d)' = Fetching(d)
  BY <1>1, <1>2, <1>3 DEF Fetching, TypeOK
<1>18. Counters' /\ BooksOK'
  <2>1. Cardinality(Fetching(c)') = a.running - 1
    BY <1>7, <1>9, <1>17, FetchingFinite, FS_RemoveElement
  <2>2. b.outstanding = b.running + Len(b.completed)
    <3>1. Len(a.completed) \in Nat
      BY <1>6
    <3> QED  BY <1>6, <1>7, <1>11, <3>1
  <2>3. /\ b.next = b.outstanding + b.yielded /\ b.next <= Size[c] /\ b.outstanding <= Capacity
        /\ \A k \in b.outcomes : k < b.next
    BY <1>4, <1>8, <1>11
  <2>4. Counters /\ BooksOK
    BY DEF IInv
  <2>5. b.running = Cardinality(Fetching(c)')
    BY <1>11, <2>1
  <2> QED  BY <1>4, <1>11, <1>12, <1>17, <2>2, <2>3, <2>4, <2>5, OneBatchBooks
<1>19. JobsOK'
  <2>1. \A v \in Workers : workerState'[v] = "fetch" =>
          v # w /\ workerState[v] = "fetch" /\ job'[v] = job[v]
    BY <1>2, <1>3 DEF TypeOK
  <2>2. \A v \in Workers : workerState'[v] = "fetch" =>
          /\ job[v] \in Calls \X Nat
          /\ job[v][2] < batch'[job[v][1]].next
          /\ job[v][2] \notin batch'[job[v][1]].outcomes
    <3> SUFFICES ASSUME NEW v \in Workers, workerState'[v] = "fetch"
                 PROVE  /\ job[v] \in Calls \X Nat
                        /\ job[v][2] < batch'[job[v][1]].next
                        /\ job[v][2] \notin batch'[job[v][1]].outcomes
      OBVIOUS
    <3>1. /\ job[v] \in Calls \X Nat /\ job[v][2] < batch[job[v][1]].next
          /\ job[v][2] \notin batch[job[v][1]].outcomes /\ job[v] # job[w]
      BY <1>4, <2>1 DEF IInv, JobsOK
    <3>2. job[v][1] \in Calls /\ job[v] = <<job[v][1], job[v][2]>>
      BY <3>1
    <3>3. CASE job[v][1] = c
      <4>1. job[v][2] # i
        BY <1>4, <3>1, <3>2, <3>3
      <4> QED  BY <1>11, <1>12, <3>1, <3>3, <4>1 DEF OneBatch, a
    <3>4. CASE job[v][1] # c
      BY <1>12, <3>1, <3>2, <3>4 DEF OneBatch
    <3> QED  BY <3>3, <3>4
  <2>3. \A v, u \in Workers :
          workerState'[v] = "fetch" /\ workerState'[u] = "fetch" /\ job'[u] = job'[v] => u = v
    BY <2>1 DEF IInv, JobsOK
  <2> QED  BY <2>1, <2>2, <2>3 DEF JobsOK
<1>20. LifecycleOK'
  <2>1. c \in batches
    BY <1>4, <1>10 DEF IInv, LifecycleOK, a
  <2>2. UNCHANGED <<batches, callState>>
    BY <1>3 DEF callVars
  <2> QED  BY <1>12, <2>1, <2>2 DEF IInv, LifecycleOK, OneBatch
<1> QED  BY <1>14, <1>15, <1>16, <1>18, <1>19, <1>20 DEF IInv

-----------------------------------------------------------------------------
(* The theorems.                                                           *)

LEMMA NextInv == IInv /\ [Next]_vars => IInv'
<1> SUFFICES ASSUME IInv, [Next]_vars PROVE IInv'
  OBVIOUS
<1>1. CASE \E c \in Calls : CallNext(c)
  <2>1. PICK c \in Calls : CallNext(c)
    BY <1>1
  <2> QED  BY <2>1, RegisterInv, EndAtOnceInv, ConsumeInv, AwaitResultInv, AwaitFailedInv,
              MoveOnInv, FinallyInv, DrainInv DEF CallNext
<1>2. CASE \E w \in Workers : WorkerNext(w)
  <2>1. PICK w \in Workers : WorkerNext(w)
    BY <1>2
  <2> QED  BY <2>1, TakeInv, IdleInv, FinishInv DEF WorkerNext
<1>3. CASE Close
  BY <1>3, CloseInv
<1>4. CASE Joined
  BY <1>4, JoinedInv
<1>5. CASE Terminated \/ UNCHANGED vars
  BY <1>5, StutterInv DEF Terminated
<1> QED  BY <1>1, <1>2, <1>3, <1>4, <1>5 DEF Next

\* The invariant the others follow from: the types, the queue, the wake-ups,
\* the counters, the jobs and the books, together.
THEOREM Invariance == Spec => []IInv
  BY InitInv, NextInv, PTL DEF Spec

\* Every variable of the runtime keeps its type: no counter goes below zero.
THEOREM TypeCorrect == Spec => []TypeOK
<1>1. IInv => TypeOK
  BY DEF IInv
<1> QED  BY <1>1, Invariance, PTL

\* The deque and the id set agree, and a batch that can dispatch is enqueued.
THEOREM QueueSound == Spec => []ReadyQueue
<1>1. IInv => ReadyQueue
  BY DEF IInv
<1> QED  BY <1>1, Invariance, PTL

\* No worker and no caller sleeps while there is work or a result for it.
THEOREM NoWakeupIsLost == Spec => []NoLostWakeup
<1>1. IInv => NoLostWakeup
  BY DEF IInv
<1> QED  BY <1>1, Invariance, PTL

\* The counters of a batch are what its workers and its results make them.
THEOREM CountersAgree == Spec => []Counters
<1>1. IInv => Counters
  BY DEF IInv
<1> QED  BY <1>1, Invariance, PTL

\* A batch holds at most Capacity items its caller has not taken.
THEOREM WindowHolds == Spec => []WindowBound
<1>1. IInv => WindowBound
  <2> SUFFICES ASSUME IInv, NEW c \in Calls PROVE batch[c].outstanding \in 0..Capacity
    BY DEF WindowBound
  <2>1. batch[c].outstanding \in Nat
    BY DEF IInv, TypeOK, BatchType
  <2>2. batch[c].outstanding <= Capacity
    BY DEF IInv, BooksOK
  <2> QED  BY <2>1, <2>2, CapacityAssumption
<1> QED  BY <1>1, Invariance, PTL

\* A call that has ended has no fetch running.
THEOREM QuietAfterTheEnd == Spec => []QuietWhenEnded
<1>1. IInv => QuietWhenEnded
  <2> SUFFICES ASSUME IInv, NEW c \in Calls, callState[c] = "ended" PROVE Fetching(c) = {}
    BY DEF QuietWhenEnded
  <2>1. Cardinality(Fetching(c)) = 0
    BY DEF IInv, LifecycleOK, Counters
  <2> QED  BY <2>1, FetchingFinite, FS_EmptySet
<1> QED  BY <1>1, Invariance, PTL

\* A failed or cancelled batch dispatches nothing more, and the failure of one
\* batch changes no other one.
Isolated ==
  \A c \in Calls :
    /\ batch[c].failed \/ batch[c].cancelled => batch'[c].next = batch[c].next
    /\ batch'[c].failed /\ ~batch[c].failed => \A d \in Calls \ {c} : batch'[d] = batch[d]

\* A step after which only the batch of c differs, and which either fails no
\* batch or dispatches nothing.
LEMMA OneBatchIsolated ==
  ASSUME NEW c \in Calls, NEW b, OneBatch(c, b),
         batch[c].failed \/ batch[c].cancelled => b.next = batch[c].next
  PROVE  Isolated
  BY DEF OneBatch, Isolated

LEMMA SameBooksIsolated == SameBooks => Isolated
  BY DEF SameBooks, Isolated

THEOREM FailureIsIsolated == Spec => FailureIsolated
<1>1. IInv /\ [Next]_vars => [Isolated]_vars
  <2> SUFFICES ASSUME IInv, Next PROVE Isolated
    BY DEF Isolated
  <2>1. TypeOK /\ batch \in [Calls -> BatchType]
    BY DEF IInv, TypeOK
  <2>2. ASSUME NEW c \in Calls, CallNext(c) PROVE Isolated
    <3>1. CASE UNCHANGED batch
      BY <2>1, <3>1, UnchangedBooks, SameBooksIsolated
    <3>2. CASE Consume(c)
      <4> DEFINE b == Consumed(batch[c], NextIndex(c))
      <4>1. b \in BatchType /\ b.next = batch[c].next
        BY <3>2, ConsumedFacts DEF Consume
      <4>2. batch' = [batch EXCEPT ![c] = b]
        BY <3>2 DEF Consume
      <4> HIDE DEF b
      <4>3. OneBatch(c, b)
        BY <2>1, <4>1, <4>2, OneBatchFacts
      <4> QED  BY <4>1, <4>3, OneBatchIsolated
    <3>3. CASE AwaitFailed(c)
      <4>1. SameBooks
        BY <2>1, <3>3, CancelOne DEF AwaitFailed
      <4> QED  BY <4>1, SameBooksIsolated
    <3>4. CASE Finally(c)
      <4> DEFINE v == batch[c].cancelled \/ batch[c].yielded < Size[c]
      <4>1. v \in BOOLEAN /\ (batch[c].cancelled => v)
        BY <2>1 DEF BatchType
      <4>2. batch' = [batch EXCEPT ![c].cancelled = v]
        BY <2>1, <3>4 DEF Finally
      <4> HIDE DEF v
      <4>3. SameBooks
        BY <2>1, <4>1, <4>2, CancelOne
      <4> QED  BY <4>3, SameBooksIsolated
    <3> QED  BY <2>2, <3>1, <3>2, <3>3, <3>4
             DEF CallNext, Register, EndAtOnce, AwaitResult, Resume, Abandon, Drain
  <2>3. ASSUME NEW w \in Workers, WorkerNext(w) PROVE Isolated
    <3>1. CASE Idle(w)
      BY <2>1, <3>1, UnchangedBooks, SameBooksIsolated DEF Idle
    <3>2. CASE Take(w)
      <4>1. PICK k \in 1..Len(ready) :
              IsFirstLive(k)
              /\ batch' = [batch EXCEPT ![ready[k]] = Dispatched(batch[ready[k]])]
        BY <3>2 DEF Take
      <4>2. PICK c : c = ready[k]
        OBVIOUS
      <4>3. c \in Calls /\ ~batch[c].failed /\ ~batch[c].cancelled
        BY <2>1, <4>1, <4>2 DEF TypeOK, IsFirstLive, Live, CanDispatch
      <4> DEFINE b == Dispatched(batch[c])
      <4>4. b \in BatchType
        BY <2>1, <4>3, DispatchedFacts
      <4>5. OneBatch(c, b)
        BY <2>1, <4>1, <4>2, <4>3, <4>4, OneBatchFacts
      <4> HIDE DEF b
      <4> QED  BY <4>3, <4>5, OneBatchIsolated
    <3>3. ASSUME NEW ok \in BOOLEAN, Finish(w, ok) PROVE Isolated
      <4>1. PICK c, i : c = job[w][1] /\ i = job[w][2]
        OBVIOUS
      <4>2. c \in Calls
        BY <3>3, <4>1 DEF IInv, JobsOK, Finish
      <4> DEFINE b == Completed(batch[c], i, ok)
      <4>3. batch' = [batch EXCEPT ![c] = b]
        BY <3>3, <4>1 DEF Finish
      <4>4. batch[c] \in BatchType /\ b.next = batch[c].next
        BY <2>1, <4>2 DEF Completed, BatchType
      <4> HIDE DEF b
      <4>5. /\ batch'[c].next = batch[c].next
            /\ \A d \in Calls \ {c} : batch'[d] = batch[d]
        BY <2>1, <4>2, <4>3, <4>4
      <4> QED  BY <4>5 DEF Isolated
    <3> QED  BY <2>3, <3>1, <3>2, <3>3 DEF WorkerNext
  <2>4. CASE Close
    <3>1. \A c \in Calls : batch[c] \in BatchType
      BY <2>1
    <3>2. \A c \in Calls : batch'[c] = IF c \in batches
                                      THEN [batch[c] EXCEPT !.cancelled = TRUE] ELSE batch[c]
      BY <2>4 DEF Close
    <3>3. \A c \in Calls : batch'[c].next = batch[c].next /\ batch'[c].failed = batch[c].failed
      BY <3>1, <3>2 DEF BatchType
    <3> QED  BY <3>3 DEF Isolated
  <2>5. CASE Joined \/ Terminated
    BY <2>1, <2>5, UnchangedBooks, SameBooksIsolated DEF Joined, Terminated, vars
  <2> QED  BY <2>2, <2>3, <2>4, <2>5 DEF Next
<1>2. [Isolated]_vars <=>
      [\A c \in Calls :
         /\ batch[c].failed \/ batch[c].cancelled => batch'[c].next = batch[c].next
         /\ batch'[c].failed /\ ~batch[c].failed =>
              \A d \in Calls \ {c} : batch'[d] = batch[d]]_vars
  BY DEF Isolated
<1> QED  BY <1>1, <1>2, Invariance, PTL DEF Spec, FailureIsolated

-----------------------------------------------------------------------------
(* Every item is fetched and delivered once.                               *)

\* Where the items of a call are, and how many its caller has; that each is in
\* one place only follows from this and from the counters.
Delivery(c) ==
  /\ InFlight(c) \union batch[c].outcomes \union Elements(delivered[c])
       = 0..(batch[c].next - 1)
  /\ Len(delivered[c]) = batch[c].yielded
  /\ c \in Ordered => \A k \in 1..Len(delivered[c]) : delivered[c][k] = k - 1
  /\ result[c] = "complete" => batch[c].yielded = Size[c]

\* A sequence without duplicates has as many elements as places.
LEMMA DistinctCardinality ==
  ASSUME NEW S, NEW s \in Seq(S), Distinct(s)
  PROVE  Cardinality(Elements(s)) = Len(s)
<1> DEFINE f == [k \in 1..Len(s) |-> s[k]]
<1>1. f \in [1..Len(s) -> Elements(s)] /\ \A k \in 1..Len(s) : f[k] = s[k]
  BY DEF Elements
<1> HIDE DEF f
<1>2. \A i, j \in 1..Len(s) : f[i] = f[j] => i = j
  BY <1>1 DEF Distinct
<1>3. \A e \in Elements(s) : \E k \in 1..Len(s) : f[k] = e
  BY <1>1 DEF Elements
<1>4. f \in Bijection(1..Len(s), Elements(s))
  BY <1>1, <1>2, <1>3, Fun_IsBij
<1> QED  BY <1>4, FS_CountingElements DEF ExistsBijection

\* No two workers fetch the same item, so the items in flight are counted by
\* the workers that fetch them.
LEMMA InFlightCardinality ==
  ASSUME JobsOK, NEW c \in Calls
  PROVE  Cardinality(InFlight(c)) = Cardinality(Fetching(c))
<1> DEFINE f == [w \in Fetching(c) |-> job[w][2]]
<1>1. f \in [Fetching(c) -> InFlight(c)] /\ \A w \in Fetching(c) : f[w] = job[w][2]
  BY DEF InFlight
<1> HIDE DEF f
<1>2. \A v, w \in Fetching(c) : f[v] = f[w] => v = w
  <2> SUFFICES ASSUME NEW v \in Fetching(c), NEW w \in Fetching(c), job[v][2] = job[w][2]
               PROVE  v = w
    BY <1>1
  <2>1. /\ v \in Workers /\ w \in Workers
        /\ workerState[v] = "fetch" /\ workerState[w] = "fetch"
        /\ job[v][1] = c /\ job[w][1] = c
    BY DEF Fetching
  <2>2. job[v] \in Calls \X Nat /\ job[w] \in Calls \X Nat
    BY <2>1 DEF JobsOK
  <2>3. job[v] = job[w]
    BY <2>1, <2>2
  <2> QED  BY <2>1, <2>3 DEF JobsOK
<1>3. \A i \in InFlight(c) : \E w \in Fetching(c) : f[w] = i
  BY <1>1 DEF InFlight
<1>4. f \in Bijection(Fetching(c), InFlight(c))
  BY <1>1, <1>2, <1>3, Fun_IsBij
<1> QED  BY <1>4, FetchingFinite, FS_Bijection DEF ExistsBijection

\* The places account for every item, each once.
LEMMA DeliveryIsExact ==
  ASSUME IInv, \A c \in Calls : Delivery(c)
  PROVE  DeliveredExactly
<1>1. ExactlyOnce
  <2> SUFFICES ASSUME NEW c \in Calls
               PROVE  Cardinality(InFlight(c)) + Cardinality(batch[c].outcomes)
                        + Len(delivered[c]) = batch[c].next
    BY DEF ExactlyOnce, Delivery
  <2>1. batch[c] \in BatchType
    BY DEF IInv, TypeOK
  <2>2. /\ batch[c].completed \in Seq(Nat) /\ batch[c].running \in Nat
        /\ batch[c].outstanding \in Nat /\ batch[c].yielded \in Nat /\ batch[c].next \in Nat
    BY <2>1 DEF BatchType
  <2>3. /\ batch[c].running = Cardinality(Fetching(c))
        /\ batch[c].outstanding = batch[c].running + Len(batch[c].completed)
        /\ Elements(batch[c].completed) = batch[c].outcomes
    BY DEF IInv, Counters
  <2>4. Distinct(batch[c].completed) /\ batch[c].next = batch[c].outstanding + batch[c].yielded
    BY DEF IInv, BooksOK
  <2>5. Cardinality(batch[c].outcomes) = Len(batch[c].completed)
    BY <2>2, <2>3, <2>4, DistinctCardinality
  <2>6. Cardinality(InFlight(c)) = batch[c].running
    BY <2>3, InFlightCardinality DEF IInv
  <2>7. Len(delivered[c]) = batch[c].yielded /\ Len(batch[c].completed) \in Nat
    BY <2>2 DEF Delivery
  <2> QED  BY <2>2, <2>3, <2>4, <2>5, <2>6, <2>7
<1>2. OrderKept
  BY DEF OrderKept, Delivery
<1> QED  BY <1>1, <1>2 DEF DeliveredExactly, IInv

\* What a step that neither fetches nor delivers for a call leaves in place.
LEMMA DeliveryFrame ==
  ASSUME NEW c \in Calls, Delivery(c), InFlight(c)' = InFlight(c),
         batch'[c].next = batch[c].next, batch'[c].yielded = batch[c].yielded,
         batch'[c].outcomes = batch[c].outcomes, delivered'[c] = delivered[c],
         result'[c] = "complete" => batch[c].yielded = Size[c]
  PROVE  Delivery(c)'
  BY DEF Delivery, Elements

\* The steps that only cancel, move a generator or put a thread to sleep.
LEMMA SameBooksDelivery ==
  ASSUME \A c \in Calls : Delivery(c), SameBooks, UNCHANGED <<workerVars, delivered>>,
         \A c \in Calls : result'[c] = "complete" =>
                            result[c] = "complete" \/ batch[c].yielded = Size[c]
  PROVE  \A c \in Calls : Delivery(c)'
<1> SUFFICES ASSUME NEW c \in Calls PROVE Delivery(c)'
  OBVIOUS
<1>1. InFlight(c)' = InFlight(c)
  BY DEF InFlight, Fetching, workerVars
<1>2. result'[c] = "complete" => batch[c].yielded = Size[c]
  BY DEF Delivery
<1> QED  BY <1>1, <1>2, DeliveryFrame DEF SameBooks

\* Delivering a result moves it from the outcomes to what the caller has.
LEMMA ConsumeDelivery ==
  ASSUME IInv, \A c \in Calls : Delivery(c), NEW c \in Calls, Consume(c)
  PROVE  \A d \in Calls : Delivery(d)'
<1> DEFINE i == NextIndex(c)
           b == Consumed(batch[c], i)
           s == delivered[c]
<1>1. /\ TypeOK /\ Available(c) /\ batch \in [Calls -> BatchType]
      /\ delivered \in [Calls -> Seq(Nat)]
  BY DEF Consume, IInv, TypeOK
<1>2. /\ batch' = [batch EXCEPT ![c] = b]
      /\ delivered' = [delivered EXCEPT ![c] = Append(s, i)]
      /\ UNCHANGED <<result, workerVars>>
  BY DEF Consume
<1>3. /\ i \in batch[c].outcomes /\ i \in Nat
      /\ b.next = batch[c].next /\ b.yielded = batch[c].yielded + 1
      /\ b.outcomes = batch[c].outcomes \ {i}
  BY <1>1, ConsumedFacts
<1>4. c \in Ordered => i = batch[c].yielded
  BY DEF NextIndex
<1>5. s \in Seq(Nat)
  BY <1>1
<1> HIDE DEF i, b, s
<1>6. \A d \in Calls : InFlight(d)' = InFlight(d)
  BY <1>2 DEF InFlight, Fetching, workerVars
<1>7. batch'[c] = b /\ delivered'[c] = Append(s, i)
  BY <1>1, <1>2
<1>8. Delivery(c)'
  <2>1. /\ InFlight(c) \union batch[c].outcomes \union Elements(s) = 0..(batch[c].next - 1)
        /\ Len(s) = batch[c].yielded
        /\ c \in Ordered => \A k \in 1..Len(s) : s[k] = k - 1
        /\ result[c] = "complete" => batch[c].yielded = Size[c]
    BY DEF Delivery, s
  <2>2. /\ Append(s, i) \in Seq(Nat) /\ Len(Append(s, i)) = Len(s) + 1
        /\ Elements(Append(s, i)) = Elements(s) \union {i}
    BY <1>3, <1>5, AppendFacts
  <2>3. InFlight(c) \union b.outcomes \union Elements(Append(s, i)) = 0..(b.next - 1)
    BY <1>3, <2>1, <2>2
  <2>4. Len(Append(s, i)) = b.yielded
    BY <1>3, <2>1, <2>2
  <2>5. c \in Ordered => \A k \in 1..Len(Append(s, i)) : Append(s, i)[k] = k - 1
    BY <1>3, <1>4, <1>5, <2>1, <2>2
  <2>6. result[c] # "complete"
    <3>1. /\ batch[c].yielded \in Nat /\ batch[c].outstanding \in Nat /\ Size[c] \in Nat
          /\ batch[c].next \in Nat
      BY <1>1, CallsAssumption DEF BatchType
    <3>2. /\ batch[c].next = batch[c].outstanding + batch[c].yielded
          /\ batch[c].next <= Size[c]
      BY DEF IInv, BooksOK
    <3>3. b.outstanding = batch[c].outstanding - 1 /\ b.outstanding \in Nat
      BY <1>1, ConsumedFacts DEF b, i, BatchType
    <3> QED  BY <2>1, <3>1, <3>2, <3>3
  <2>7. Elements(delivered[c])' = Elements(Append(s, i))
    BY <1>7 DEF Elements
  <2> QED  BY <1>2, <1>6, <1>7, <2>3, <2>4, <2>5, <2>6, <2>7 DEF Delivery
<1>9. \A d \in Calls \ {c} : batch'[d] = batch[d] /\ delivered'[d] = delivered[d]
  BY <1>1, <1>2
<1>10. \A d \in Calls \ {c} : Delivery(d)'
  <2> SUFFICES ASSUME NEW d \in Calls \ {c} PROVE Delivery(d)'
    OBVIOUS
  <2> QED  BY <1>2, <1>6, <1>9, DeliveryFrame DEF Delivery
<1> QED  BY <1>8, <1>10

\* A dispatch puts the next item in flight.
LEMMA TakeDelivery ==
  ASSUME IInv, \A c \in Calls : Delivery(c), NEW w \in Workers, Take(w)
  PROVE  \A c \in Calls : Delivery(c)'
<1>1. PICK k \in 1..Len(ready) :
        /\ IsFirstLive(k)
        /\ batch' = [batch EXCEPT ![ready[k]] = Dispatched(batch[ready[k]])]
        /\ job' = [job EXCEPT ![w] = <<ready[k], batch[ready[k]].next>>]
  BY DEF Take
<1>2. PICK c : c = ready[k]
  OBVIOUS
<1>3. TypeOK /\ workerState[w] = "take"
      /\ workerState' = [workerState EXCEPT ![w] = "fetch"] /\ UNCHANGED <<result, delivered>>
  BY DEF Take, IInv, callVars
<1>4. c \in Calls /\ batch[c] \in BatchType
  BY <1>2, <1>3 DEF TypeOK
<1> DEFINE b == Dispatched(batch[c])
<1>5. /\ b \in BatchType /\ b.next = batch[c].next + 1 /\ b.yielded = batch[c].yielded
      /\ b.outcomes = batch[c].outcomes
  BY <1>4, DispatchedFacts
<1> HIDE DEF b
<1>6. OneBatch(c, b)
  BY <1>1, <1>2, <1>3, <1>4, <1>5, OneBatchFacts DEF b
<1>7. job' = [job EXCEPT ![w] = <<c, batch[c].next>>]
  BY <1>1, <1>2
<1>8. batch[c].next \in Nat
  BY <1>4 DEF BatchType
<1>9. /\ Fetching(c)' = Fetching(c) \union {w} /\ w \notin Fetching(c)
      /\ \A d \in Calls \ {c} : Fetching(d)' = Fetching(d) /\ w \notin Fetching(d)
  BY <1>3, <1>4, <1>7 DEF Fetching, TypeOK
<1>10. job'[w] = <<c, batch[c].next>> /\ \A v \in Workers \ {w} : job'[v] = job[v]
  BY <1>3, <1>7 DEF TypeOK
<1>11. InFlight(c)' = InFlight(c) \union {batch[c].next}
  BY <1>9, <1>10 DEF InFlight, Fetching
<1>12. \A d \in Calls \ {c} : InFlight(d)' = InFlight(d)
  BY <1>9, <1>10 DEF InFlight, Fetching
<1>13. Delivery(c)'
  <2> DEFINE n == batch[c].next
             X == batch[c].outcomes \union Elements(delivered[c])
  <2>1. InFlight(c) \union X = 0..(n - 1)
    BY <1>4 DEF Delivery
  <2> HIDE DEF n, X
  <2>2. (InFlight(c) \union {n}) \union X = 0..((n + 1) - 1)
    BY <1>8, <2>1 DEF n
  <2>3. InFlight(c)' \union batch'[c].outcomes \union Elements(delivered[c])
          = 0..(batch'[c].next - 1)
    BY <1>5, <1>6, <1>11, <2>2 DEF OneBatch, n, X
  <2> QED  BY <1>3, <1>4, <1>5, <1>6, <2>3 DEF OneBatch, Delivery, Elements
<1> QED  BY <1>3, <1>6, <1>12, <1>13, DeliveryFrame DEF OneBatch, Delivery

\* A worker that returns moves its item from in flight to the outcomes.
LEMMA FinishDelivery ==
  ASSUME IInv, \A c \in Calls : Delivery(c), NEW w \in Workers, NEW ok \in BOOLEAN,
         Finish(w, ok)
  PROVE  \A c \in Calls : Delivery(c)'
<1>1. PICK c, i : c = job[w][1] /\ i = job[w][2]
  OBVIOUS
<1> DEFINE b == Completed(batch[c], i, ok)
<1>2. /\ TypeOK /\ workerState[w] = "fetch" /\ batch' = [batch EXCEPT ![c] = b]
      /\ job' = [job EXCEPT ![w] = <<>>]
      /\ workerState' = [workerState EXCEPT ![w] = "take"] /\ UNCHANGED <<result, delivered>>
  BY <1>1 DEF Finish, IInv, callVars
<1>3. c \in Calls /\ i \in Nat /\ batch[c] \in BatchType
  BY <1>1, <1>2 DEF IInv, JobsOK, TypeOK
<1>4. /\ b.next = batch[c].next /\ b.yielded = batch[c].yielded
      /\ b.outcomes = batch[c].outcomes \union {i}
  BY <1>3 DEF Completed, BatchType
<1> HIDE DEF b
<1>5. batch'[c] = b /\ \A d \in Calls \ {c} : batch'[d] = batch[d]
  BY <1>2, <1>3 DEF TypeOK
<1>6. /\ w \in Fetching(c) /\ Fetching(c)' = Fetching(c) \ {w}
      /\ \A d \in Calls \ {c} : Fetching(d)' = Fetching(d) /\ w \notin Fetching(d)
  BY <1>1, <1>2 DEF Fetching, TypeOK
<1>7. \A v \in Workers \ {w} : job'[v] = job[v]
  BY <1>2 DEF TypeOK
<1>8. InFlight(c)' \union {i} = InFlight(c)
  <2>1. InFlight(c)' = {job[v][2] : v \in Fetching(c) \ {w}}
    BY <1>6, <1>7 DEF InFlight, Fetching
  <2> QED  BY <1>1, <1>6, <2>1 DEF InFlight
<1>9. \A d \in Calls \ {c} : InFlight(d)' = InFlight(d)
  BY <1>6, <1>7 DEF InFlight, Fetching
<1>10. Delivery(c)'
  <2>1. InFlight(c)' \union batch'[c].outcomes \union Elements(delivered[c])
          = 0..(batch'[c].next - 1)
    BY <1>3, <1>4, <1>5, <1>8 DEF Delivery
  <2> QED  BY <1>2, <1>3, <1>4, <1>5, <2>1 DEF Delivery, Elements
<1> QED  BY <1>2, <1>5, <1>9, <1>10, DeliveryFrame DEF Delivery

LEMMA DeliveryInit == Init => \A c \in Calls : Delivery(c)
<1> SUFFICES ASSUME Init, NEW c \in Calls PROVE Delivery(c)
  OBVIOUS
<1>1. batch[c] = NewBatch /\ delivered[c] = <<>> /\ result[c] = "none"
  BY DEF Init
<1>2. NewBatch.next = 0 /\ NewBatch.yielded = 0 /\ NewBatch.outcomes = {}
  BY DEF NewBatch
<1>3. Fetching(c) = {} /\ Elements(delivered[c]) = {} /\ Len(delivered[c]) = 0
  BY <1>1 DEF Init, Fetching, Elements
<1>4. InFlight(c) = {}
  BY <1>3 DEF InFlight
<1> QED  BY <1>1, <1>2, <1>3, <1>4 DEF Delivery

LEMMA DeliveryNext ==
  IInv /\ (\A c \in Calls : Delivery(c)) /\ [Next]_vars => \A c \in Calls : Delivery(c)'
<1> SUFFICES ASSUME IInv, \A c \in Calls : Delivery(c), [Next]_vars
             PROVE  \A c \in Calls : Delivery(c)'
  OBVIOUS
<1>1. TypeOK /\ batch \in [Calls -> BatchType]
  BY DEF IInv, TypeOK
<1>2. ASSUME NEW c \in Calls, CallNext(c) PROVE \A d \in Calls : Delivery(d)'
  <2>1. CASE Consume(c)
    BY <2>1, ConsumeDelivery
  <2>2. CASE Resume(c) \/ EndAtOnce(c)
    <3>1. SameBooks
      BY <1>1, <2>2, UnchangedBooks DEF Resume, EndAtOnce
    <3>2. UNCHANGED <<workerVars, delivered>>
      BY <2>2 DEF Resume, EndAtOnce
    <3>3. \A d \in Calls \ {c} : result'[d] = result[d]
      BY <1>1, <2>2 DEF Resume, EndAtOnce, EndAs, TypeOK
    <3>4. result'[c] = "complete" => result[c] = "complete" \/ batch[c].yielded = Size[c]
      <4>1. /\ batch[c].yielded \in Nat /\ batch[c].outstanding \in Nat /\ Size[c] \in Nat
            /\ batch[c].next \in Nat
        BY <1>1, CallsAssumption DEF BatchType
      <4>2. /\ batch[c].next = batch[c].outstanding + batch[c].yielded
            /\ batch[c].next <= Size[c]
        BY DEF IInv, BooksOK
      <4>3. batch[c].yielded <= Size[c]
        BY <4>1, <4>2
      <4>4. CASE Resume(c)
        BY <4>1, <4>3, <4>4 DEF Resume
      <4>5. CASE EndAtOnce(c)
        <5>1. result'[c] = "complete" => Size[c] = 0
          BY <1>1, <4>5 DEF EndAtOnce, EndAs, TypeOK
        <5> QED  BY <4>1, <4>3, <5>1
      <4> QED  BY <2>2, <4>4, <4>5
    <3> QED  BY <3>1, <3>2, <3>3, <3>4, SameBooksDelivery
  <2>3. CASE Register(c) \/ AwaitResult(c) \/ Drain(c)
    <3>1. UNCHANGED <<batch, workerVars, delivered, result>>
      BY <2>3 DEF Register, AwaitResult, Drain, callVars
    <3> QED  BY <1>1, <3>1, UnchangedBooks, SameBooksDelivery
  <2>4. CASE Abandon(c)
    <3>1. UNCHANGED <<batch, workerVars, delivered>>
      BY <2>4 DEF Abandon
    <3>2. \A d \in Calls : result'[d] = "complete" => result[d] = "complete"
      BY <1>1, <2>4 DEF Abandon, EndAs, TypeOK
    <3> QED  BY <1>1, <3>1, <3>2, UnchangedBooks, SameBooksDelivery
  <2>5. CASE AwaitFailed(c)
    <3>1. SameBooks /\ UNCHANGED <<workerVars, delivered>>
      BY <1>1, <2>5, CancelOne DEF AwaitFailed
    <3>2. \A d \in Calls : result'[d] = "complete" => result[d] = "complete"
      BY <1>1, <2>5 DEF AwaitFailed, EndAs, TypeOK
    <3> QED  BY <3>1, <3>2, SameBooksDelivery
  <2>6. CASE Finally(c)
    <3> DEFINE v == batch[c].cancelled \/ batch[c].yielded < Size[c]
    <3>1. v \in BOOLEAN /\ (batch[c].cancelled => v)
      BY <1>1 DEF BatchType
    <3>2. batch' = [batch EXCEPT ![c].cancelled = v]
      BY <1>1, <2>6 DEF Finally
    <3> HIDE DEF v
    <3>3. SameBooks /\ UNCHANGED <<workerVars, delivered, result>>
      BY <1>1, <2>6, <3>1, <3>2, CancelOne DEF Finally
    <3> QED  BY <3>3, SameBooksDelivery
  <2> QED  BY <1>2, <2>1, <2>2, <2>3, <2>4, <2>5, <2>6 DEF CallNext
<1>3. ASSUME NEW w \in Workers, WorkerNext(w) PROVE \A d \in Calls : Delivery(d)'
  <2>1. CASE Idle(w)
    <3>1. UNCHANGED <<batch, job, delivered, result>>
      BY <2>1 DEF Idle, callVars
    <3>2. \A v \in Workers : workerState'[v] = "fetch" <=> workerState[v] = "fetch"
      BY <1>1, <2>1 DEF Idle, TypeOK
    <3>3. \A c \in Calls : InFlight(c)' = InFlight(c)
      BY <3>1, <3>2 DEF InFlight, Fetching
    <3> QED  BY <3>1, <3>3, DeliveryFrame DEF Delivery
  <2> QED  BY <1>3, <2>1, TakeDelivery, FinishDelivery DEF WorkerNext
<1>4. CASE Close
  <2>1. \A c \in Calls : batch'[c] = IF c \in batches
                                    THEN [batch[c] EXCEPT !.cancelled = TRUE] ELSE batch[c]
    BY <1>4 DEF Close
  <2>2. \A c \in Calls : /\ batch'[c].next = batch[c].next
                         /\ batch'[c].yielded = batch[c].yielded
                         /\ batch'[c].outcomes = batch[c].outcomes
    BY <1>1, <2>1 DEF BatchType
  <2>3. UNCHANGED <<workerVars, delivered, result>>
    BY <1>4 DEF Close, callVars
  <2>4. \A c \in Calls : InFlight(c)' = InFlight(c)
    BY <2>3 DEF InFlight, Fetching, workerVars
  <2> QED  BY <2>2, <2>3, <2>4, DeliveryFrame DEF Delivery
<1>5. CASE Joined \/ Terminated \/ UNCHANGED vars
  <2>1. UNCHANGED <<batch, workerVars, delivered, result>>
    BY <1>5 DEF Joined, Terminated, vars, callVars
  <2> QED  BY <1>1, <2>1, UnchangedBooks, SameBooksDelivery
<1> QED  BY <1>2, <1>3, <1>4, <1>5 DEF Next

\* Every item of every call is fetched once and delivered once; the ordered
\* calls get their items in order, and a call that completes has all of them.
THEOREM EachItemOnce == Spec => []DeliveredExactly
<1> DEFINE DInv == \A c \in Calls : Delivery(c)
<1>1. Init => DInv
  BY DeliveryInit
<1>2. IInv /\ DInv /\ [Next]_vars => DInv'
  BY DeliveryNext
<1>3. IInv /\ DInv => DeliveredExactly
  BY DeliveryIsExact
<1> HIDE DEF DInv
<1> QED  BY <1>1, <1>2, <1>3, Invariance, PTL DEF Spec

-----------------------------------------------------------------------------
(* The round robin.                                                        *)

\* Where c and d are both in the deque, c is before d.
Before(q, c, d) == \A i, j \in 1..Len(q) : q[i] = c /\ q[j] = d => i < j

\* A batch that was served while c was waiting is behind c now.
TurnsOK ==
  /\ served \in [Calls -> [Calls -> 0..1]]
  /\ \A c \in Calls : served[c][c] = 0
  /\ \A c, d \in Calls : Waits(c) /\ served[c][d] = 1 => Before(ready, c, d)

\* Appending anything but c keeps c before d.
LEMMA BeforeAppend ==
  ASSUME NEW S, NEW q \in Seq(S), NEW e \in S, NEW c, NEW d, e # c, Before(q, c, d)
  PROVE  Before(Append(q, e), c, d)
<1> SUFFICES ASSUME NEW i \in 1..Len(Append(q, e)), NEW j \in 1..Len(Append(q, e)),
                    Append(q, e)[i] = c, Append(q, e)[j] = d
             PROVE  i < j
  BY DEF Before
<1>1. i \in 1..Len(q) /\ q[i] = c
  OBVIOUS
<1>2. CASE j \in 1..Len(q)
  BY <1>1, <1>2 DEF Before
<1>3. CASE j = Len(q) + 1
  BY <1>1, <1>3
<1> QED  BY <1>2, <1>3

\* So does dropping the first elements.
LEMMA BeforeSuffix ==
  ASSUME NEW S, NEW q \in Seq(S), NEW k \in 1..Len(q), NEW c, NEW d, Before(q, c, d)
  PROVE  Before(SubSeq(q, k + 1, Len(q)), c, d)
<1> DEFINE t == SubSeq(q, k + 1, Len(q))
<1>1. Len(t) = Len(q) - k /\ \A i \in 1..Len(t) : t[i] = q[i + k]
  OBVIOUS
<1> HIDE DEF t
<1> SUFFICES ASSUME NEW i \in 1..Len(t), NEW j \in 1..Len(t), t[i] = c, t[j] = d
             PROVE  i < j
  BY DEF Before, t
<1>2. i + k \in 1..Len(q) /\ j + k \in 1..Len(q) /\ q[i + k] = c /\ q[j + k] = d
  BY <1>1
<1>3. i + k < j + k
  BY <1>2 DEF Before
<1> QED  BY <1>1, <1>3

\* And so does taking one element out.
LEMMA BeforeWithout ==
  ASSUME NEW S, NEW q \in Seq(S), NEW e, NEW c, NEW d, Before(q, c, d)
  PROVE  Before(Without(q, e), c, d)
<1>1. CASE e \notin Elements(q)
  BY <1>1 DEF Without
<1>2. CASE e \in Elements(q)
  <2> DEFINE k == CHOOSE i \in 1..Len(q) : q[i] = e
             t == [i \in 1..(Len(q) - 1) |-> IF i < k THEN q[i] ELSE q[i + 1]]
             f(i) == IF i < k THEN i ELSE i + 1
  <2>1. k \in 1..Len(q)
    BY <1>2 DEF Elements
  <2>2. Without(q, e) = t
    BY <1>2 DEF Without
  <2> HIDE DEF k
  <2>3. t \in Seq(S) /\ Len(t) = Len(q) - 1
    BY <2>1
  <2>4. \A i \in 1..Len(t) : f(i) \in 1..Len(q) /\ t[i] = q[f(i)]
    BY <2>1, <2>3
  <2>5. \A i, j \in 1..Len(t) : f(i) < f(j) => i < j
    BY <2>1, <2>3
  <2> HIDE DEF t, f
  <2>6. Before(t, c, d)
    BY <2>4, <2>5 DEF Before
  <2> QED  BY <2>2, <2>6
<1> QED  BY <1>1, <1>2

\* What a step does to the dispatches and to the deque, as seen by the batches
\* that wait before and after it: none dispatches and all keep their places,
\* or the first batch that can dispatch does, and goes behind the others.
Still == \A c \in Calls : batch'[c].next = batch[c].next
KeepPlaces(C) ==
  \A c \in C, d \in Calls :
    Waits(c) /\ Waits(c)' /\ Before(ready, c, d) => Before(ready', c, d)
Serves(e) ==
  /\ batch'[e].next = batch[e].next + 1
  /\ \A c \in Calls \ {e} : /\ batch'[c].next = batch[c].next
                            /\ Waits(c) => ~Before(ready, c, e) /\ Before(ready', c, e)

\* Enqueueing a batch takes nobody's place.
LEMMA MakeReadyPlaces ==
  ASSUME ReadyQueue, TypeOK, NEW e \in Calls, NEW b, MakeReady(e, b, ready, readyIds),
         NEW c \in Calls, NEW d \in Calls, Waits(c), Before(ready, c, d)
  PROVE  Before(ready', c, d)
<1>1. c \in readyIds /\ ready \in Seq(Calls)
  BY DEF ReadyQueue, Waits, TypeOK
<1>2. CASE CanDispatch(e, b) /\ e \notin readyIds
  <2>1. ready' = Append(ready, e) /\ e # c
    BY <1>1, <1>2 DEF MakeReady
  <2> QED  BY <1>1, <2>1, BeforeAppend
<1>3. CASE ~(CanDispatch(e, b) /\ e \notin readyIds)
  <2>1. ready' = ready
    BY <1>3 DEF MakeReady
  <2> QED  BY <2>1
<1> QED  BY <1>2, <1>3

LEMMA TakeServes ==
  ASSUME IInv, NEW w \in Workers, Take(w)
  PROVE  \E e \in Calls : Serves(e) /\ KeepPlaces(Calls \ {e})
<1>1. PICK k \in 1..Len(ready) :
        /\ IsFirstLive(k)
        /\ batch' = [batch EXCEPT ![ready[k]] = Dispatched(batch[ready[k]])]
        /\ MakeReady(ready[k], Dispatched(batch[ready[k]]), SubSeq(ready, k + 1, Len(ready)),
                     readyIds \ {ready[i] : i \in 1..k})
  BY DEF Take
<1>2. PICK e : e = ready[k]
  OBVIOUS
<1>3. TypeOK /\ ReadyQueue /\ ready \in Seq(Calls) /\ Distinct(ready)
  BY DEF IInv, TypeOK, ReadyQueue
<1>4. e \in Calls /\ batch[e] \in BatchType
  BY <1>2, <1>3 DEF TypeOK
<1> DEFINE b == Dispatched(batch[e])
<1>5. b \in BatchType /\ b.next = batch[e].next + 1
  BY <1>4, DispatchedFacts
<1> HIDE DEF b
<1>6. OneBatch(e, b)
  BY <1>1, <1>2, <1>3, <1>4, <1>5, OneBatchFacts DEF b
<1> DEFINE q == SubSeq(ready, k + 1, Len(ready))
<1>7. q \in Seq(Calls) /\ Elements(q) = Elements(ready) \ {ready[i] : i \in 1..k}
  BY <1>3, SuffixFacts
<1>8. e \notin Elements(q)
  BY <1>2, <1>7
<1>9. ready' = q \/ ready' = Append(q, e)
  BY <1>1, <1>2 DEF MakeReady
<1>10. \A c, d \in Calls : c # e /\ Before(q, c, d) => Before(ready', c, d)
  BY <1>4, <1>7, <1>9, BeforeAppend
<1>11. \A c, d \in Calls : Before(ready, c, d) => Before(q, c, d)
  BY <1>3, BeforeSuffix
<1>12. \A c \in Calls : Before(q, c, e)
  BY <1>8 DEF Before, Elements
<1> HIDE DEF q
\* A batch that waits is live, so it is not before the one that is served.
<1>13. \A c \in Calls \ {e} : Waits(c) => ~Before(ready, c, e)
  <2> SUFFICES ASSUME NEW c \in Calls \ {e}, Waits(c), Before(ready, c, e)
               PROVE  FALSE
    OBVIOUS
  <2>1. c \in Elements(ready) /\ Live(c)
    BY <1>3 DEF ReadyQueue, Waits, Live
  <2>2. PICK m \in 1..Len(ready) : ready[m] = c
    BY <2>1 DEF Elements
  <2>3. m < k
    BY <1>2, <2>2 DEF Before
  <2>4. m \in 1..(k - 1)
    BY <2>3
  <2> QED  BY <1>1, <2>1, <2>2, <2>4 DEF IsFirstLive
<1>14. Serves(e)
  <2>1. /\ batch'[e].next = batch[e].next + 1
        /\ \A c \in Calls \ {e} : batch'[c].next = batch[c].next
    BY <1>5, <1>6 DEF OneBatch
  <2>2. \A c \in Calls \ {e} : Before(ready', c, e)
    BY <1>4, <1>10, <1>12
  <2> QED  BY <1>13, <2>1, <2>2 DEF Serves
<1>15. KeepPlaces(Calls \ {e})
  BY <1>10, <1>11 DEF KeepPlaces
<1> QED  BY <1>4, <1>14, <1>15

\* A step that cancels at most, and leaves the deque as it is or takes a batch
\* out of it that is not registered any more.
LEMMA SameBooksKeeps ==
  ASSUME TypeOK, SameBooks, NEW e \in Calls, ready' = ready \/ RemoveBatch(e)
  PROVE  Still /\ KeepPlaces(Calls)
<1>1. Still
  BY DEF SameBooks, Still
<1>2. ready' = ready \/ ready' = Without(ready, e)
  BY DEF RemoveBatch
<1>3. ready \in Seq(Calls)
  BY DEF TypeOK
<1>4. KeepPlaces(Calls)
  BY <1>2, <1>3, BeforeWithout DEF KeepPlaces
<1> QED  BY <1>1, <1>4

LEMMA StepsInTurn ==
  ASSUME IInv, [Next]_vars
  PROVE  \/ Still /\ KeepPlaces(Calls)
         \/ \E e \in Calls : Serves(e) /\ KeepPlaces(Calls \ {e})
<1>1. TypeOK /\ ReadyQueue /\ batch \in [Calls -> BatchType]
  BY DEF IInv, TypeOK
<1>2. ASSUME NEW c \in Calls, CallNext(c) PROVE Still /\ KeepPlaces(Calls)
  <2>1. CASE Consume(c)
    <3> DEFINE b == Consumed(batch[c], NextIndex(c))
    <3>1. b \in BatchType /\ b.next = batch[c].next
      BY <2>1, ConsumedFacts DEF Consume
    <3>2. batch' = [batch EXCEPT ![c] = b] /\ MakeReady(c, b, ready, readyIds)
      BY <2>1 DEF Consume
    <3> HIDE DEF b
    <3>3. Still
      BY <1>1, <3>1, <3>2 DEF Still
    <3>4. KeepPlaces(Calls)
      BY <1>1, <3>2, MakeReadyPlaces DEF KeepPlaces
    <3> QED  BY <3>3, <3>4
  <2>2. CASE Register(c)
    <3>1. Still
      BY <2>2 DEF Still, Register
    <3>2. MakeReady(c, batch[c], ready, readyIds)
      BY <2>2 DEF Register
    <3>3. KeepPlaces(Calls)
      BY <1>1, <3>2, MakeReadyPlaces DEF KeepPlaces
    <3> QED  BY <3>1, <3>3
  <2>3. CASE AwaitFailed(c)
    <3>1. SameBooks
      BY <1>1, <2>3, CancelOne DEF AwaitFailed
    <3>2. ready' = ready \/ RemoveBatch(c)
      BY <2>3 DEF AwaitFailed, queueVars
    <3> QED  BY <1>1, <3>1, <3>2, SameBooksKeeps
  <2>4. CASE Finally(c)
    <3> DEFINE v == batch[c].cancelled \/ batch[c].yielded < Size[c]
    <3>1. v \in BOOLEAN /\ (batch[c].cancelled => v)
      BY <1>1 DEF BatchType
    <3>2. batch' = [batch EXCEPT ![c].cancelled = v]
      BY <1>1, <2>4 DEF Finally
    <3> HIDE DEF v
    <3>3. SameBooks
      BY <1>1, <3>1, <3>2, CancelOne
    <3>4. ready' = ready \/ RemoveBatch(c)
      BY <2>4 DEF Finally
    <3> QED  BY <1>1, <3>3, <3>4, SameBooksKeeps
  <2>5. CASE EndAtOnce(c) \/ AwaitResult(c) \/ Resume(c) \/ Abandon(c) \/ Drain(c)
    <3>1. SameBooks
      BY <1>1, <2>5, UnchangedBooks DEF EndAtOnce, AwaitResult, Resume, Abandon, Drain
    <3>2. ready' = ready \/ RemoveBatch(c)
      BY <2>5 DEF EndAtOnce, AwaitResult, Resume, Abandon, Drain, queueVars
    <3> QED  BY <1>1, <3>1, <3>2, SameBooksKeeps
  <2> QED  BY <1>2, <2>1, <2>2, <2>3, <2>4, <2>5 DEF CallNext
<1>3. ASSUME NEW w \in Workers, Idle(w) PROVE Still /\ KeepPlaces(Calls)
  <2>1. Still
    BY <1>3 DEF Idle, Still
  <2>2. KeepPlaces(Calls)
    BY <1>3 DEF Idle, KeepPlaces, Before
  <2> QED  BY <2>1, <2>2
<1>4. ASSUME NEW w \in Workers, NEW ok \in BOOLEAN, Finish(w, ok)
      PROVE  Still /\ KeepPlaces(Calls)
  <2>1. PICK c, i : c = job[w][1] /\ i = job[w][2]
    OBVIOUS
  <2>2. c \in Calls
    BY <1>4, <2>1 DEF IInv, JobsOK, Finish
  <2> DEFINE b == Completed(batch[c], i, ok)
  <2>3. batch' = [batch EXCEPT ![c] = b] /\ UNCHANGED ready
    BY <1>4, <2>1 DEF Finish
  <2>4. b.next = batch[c].next
    BY <1>1, <2>2 DEF Completed, BatchType
  <2> HIDE DEF b
  <2>5. Still
    BY <1>1, <2>2, <2>3, <2>4 DEF Still
  <2> QED  BY <2>3, <2>5 DEF KeepPlaces
<1>5. CASE Close
  <2>1. \A c \in Calls : batch'[c] = IF c \in batches
                                    THEN [batch[c] EXCEPT !.cancelled = TRUE] ELSE batch[c]
    BY <1>5 DEF Close
  <2>2. Still
    BY <1>1, <2>1 DEF BatchType, Still
  <2> QED  BY <1>5, <2>2 DEF Close, queueVars, KeepPlaces
<1>6. CASE Joined \/ Terminated \/ UNCHANGED vars
  <2>1. UNCHANGED <<batch, ready>>
    BY <1>6 DEF Joined, Terminated, vars, queueVars
  <2> QED  BY <2>1 DEF Still, KeepPlaces
<1>7. ASSUME NEW w \in Workers, Take(w)
      PROVE  \E e \in Calls : Serves(e) /\ KeepPlaces(Calls \ {e})
  BY <1>7, TakeServes
<1> QED  BY <1>2, <1>3, <1>4, <1>5, <1>6, <1>7 DEF Next, WorkerNext

LEMMA TurnsStep ==
  ASSUME IInv, TurnsOK, TurnNext
  PROVE  TurnsOK'
<1>1. [Next]_vars
  BY DEF TurnNext
<1>2. \A c, d \in Calls : served'[c][d] = Recount(c, d)
  BY DEF TurnNext
<1>3. \A c, d \in Calls : served[c][d] \in 0..1
  BY DEF TurnsOK
<1>4. \A c \in Calls : batch[c].next \in Nat
  BY DEF IInv, TypeOK, BatchType
\* One entry: nothing is counted, or the count stays, or c is passed once.
<1> DEFINE Entry(c, d) ==
      \/ served'[c][d] = 0
      \/ served'[c][d] = 1 /\ c # d /\ (Waits(c)' => Before(ready', c, d))
<1>5. ASSUME NEW c \in Calls, NEW d \in Calls PROVE Entry(c, d)
  <2>1. CASE ~Waits(c)
    BY <1>2, <2>1 DEF Recount
  <2>2. ASSUME Waits(c), batch'[c].next = batch[c].next, batch'[d].next = batch[d].next,
               Waits(c)' /\ Before(ready, c, d) => Before(ready', c, d)
        PROVE  Entry(c, d)
    <3>1. served'[c][d] = served[c][d]
      <4>1. batch'[d].next - batch[d].next = 0 /\ ~(batch'[c].next > batch[c].next)
        BY <1>4, <2>2
      <4>2. served'[c][d] = served[c][d] + 0
        BY <1>2, <2>2, <4>1 DEF Recount
      <4> QED  BY <1>3, <4>2
    <3>2. CASE served[c][d] = 0
      BY <3>1, <3>2
    <3>3. CASE served[c][d] = 1
      BY <2>2, <3>1, <3>3 DEF TurnsOK
    <3> QED  BY <1>3, <3>2, <3>3
  <2>3. CASE Waits(c) /\ Still /\ KeepPlaces(Calls)
    <3>1. batch'[c].next = batch[c].next /\ batch'[d].next = batch[d].next
      BY <2>3 DEF Still
    <3>2. Waits(c)' /\ Before(ready, c, d) => Before(ready', c, d)
      BY <2>3 DEF KeepPlaces
    <3> QED  BY <2>2, <2>3, <3>1, <3>2
  <2>4. ASSUME Waits(c), NEW e \in Calls, Serves(e), KeepPlaces(Calls \ {e})
        PROVE  Entry(c, d)
    <3>1. CASE c = e
      <4>1. batch'[c].next > batch[c].next
        BY <1>4, <2>4, <3>1 DEF Serves
      <4> QED  BY <1>2, <4>1 DEF Recount
    <3>2. CASE c # e /\ d = e
      <4>1. /\ batch'[c].next = batch[c].next /\ batch'[d].next = batch[d].next + 1
            /\ ~Before(ready, c, d) /\ Before(ready', c, d)
        BY <2>4, <3>2 DEF Serves
      <4>2. served[c][d] = 0
        BY <1>3, <2>4, <4>1 DEF TurnsOK
      <4>3. batch'[d].next - batch[d].next = 1 /\ ~(batch'[c].next > batch[c].next)
        BY <1>4, <4>1
      <4>4. served'[c][d] = 0 + 1
        BY <1>2, <2>4, <4>2, <4>3 DEF Recount
      <4> QED  BY <3>2, <4>1, <4>4
    <3>3. CASE c # e /\ d # e
      <4>1. batch'[c].next = batch[c].next /\ batch'[d].next = batch[d].next
        BY <2>4, <3>3 DEF Serves
      <4>2. Waits(c)' /\ Before(ready, c, d) => Before(ready', c, d)
        BY <2>4, <3>3 DEF KeepPlaces
      <4> QED  BY <2>2, <2>4, <4>1, <4>2
    <3> QED  BY <3>1, <3>2, <3>3
  <2> QED  BY <1>1, <2>1, <2>3, <2>4, StepsInTurn
<1>6. served' \in [Calls -> [Calls -> 0..1]]
  <2>1. served' = [c \in Calls |-> [d \in Calls |-> Recount(c, d)]]
    BY DEF TurnNext
  <2>2. \A c, d \in Calls : Recount(c, d) \in 0..1
    BY <1>2, <1>5
  <2> QED  BY <2>1, <2>2
<1>7. \A c \in Calls : served'[c][c] = 0
  BY <1>5
<1>8. \A c, d \in Calls : Waits(c)' /\ served'[c][d] = 1 => Before(ready', c, d)
  BY <1>5
<1>9. \A c, d \in Calls : Before(ready, c, d)' <=> Before(ready', c, d)
  BY DEF Before
<1> QED  BY <1>6, <1>7, <1>8, <1>9 DEF TurnsOK

LEMMA TurnsStutter ==
  ASSUME TurnsOK, UNCHANGED <<served, ready, batch, batches>>
  PROVE  TurnsOK'
<1>1. ASSUME NEW c \in Calls PROVE Waits(c)' <=> Waits(c)
  BY DEF Waits, CanDispatch
<1>2. \A c, d \in Calls : Before(ready, c, d)' <=> Before(ready, c, d)
  BY DEF Before
<1> QED  BY <1>1, <1>2 DEF TurnsOK

\* While a batch that can dispatch waits for its turn, no other batch is
\* served twice.
THEOREM NobodyIsOvertakenTwice == TurnSpec => []AtMostOneOvertake
<1>1. TurnInit => IInv /\ TurnsOK
  BY InitInv DEF TurnInit, TurnsOK, Waits, Init
<1>2. IInv /\ TurnsOK /\ [TurnNext]_<<vars, served>> => (IInv /\ TurnsOK)'
  <2> SUFFICES ASSUME IInv, TurnsOK, [TurnNext]_<<vars, served>>
               PROVE  IInv' /\ TurnsOK'
    OBVIOUS
  <2>1. IInv'
    BY NextInv DEF TurnNext
  <2>2. CASE UNCHANGED <<vars, served>>
    <3>1. UNCHANGED vars /\ UNCHANGED served
      BY <2>2
    <3>2. UNCHANGED batch /\ UNCHANGED queueVars
      BY <3>1 DEF vars
    <3>3. UNCHANGED <<batches, ready>>
      BY <3>2 DEF queueVars
    <3> QED  BY <2>1, <3>1, <3>2, <3>3, TurnsStutter
  <2> QED  BY <2>1, <2>2, TurnsStep
<1>3. TurnsOK => AtMostOneOvertake
  BY DEF TurnsOK, AtMostOneOvertake
<1> QED  BY <1>1, <1>2, <1>3, PTL DEF TurnSpec
=============================================================================
