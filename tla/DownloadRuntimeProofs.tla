------------------------ MODULE DownloadRuntimeProofs ------------------------
(***************************************************************************)
(* Proofs about DownloadRuntime for any calls, sizes, limits, retries and  *)
(* number of workers.                                                      *)
(***************************************************************************)
EXTENDS DownloadRuntime, FiniteSetTheorems, TLAPS

-----------------------------------------------------------------------------
(* The queue, a sequence without repetition.                               *)

LEMMA AppendFacts ==
  ASSUME NEW S, NEW s \in Seq(S), NEW e \in S
  PROVE  /\ Append(s, e) \in Seq(S) /\ Len(Append(s, e)) = Len(s) + 1
         /\ ToSet(Append(s, e)) = ToSet(s) \union {e}
         /\ IsInjective(s) /\ e \notin ToSet(s) => IsInjective(Append(s, e))
<1> DEFINE t == Append(s, e)
<1>1. /\ t \in Seq(S) /\ Len(t) = Len(s) + 1 /\ DOMAIN t = 1..(Len(s) + 1)
      /\ Len(s) \in Nat /\ DOMAIN s = 1..Len(s)
      /\ t[Len(s) + 1] = e /\ \A i \in 1..Len(s) : t[i] = s[i]
  OBVIOUS
<1> HIDE DEF t
<1>2. ToSet(t) = ToSet(s) \union {e}
  <2>1. ToSet(t) \subseteq ToSet(s) \union {e}
    BY <1>1 DEF ToSet
  <2>2. ToSet(s) \subseteq ToSet(t) /\ e \in ToSet(t)
    BY <1>1 DEF ToSet
  <2> QED  BY <2>1, <2>2
<1>3. ASSUME IsInjective(s), e \notin ToSet(s)  PROVE IsInjective(t)
  BY <1>1, <1>3 DEF IsInjective, ToSet
<1> QED  BY <1>1, <1>2, <1>3 DEF t

LEMMA WithoutFacts ==
  ASSUME NEW S, NEW s \in Seq(S), IsInjective(s), NEW X
  PROVE  /\ Without(s, X) \in Seq(S) /\ IsInjective(Without(s, X))
         /\ ToSet(Without(s, X)) = ToSet(s) \ X
<1> DEFINE Kept == {i \in DOMAIN s : s[i] \notin X}
           Below(i) == {h \in Kept : h <= i}
           n == Cardinality(Kept)
           place == [i \in Kept |-> Cardinality(Below(i))]
           t == [j \in 1..n |-> s[CHOOSE i \in Kept : Cardinality(Below(i)) = j]]
<1>1. Without(s, X) = t
  BY DEF Without
<1>2. Kept \subseteq 1..Len(s) /\ Len(s) \in Nat /\ DOMAIN s = 1..Len(s)
  OBVIOUS
<1>3. IsFiniteSet(Kept) /\ n \in Nat
  <2>1. IsFiniteSet(1..Len(s))
    BY <1>2, FS_Interval
  <2>2. IsFiniteSet(Kept)
    BY <1>2, <2>1, FS_Subset
  <2> QED  BY <2>2, FS_CardinalityType
<1> HIDE DEF n
<1>4. ASSUME NEW i \in Kept
      PROVE  /\ IsFiniteSet(Below(i)) /\ Cardinality(Below(i)) \in 1..n
  <2>1. Below(i) \in SUBSET Kept /\ i \in Below(i)
    BY <1>2
  <2>2. IsFiniteSet(Below(i)) /\ Cardinality(Below(i)) <= n /\ Cardinality(Below(i)) \in Nat
    BY <1>3, <2>1, FS_Subset, FS_CardinalityType DEF n
  <2>3. Cardinality(Below(i)) # 0
    BY <2>1, <2>2, FS_EmptySet
  <2> QED  BY <1>3, <2>2, <2>3
<1>5. ASSUME NEW i \in Kept, NEW j \in Kept, i < j
      PROVE  Cardinality(Below(i)) # Cardinality(Below(j))
  <2>1. Below(i) \in SUBSET Below(j) /\ j \in Below(j) /\ j \notin Below(i)
    BY <1>2, <1>5
  <2> QED  BY <1>4, <2>1, FS_Subset
<1>6. \A i, j \in Kept : Cardinality(Below(i)) = Cardinality(Below(j)) => i = j
  <2> SUFFICES ASSUME NEW i \in Kept, NEW j \in Kept, i # j
               PROVE  Cardinality(Below(i)) # Cardinality(Below(j))
    OBVIOUS
  <2>1. i \in Nat /\ j \in Nat
    BY <1>2
  <2>2. i < j \/ j < i
    BY <2>1
  <2> QED  BY <1>5, <2>2
<1>7. place \in Injection(Kept, 1..n)
  BY <1>4, <1>6 DEF Injection, IsInjective
<1>8. IsFiniteSet(1..n) /\ Cardinality(1..n) = n
  BY <1>3, FS_Interval
<1>9. place \in Surjection(Kept, 1..n)
  BY <1>7, <1>8, FS_Injection DEF n
<1>10. \A j \in 1..n : \E i \in Kept : Cardinality(Below(i)) = j
  BY <1>9 DEF Surjection
<1> DEFINE at(j) == CHOOSE i \in Kept : Cardinality(Below(i)) = j
<1>11. \A j \in 1..n : at(j) \in Kept /\ Cardinality(Below(at(j))) = j /\ t[j] = s[at(j)]
  BY <1>10
<1>12. \A i \in Kept : Cardinality(Below(i)) \in 1..n /\ at(Cardinality(Below(i))) = i
  BY <1>4, <1>6
<1>13. DOMAIN t = 1..n
  OBVIOUS
<1> HIDE DEF at, Below, t
<1>14. t \in Seq(S)
  BY <1>2, <1>3, <1>11 DEF t
<1>15. IsInjective(t)
  BY <1>2, <1>11, <1>13 DEF IsInjective
<1>16. ToSet(t) \subseteq ToSet(s) \ X
  BY <1>2, <1>11, <1>13 DEF ToSet
<1>17. ToSet(s) \ X \subseteq ToSet(t)
  <2> SUFFICES ASSUME NEW i \in Kept  PROVE s[i] \in ToSet(t)
    BY DEF ToSet
  <2> QED  BY <1>11, <1>12, <1>13 DEF ToSet
<1> QED  BY <1>1, <1>14, <1>15, <1>16, <1>17

LEMMA SuffixFacts ==
  ASSUME NEW S, NEW s \in Seq(S), IsInjective(s), NEW k \in 1..Len(s)
  PROVE  /\ SubSeq(s, k + 1, Len(s)) \in Seq(S) /\ IsInjective(SubSeq(s, k + 1, Len(s)))
         /\ ToSet(SubSeq(s, k + 1, Len(s))) = ToSet(s) \ {s[i] : i \in 1..k}
<1> DEFINE t == SubSeq(s, k + 1, Len(s))
<1>1. t \in Seq(S) /\ Len(t) = Len(s) - k
  OBVIOUS
<1>2. \A i \in 1..Len(t) : t[i] = s[i + k]
  OBVIOUS
<1> HIDE DEF t
<1>3. DOMAIN t = 1..Len(t) /\ DOMAIN s = 1..Len(s) /\ Len(s) \in Nat
  BY <1>1
<1>4. \A i \in 1..Len(s) : i > k => i - k \in 1..Len(t) /\ t[i - k] = s[i]
  BY <1>1, <1>2
<1>5. \A i \in 1..Len(t) : i + k \in 1..Len(s) /\ i + k > k
  BY <1>1, <1>3
<1>6. IsInjective(t)
  BY <1>2, <1>3, <1>5 DEF IsInjective
<1>7. ToSet(t) \subseteq ToSet(s) \ {s[i] : i \in 1..k}
  <2> SUFFICES ASSUME NEW i \in 1..Len(t)
               PROVE  t[i] \in ToSet(s) /\ \A j \in 1..k : t[i] # s[j]
    BY <1>3 DEF ToSet
  <2> DEFINE h == i + k
  <2>1. h \in 1..Len(s) /\ h > k /\ t[i] = s[h]
    BY <1>2, <1>5
  <2> HIDE DEF h
  <2>2. \A j \in 1..k : j \in 1..Len(s) /\ j # h
    BY <1>3, <2>1
  <2> QED  BY <1>3, <2>1, <2>2 DEF ToSet, IsInjective
<1>8. ToSet(s) \ {s[i] : i \in 1..k} \subseteq ToSet(t)
  <2> SUFFICES ASSUME NEW i \in 1..Len(s), s[i] \notin {s[j] : j \in 1..k}  PROVE s[i] \in ToSet(t)
    BY <1>3 DEF ToSet
  <2>1. i > k
    OBVIOUS
  <2> QED  BY <1>3, <1>4, <2>1 DEF ToSet
<1> QED  BY <1>1, <1>6, <1>7, <1>8 DEF t

-----------------------------------------------------------------------------
(* The inductive invariant.                                                *)

BatchType ==
  [next : Nat, outstanding : Int, running : Int, consumed : Nat, pending : Int,
   cancelled : BOOLEAN, retry : Seq(Nat), attempts : UNION {[Items(c) -> Nat] : c \in Calls}]

Types ==
  /\ batch \in [Calls -> BatchType]
  /\ batches \in SUBSET Calls /\ readyIds \in SUBSET Calls /\ ready \in Seq(Calls)
  /\ timers \in [Calls -> SUBSET Nat] /\ \A c \in Calls : IsFiniteSet(timers[c])
  /\ events \in [Calls -> Seq(Nat)] /\ holding \in [Calls -> Nat \union {None}]
  /\ delivered \in [Calls -> Seq(Nat)]
  /\ callState \in [Calls -> {"new", "wait", "consume", "callback", "cancel", "ended"}]
  /\ job \in [Workers -> (Calls \X Nat) \union {<<>>}]
  /\ workerState \in [Workers -> {"take", "download", "exited"}]
  /\ sleeping \in SUBSET Workers
  /\ closer \in {"open", "cancelled", "shutdown", "closed"} /\ closing \in BOOLEAN

\* Every item that is dispatched and not consumed has a slot of the window.
RunBy(c) == {w \in Workers : job[w] # <<>> /\ job[w][1] = c}
InHand(c) == IF holding[c] = None THEN 0 ELSE 1
Waits(c) == Len(batch[c].retry) + Cardinality(timers[c]) + Len(events[c]) + InHand(c)
BookOK(c) ==
  /\ batch[c].running = Cardinality(RunBy(c))
  /\ batch[c].running + Waits(c) <= batch[c].outstanding
  /\ batch[c].next = batch[c].consumed + batch[c].outstanding
  /\ batch[c].next <= Size[c]

CallOK(c) ==
  /\ callState[c] \in {"new", "wait", "callback", "cancel"} => holding[c] = None
  /\ callState[c] = "consume" => holding[c] # None
  /\ callState[c] = "new" => c \notin batches /\ batch[c].consumed = 0 /\ delivered[c] = <<>>
  /\ c \in batches => batch[c].consumed = Len(delivered[c]) /\ batch[c].consumed < Size[c]
  /\ c \in batches /\ callState[c] = "ended" => batch[c].cancelled \/ closer = "closed"

\* Only cancelled batches are in the queue without their id.
QueueOK ==
  /\ IsInjective(ready) /\ readyIds \subseteq ToSet(ready) /\ ToSet(ready) \subseteq batches
  /\ \A c \in ToSet(ready) \ readyIds : batch[c].cancelled
  /\ \A c \in batches : CanDispatch(c, batch[c]) => c \in readyIds
  /\ readyIds # {} \/ closing => sleeping = {}

WorkersOK ==
  /\ \A w \in Workers : workerState[w] = "download" <=> job[w] # <<>>
  /\ \A w \in Workers : job[w] # <<>> => job[w][1] \in batches
  /\ closer = "closed" => \A w \in Workers : workerState[w] = "exited"

IInv ==
  /\ Types /\ QueueOK /\ WorkersOK
  /\ \A c \in Calls : BookOK(c) /\ CallOK(c)

-----------------------------------------------------------------------------

LEMMA WorkersFinite == IsFiniteSet(Workers)
BY FS_Interval, DownloadAssumption DEF Workers

LEMMA RunByFinite ==
  ASSUME NEW c  PROVE IsFiniteSet(RunBy(c)) /\ Cardinality(RunBy(c)) \in Nat
BY WorkersFinite, FS_Subset, FS_CardinalityType DEF RunBy

LEMMA InitOK == Init => IInv
<1> SUFFICES ASSUME Init PROVE IInv
  OBVIOUS
<1>1. ASSUME NEW c \in Calls
      PROVE  /\ batch[c] = NewBatch(c) /\ batch[c] \in BatchType
             /\ batch[c].next = 0 /\ batch[c].outstanding = 0 /\ batch[c].running = 0
             /\ batch[c].consumed = 0 /\ Len(batch[c].retry) = 0
  <2>1. [i \in Items(c) |-> 0] \in UNION {[Items(d) -> Nat] : d \in Calls}
    <3>1. [i \in Items(c) |-> 0] \in [Items(c) -> Nat]
      OBVIOUS
    <3> QED  BY <3>1
  <2>2. batch[c] = NewBatch(c)
    BY DEF Init
  <2> QED  BY <2>1, <2>2 DEF NewBatch, BatchType
<1>2. Types
  <2>1. batch \in [Calls -> BatchType]
    BY <1>1 DEF Init
  <2>2. ready \in Seq(Calls) /\ events \in [Calls -> Seq(Nat)] /\ delivered \in [Calls -> Seq(Nat)]
    BY DEF Init
  <2>3. timers \in [Calls -> SUBSET Nat] /\ \A c \in Calls : IsFiniteSet(timers[c])
    BY FS_EmptySet DEF Init
  <2> QED  BY <2>1, <2>2, <2>3 DEF Init, Types
<1>3. QueueOK /\ WorkersOK
  BY DEF Init, QueueOK, WorkersOK, ToSet, IsInjective
<1>4. ASSUME NEW c \in Calls  PROVE BookOK(c)
  <2>1. RunBy(c) = {}
    BY DEF Init, RunBy
  <2>2. Cardinality(RunBy(c)) = 0 /\ Cardinality(timers[c]) = 0 /\ Len(events[c]) = 0
        /\ InHand(c) = 0
    BY <2>1, FS_EmptySet DEF Init, InHand
  <2>3. 0 <= Size[c]
    BY DownloadAssumption
  <2> HIDE DEF Init
  <2>4. batch[c].running = 0 /\ batch[c].outstanding = 0 /\ Len(batch[c].retry) = 0
        /\ batch[c].next = 0 /\ batch[c].consumed = 0
    BY <1>1
  <2>5. batch[c].running + Waits(c) = 0
    BY <2>2, <2>4 DEF Waits
  <2> QED  BY <2>2, <2>3, <2>4, <2>5 DEF BookOK
<1>5. ASSUME NEW c \in Calls  PROVE CallOK(c)
  BY <1>1 DEF Init, CallOK
<1> QED  BY <1>2, <1>3, <1>4, <1>5 DEF IInv

\* MakeReady, for a batch whose new state is b.
LEMMA MakeReadyOK ==
  ASSUME NEW c \in Calls, NEW b, NEW q \in Seq(Calls), NEW ids \in SUBSET Calls,
         IsInjective(q), ids \subseteq ToSet(q), ToSet(q) \subseteq batches', c \in batches',
         batch'[c] = b, \A d \in ToSet(q) \ ids : batch'[d].cancelled,
         \A d \in batches' : d # c /\ CanDispatch(d, batch'[d]) => d \in ids,
         ids # {} \/ closing' => sleeping = {},
         MakeReady(c, b, q, ids)
  PROVE  QueueOK' /\ ready' \in Seq(Calls) /\ readyIds' \in SUBSET Calls
         /\ sleeping' \subseteq sleeping
<1>1. CASE CanDispatch(c, b) /\ c \notin ids
  <2>1. ready' = Append(q, c) /\ readyIds' = ids \union {c} /\ sleeping' = {}
    BY <1>1 DEF MakeReady
  <2>2. c \notin ToSet(q)
    BY <1>1 DEF CanDispatch
  <2>3. IsInjective(ready') /\ ToSet(ready') = ToSet(q) \union {c} /\ ready' \in Seq(Calls)
    BY <2>1, <2>2, AppendFacts
  <2> QED  BY <2>1, <2>3 DEF QueueOK
<1>2. CASE ~(CanDispatch(c, b) /\ c \notin ids)
  <2>1. ready' = q /\ readyIds' = ids /\ sleeping' = sleeping
    BY <1>2 DEF MakeReady
  <2> QED  BY <1>2, <2>1 DEF QueueOK
<1> QED  BY <1>1, <1>2

\* The batches X leave, those of Y are cancelled, and no other gets work.
LEMMA ShrinkOK ==
  ASSUME QueueOK, NEW X, NEW Y, batches' = batches \ X,
         ready' \in Seq(Calls), IsInjective(ready'), ToSet(ready') = ToSet(ready) \ X,
         readyIds' = readyIds \ (X \union Y),
         \A d \in batches \ X : batch[d].cancelled \/ d \in Y => batch'[d].cancelled,
         \A d \in batches \ X : CanDispatch(d, batch'[d]) => CanDispatch(d, batch[d]),
         UNCHANGED <<sleeping, closing>>
  PROVE  QueueOK'
<1>1. \A d \in batches \ X : CanDispatch(d, batch'[d]) => d \notin Y
  BY DEF CanDispatch
<1> QED  BY <1>1 DEF QueueOK

\* The result of a step that changes one batch to b.
LEMMA OneBatch ==
  ASSUME Types, NEW c \in Calls, NEW b \in BatchType, batch' = [batch EXCEPT ![c] = b]
  PROVE  /\ batch' \in [Calls -> BatchType] /\ batch'[c] = b
         /\ \A d \in Calls : d # c => batch'[d] = batch[d]
BY DEF Types

\* The numbers of a batch.
LEMMA Numbers ==
  ASSUME Types, NEW c \in Calls
  PROVE  /\ batch[c] \in BatchType /\ batch[c].running \in Int /\ batch[c].outstanding \in Int
         /\ batch[c].next \in Nat /\ batch[c].consumed \in Nat /\ batch[c].retry \in Seq(Nat)
         /\ Len(batch[c].retry) \in Nat /\ Len(events[c]) \in Nat /\ InHand(c) \in Nat
         /\ IsFiniteSet(timers[c]) /\ Cardinality(timers[c]) \in Nat /\ Size[c] \in Nat
         /\ Len(delivered[c]) \in Nat /\ Waits(c) \in Nat
<1>1. batch[c] \in BatchType /\ batch[c].retry \in Seq(Nat) /\ batch[c].running \in Int
      /\ batch[c].outstanding \in Int /\ batch[c].next \in Nat /\ batch[c].consumed \in Nat
  BY DEF Types, BatchType
<1>2. Len(batch[c].retry) \in Nat
  BY <1>1
<1>3. Len(events[c]) \in Nat /\ Len(delivered[c]) \in Nat /\ InHand(c) \in Nat
  BY DEF Types, InHand
<1>4. IsFiniteSet(timers[c]) /\ Cardinality(timers[c]) \in Nat
  BY FS_CardinalityType DEF Types
<1>5. Size[c] \in Nat
  BY DownloadAssumption
<1>6. Waits(c) \in Nat
  BY <1>2, <1>3, <1>4, SMTT(20) DEF Waits
<1> QED  BY <1>1, <1>2, <1>3, <1>4, <1>5, <1>6

\* The parts of Waits, before and after a step.
LEMMA WaitsParts ==
  ASSUME Types, NEW c \in Calls
  PROVE  \E r, t, e, h \in Nat :
           /\ r = Len(batch[c].retry) /\ t = Cardinality(timers[c])
           /\ e = Len(events[c]) /\ h = InHand(c) /\ Waits(c) = r + t + e + h
BY Numbers DEF Waits

\* What BookOK says of them.
LEMMA BookNumbers ==
  ASSUME Types, NEW c \in Calls, BookOK(c)
  PROVE  \E R, W, O, N, C \in Int :
           /\ R = batch[c].running /\ W = Waits(c) /\ O = batch[c].outstanding
           /\ N = batch[c].next /\ C = batch[c].consumed
           /\ R + W <= O /\ N = C + O /\ N <= Size[c] /\ R = Cardinality(RunBy(c))
<1>1. /\ batch[c].running \in Int /\ batch[c].outstanding \in Int /\ Waits(c) \in Int
      /\ batch[c].next \in Int /\ batch[c].consumed \in Int
  BY Numbers
<1>2. /\ batch[c].running + Waits(c) <= batch[c].outstanding
      /\ batch[c].next = batch[c].consumed + batch[c].outstanding
      /\ batch[c].next <= Size[c] /\ batch[c].running = Cardinality(RunBy(c))
  BY DEF BookOK
<1> HIDE DEF Waits
<1> QED  BY <1>1, <1>2

LEMMA ConsumedFacts ==
  ASSUME NEW b \in BatchType
  PROVE  LET n == Consumed(b) IN
         /\ n \in BatchType /\ n.consumed = b.consumed + 1 /\ n.outstanding = b.outstanding - 1
         /\ n.running = b.running /\ n.next = b.next /\ n.retry = b.retry
         /\ n.cancelled = b.cancelled
<1>1. b.pending - 1 \in Int /\ b.outstanding - 1 \in Int /\ b.consumed + 1 \in Nat
  BY DEF BatchType
<1> QED  BY <1>1 DEF Consumed, BatchType

LEMMA BookSame ==
  ASSUME NEW c \in Calls, BookOK(c), batch'[c] = batch[c], timers'[c] = timers[c],
         events'[c] = events[c], holding'[c] = holding[c], RunBy(c)' = RunBy(c)
  PROVE  BookOK(c)'
BY DEF BookOK, Waits, InHand

\* Slots that are given out, given back, or pass from one place to the other.
LEMMA BookMoved ==
  ASSUME Types, NEW c \in Calls, BookOK(c), NEW run \in Int, NEW wait \in Int, NEW out \in Int,
         batch'[c].running = batch[c].running + run,
         Cardinality(RunBy(c)') = Cardinality(RunBy(c)) + run,
         Waits(c)' <= Waits(c) + wait, Waits(c)' \in Int,
         batch'[c].outstanding = batch[c].outstanding + out, run + wait <= out,
         batch'[c].next = batch'[c].consumed + batch'[c].outstanding,
         batch'[c].next <= Size[c]
  PROVE  BookOK(c)'
<1>1. batch[c].running \in Int /\ batch[c].outstanding \in Int /\ Waits(c) \in Nat
  BY Numbers
<1>2. batch'[c].running + Waits(c)' <= batch'[c].outstanding
  BY <1>1 DEF BookOK
<1> QED  BY <1>2, RunByFinite DEF BookOK

-----------------------------------------------------------------------------
(* The calls.                                                              *)

\* Steps that only move one call on.
LEMMA MoveOnOK ==
  ASSUME IInv, NEW c \in Calls,
         EndAtOnce(c) \/ ConsumeRefused(c) \/ CallbackReturns(c) \/ CallbackRaises(c)
  PROVE  IInv'
<1> USE DEF EndAtOnce, ConsumeRefused, CallbackReturns, CallbackRaises, EndAs, Goto,
            queueVars, workerVars, closeVars
<1>1. Types'
  BY DEF IInv, Types
<1>2. QueueOK' /\ WorkersOK'
  BY DEF IInv, QueueOK, WorkersOK
<1>3. ASSUME NEW d \in Calls  PROVE BookOK(d)'
  BY BookSame DEF IInv, RunBy
<1>4. ASSUME NEW d \in Calls  PROVE CallOK(d)'
  <2>1. CallOK(d) /\ d \in DOMAIN callState /\ Len(delivered[d]) \in Nat /\ Size[d] \in Nat
    BY DownloadAssumption DEF IInv, Types
  <2>2. CASE d # c
    BY <2>1, <2>2 DEF CallOK
  <2>3. CASE d = c
    <3>1. CASE EndAtOnce(c) \/ CallbackRaises(c)
      BY <2>1, <2>3, <3>1 DEF CallOK
    <3>2. CASE ConsumeRefused(c)
      BY <2>1, <2>3, <3>2 DEF CallOK, LoopGone
    <3>3. CASE CallbackReturns(c)
      BY <2>1, <2>3, <3>3 DEF CallOK
    <3> QED  BY <3>1, <3>2, <3>3
  <2> QED  BY <2>2, <2>3
<1> QED  BY <1>1, <1>2, <1>3, <1>4 DEF IInv

LEMMA GetEventOK ==
  ASSUME IInv, NEW c \in Calls, GetEvent(c)
  PROVE  IInv'
<1> USE DEF GetEvent, Goto, queueVars, workerVars, closeVars
<1>1. /\ Head(events[c]) \in Nat /\ Tail(events[c]) \in Seq(Nat)
      /\ Len(Tail(events[c])) = Len(events[c]) - 1 /\ Len(events[c]) \in Nat
      /\ holding[c] = None /\ None \notin Nat
  BY DownloadAssumption DEF IInv, Types, CallOK
<1>2. Types'
  BY <1>1 DEF IInv, Types
<1>3. QueueOK' /\ WorkersOK'
  BY DEF IInv, QueueOK, WorkersOK
<1>4. ASSUME NEW d \in Calls  PROVE BookOK(d)'
  <2>1. BookOK(d) /\ RunBy(d)' = RunBy(d)
    BY DEF IInv, RunBy
  <2>2. CASE d # c
    BY <2>1, <2>2, BookSame DEF IInv, Types
  <2>3. CASE d = c
    <3>1. Len(events'[c]) = Len(events[c]) - 1 /\ InHand(c)' = 1 /\ InHand(c) = 0
      BY <1>1 DEF IInv, Types, InHand
    <3>2. PICK r \in Nat, t \in Nat, e \in Nat, h \in Nat :
            /\ r = Len(batch[c].retry) /\ t = Cardinality(timers[c])
            /\ e = Len(events[c]) /\ h = InHand(c) /\ Waits(c) = r + t + e + h
      BY WaitsParts DEF IInv
    <3>3. batch' = batch /\ timers' = timers
      OBVIOUS
    <3> HIDE DEF GetEvent, Goto, queueVars, workerVars, closeVars
    <3>4. Waits(c)' = r + t + (e - 1) + 1
      BY <3>1, <3>2, <3>3 DEF Waits
    <3>5. h = 0 /\ r \in Int /\ t \in Int /\ e \in Int
      BY <3>1, <3>2
    <3>6. Waits(c)' = Waits(c)
      <4>1. Waits(c) = r + t + e
        BY <3>2, <3>5
      <4>2. r + t + (e - 1) + 1 = r + t + e
        BY <3>5
      <4>3. Waits(c)' = r + t + e
        BY <3>4, <4>2
      <4> QED  BY <4>1, <4>3
    <3> QED  BY <2>1, <2>3, <3>3, <3>6 DEF BookOK
  <2> QED  BY <2>2, <2>3
<1>5. ASSUME NEW d \in Calls  PROVE CallOK(d)'
  BY <1>1 DEF IInv, Types, CallOK
<1> QED  BY <1>2, <1>3, <1>4, <1>5 DEF IInv

LEMMA RegisterOK ==
  ASSUME IInv, NEW c \in Calls, Register(c)
  PROVE  IInv'
<1> USE DEF Register, Goto, closeVars
<1>1. /\ c \notin batches /\ batch[c].consumed = 0 /\ delivered[c] = <<>>
      /\ Len(delivered[c]) = 0 /\ c \notin ToSet(ready) /\ holding[c] = None
  BY DEF IInv, CallOK, QueueOK
<1>2. QueueOK' /\ ready' \in Seq(Calls) /\ readyIds' \in SUBSET Calls /\ sleeping' \subseteq sleeping
  <2>1. MakeReady(c, batch[c], ready, readyIds) /\ batch' = batch /\ batches' = batches \union {c}
        /\ closing' = closing
    OBVIOUS
  <2> HIDE DEF Register
  <2> QED  BY <1>1, <2>1, MakeReadyOK DEF IInv, Types, QueueOK
<1>3. Types'
  BY <1>2 DEF IInv, Types
<1>4. WorkersOK'
  BY DEF IInv, WorkersOK
<1>5. ASSUME NEW d \in Calls  PROVE BookOK(d)'
  BY BookSame DEF IInv, RunBy
<1>6. ASSUME NEW d \in Calls  PROVE CallOK(d)'
  BY <1>1 DEF IInv, Types, CallOK
<1> QED  BY <1>2, <1>3, <1>4, <1>5, <1>6 DEF IInv

\* When the last result is consumed nothing runs any more.
LEMMA ConsumeOK ==
  ASSUME IInv, NEW c \in Calls, Consume(c)
  PROVE  IInv'
<1>0. Types /\ QueueOK /\ WorkersOK /\ BookOK(c) /\ CallOK(c)
  BY DEF IInv
<1>1. /\ callState[c] = "consume" /\ closer # "closed"
      /\ delivered' = [delivered EXCEPT ![c] = Append(@, holding[c])]
      /\ holding' = [holding EXCEPT ![c] = None]
      /\ callState' = [callState EXCEPT ![c] = "callback"]
      /\ UNCHANGED <<timers, events, result, job, workerState, closer, closing>>
  BY DEF Consume, Goto, closeVars, LoopGone
<1>2. holding[c] \in Nat /\ InHand(c) = 1
  BY <1>0, <1>1 DEF Types, CallOK, InHand
<1>3. /\ delivered' \in [Calls -> Seq(Nat)] /\ Len(delivered'[c]) = Len(delivered[c]) + 1
      /\ holding' \in [Calls -> Nat \union {None}] /\ InHand(c)' = 0
      /\ callState' \in [Calls -> {"new", "wait", "consume", "callback", "cancel", "ended"}]
  BY <1>0, <1>1, <1>2 DEF Types, InHand
<1>4. \A d \in Calls : d # c => InHand(d)' = InHand(d) /\ delivered'[d] = delivered[d]
                                /\ holding'[d] = holding[d] /\ callState'[d] = callState[d]
  BY <1>0, <1>1 DEF Types, InHand
<1>5. \A d \in Calls : RunBy(d)' = RunBy(d)
  BY <1>1 DEF RunBy
<1>6. ASSUME batch'[c].retry = batch[c].retry  PROVE Waits(c)' = Waits(c) - 1
  <2>1. PICK r \in Nat, t \in Nat, e \in Nat, h \in Nat :
          /\ r = Len(batch[c].retry) /\ t = Cardinality(timers[c])
          /\ e = Len(events[c]) /\ h = InHand(c) /\ Waits(c) = r + t + e + h
    BY <1>0, WaitsParts
  <2>2. Waits(c)' = r + t + e + 0
    BY <1>1, <1>3, <1>6, <2>1 DEF Waits
  <2> QED  BY <1>2, <2>1, <2>2
<1>7. CASE c \in batches
  <2> DEFINE b == Consumed(batch[c])
  <2>1. /\ batch' = [batch EXCEPT ![c] = b]
        /\ IF b.consumed >= Size[c]
           THEN RemoveBatches({c}) /\ UNCHANGED sleeping
           ELSE MakeReady(c, b, ready, readyIds) /\ UNCHANGED batches
    BY <1>7 DEF Consume
  <2>2. /\ b \in BatchType /\ b.consumed = batch[c].consumed + 1
        /\ b.outstanding = batch[c].outstanding - 1 /\ b.running = batch[c].running
        /\ b.next = batch[c].next /\ b.retry = batch[c].retry /\ b.cancelled = batch[c].cancelled
    BY <1>0, Numbers, ConsumedFacts
  <2> HIDE DEF b
  <2>3. /\ batch' \in [Calls -> BatchType] /\ batch'[c] = b
        /\ \A d \in Calls : d # c => batch'[d] = batch[d]
    BY <1>0, <2>1, <2>2, OneBatch
  <2>4. BookOK(c)'
    <3>0. Waits(c)' = Waits(c) - 1
      BY <1>0, <1>6, <2>2, <2>3
    <3>1. Waits(c)' \in Int
      BY <1>0, <3>0, Numbers
    <3>2. b.next = b.consumed + b.outstanding /\ b.next <= Size[c]
      <4>1. batch[c].next = batch[c].consumed + batch[c].outstanding /\ batch[c].next <= Size[c]
        BY <1>0 DEF BookOK
      <4>2. batch[c].consumed \in Int /\ batch[c].outstanding \in Int
        BY <1>0, Numbers
      <4> QED  BY <2>2, <4>1, <4>2
    <3>3. batch[c].running \in Int /\ batch[c].outstanding \in Int
          /\ Cardinality(RunBy(c)) \in Nat
      BY <1>0, Numbers, RunByFinite
    <3> DEFINE one == -1
    <3>4. one \in Int /\ 0 + one <= one /\ Waits(c)' <= Waits(c) + one
          /\ b.running = batch[c].running + 0 /\ b.outstanding = batch[c].outstanding + one
          /\ Cardinality(RunBy(c)') = Cardinality(RunBy(c)) + 0
      BY <1>0, <1>5, <2>2, <3>0, <3>3, Numbers, SMTT(20)
    <3> HIDE DEF one
    <3> QED  BY <1>0, <2>3, <3>0, <3>1, <3>2, <3>4, BookMoved
  <2>5. ASSUME NEW d \in Calls  PROVE BookOK(d)'
    <3>1. CASE d # c
      BY <1>1, <1>4, <1>5, <2>3, <3>1, BookSame DEF IInv
    <3> QED  BY <2>4, <3>1
  <2>6. CASE b.consumed >= Size[c]
    <3>1. /\ batches' = batches \ {c} /\ readyIds' = readyIds \ {c} /\ sleeping' = sleeping
          /\ ready' = Without(ready, {c})
      BY <2>1, <2>6 DEF RemoveBatches
    <3>2. ready' \in Seq(Calls) /\ IsInjective(ready') /\ ToSet(ready') = ToSet(ready) \ {c}
      BY <1>0, <3>1, WithoutFacts DEF Types, QueueOK
    <3>3. QueueOK'
      <4>1. \A d \in batches \ {c} : batch'[d] = batch[d]
        BY <1>0, <2>3 DEF Types
      <4>2. QueueOK /\ UNCHANGED <<sleeping, closing>> /\ readyIds' = readyIds \ ({c} \union {})
        BY <1>0, <1>1, <3>1
      <4> QED  BY <3>1, <3>2, <4>1, <4>2, ShrinkOK
    <3>4. Types'
      BY <1>0, <1>1, <1>3, <2>3, <3>1, <3>2 DEF Types
    <3>5. Cardinality(RunBy(c)) = 0
      <4>1. batch[c].outstanding <= 1
        BY <1>0, <2>2, <2>6, Numbers, SMTT(20) DEF BookOK
      <4>2. batch[c].running <= 0
        <5>1. Waits(c) >= 1
          BY <1>0, <1>2, Numbers DEF Waits
        <5> QED  BY <1>0, <4>1, <5>1, Numbers DEF BookOK
      <4> QED  BY <1>0, <4>2, RunByFinite DEF BookOK
    <3>6. RunBy(c) = {}
      BY <3>5, RunByFinite, FS_EmptySet
    <3>7. WorkersOK'
      BY <1>0, <1>1, <3>1, <3>6 DEF WorkersOK, RunBy
    <3>8. ASSUME NEW d \in Calls  PROVE CallOK(d)'
      <4>1. CASE d # c
        BY <1>1, <1>4, <2>3, <3>1, <4>1 DEF IInv, CallOK
      <4>2. CASE d = c
        BY <1>0, <1>1, <1>3, <3>1, <4>2 DEF CallOK, Types
      <4> QED  BY <4>1, <4>2
    <3> QED  BY <2>5, <3>3, <3>4, <3>7, <3>8 DEF IInv
  <2>7. CASE ~(b.consumed >= Size[c])
    <3>1. MakeReady(c, b, ready, readyIds) /\ batches' = batches
      BY <2>1, <2>7
    <3>2. /\ QueueOK' /\ ready' \in Seq(Calls) /\ readyIds' \in SUBSET Calls
          /\ sleeping' \subseteq sleeping
      <4>1. /\ IsInjective(ready) /\ readyIds \subseteq ToSet(ready)
            /\ ToSet(ready) \subseteq batches' /\ c \in batches'
            /\ readyIds # {} \/ closing' => sleeping = {}
        BY <1>0, <1>1, <1>7, <3>1 DEF QueueOK
      <4>2. \A d \in batches : batch'[d].cancelled = batch[d].cancelled
        BY <1>0, <2>2, <2>3 DEF Types
      <4>3. \A d \in ToSet(ready) \ readyIds : batch'[d].cancelled
        BY <1>0, <4>2 DEF QueueOK
      <4>4. \A d \in batches' : d # c /\ CanDispatch(d, batch'[d]) => d \in readyIds
        BY <1>0, <2>3, <3>1 DEF QueueOK, Types
      <4>5. ready \in Seq(Calls) /\ readyIds \in SUBSET Calls
        BY <1>0 DEF Types
      <4> QED  BY <2>3, <3>1, <4>1, <4>3, <4>4, <4>5, MakeReadyOK
    <3>3. Types'
      BY <1>0, <1>1, <1>3, <2>3, <3>1, <3>2 DEF Types
    <3>4. WorkersOK'
      BY <1>0, <1>1, <3>1 DEF WorkersOK
    <3>5. ASSUME NEW d \in Calls  PROVE CallOK(d)'
      <4>1. CASE d # c
        BY <1>1, <1>4, <2>3, <3>1, <4>1 DEF IInv, CallOK
      <4>2. CASE d = c
        <5>1. callState'[c] = "callback" /\ holding'[c] = None
          BY <1>0, <1>1 DEF Types
        <5>2. b.consumed = Len(delivered'[c])
          BY <1>0, <1>3, <1>7, <2>2 DEF CallOK
        <5>3. b.consumed < Size[c]
          BY <1>0, <2>2, <2>7, Numbers, SMTT(20)
        <5> QED  BY <2>3, <4>2, <5>1, <5>2, <5>3 DEF CallOK
      <4> QED  BY <4>1, <4>2
    <3> QED  BY <2>5, <3>2, <3>3, <3>4, <3>5 DEF IInv
  <2> QED  BY <2>6, <2>7
<1>8. CASE c \notin batches
  <2>1. UNCHANGED <<batch, batches, ready, readyIds, sleeping>>
    BY <1>8 DEF Consume, queueVars
  <2>2. Types'
    BY <1>0, <1>1, <1>3, <2>1 DEF Types
  <2>3. QueueOK' /\ WorkersOK'
    BY <1>0, <1>1, <2>1 DEF QueueOK, WorkersOK
  <2>4. ASSUME NEW d \in Calls  PROVE BookOK(d)' /\ CallOK(d)'
    <3>1. CASE d # c
      BY <1>1, <1>4, <1>5, <2>1, <3>1, BookSame DEF IInv, CallOK
    <3>2. CASE d = c
      <4>1. BookOK(c)'
        <5>1. Waits(c)' = Waits(c) - 1
          BY <1>6, <2>1
        <5>2. batch'[c] = batch[c] /\ RunBy(c)' = RunBy(c)
          BY <1>5, <2>1
        <5>3. /\ batch[c].running \in Int /\ batch[c].outstanding \in Int
              /\ Waits(c) \in Int
          BY <1>0, Numbers
        <5> QED  BY <1>0, <5>1, <5>2, <5>3 DEF BookOK
      <4>2. CallOK(c)'
        BY <1>0, <1>1, <1>3, <1>8, <2>1 DEF CallOK, Types
      <4> QED  BY <3>2, <4>1, <4>2
    <3> QED  BY <3>1, <3>2
  <2> QED  BY <2>2, <2>3, <2>4 DEF IInv
<1> QED  BY <1>7, <1>8

LEMMA RemoveOK ==
  ASSUME Types, QueueOK, NEW X, RemoveBatches(X), UNCHANGED <<sleeping, closing>>,
         \A d \in batches \ X : batch'[d] = batch[d]
  PROVE  /\ QueueOK' /\ ready' \in Seq(Calls) /\ readyIds' \in SUBSET Calls
         /\ batches' = batches \ X
<1>1. batches' = batches \ X /\ readyIds' = readyIds \ X /\ ready' = Without(ready, X)
  BY DEF RemoveBatches
<1>2. ready' \in Seq(Calls) /\ IsInjective(ready') /\ ToSet(ready') = ToSet(ready) \ X
  BY <1>1, WithoutFacts DEF Types, QueueOK
<1>3. readyIds' = readyIds \ (X \union {}) /\ readyIds' \in SUBSET Calls
  BY <1>1 DEF Types
<1> QED  BY <1>1, <1>2, <1>3, ShrinkOK

LEMMA CancelledFacts ==
  ASSUME NEW b \in BatchType
  PROVE  LET n == Cancelled(b) IN
         /\ n \in BatchType /\ n.consumed = b.consumed /\ n.outstanding = b.outstanding
         /\ n.running = b.running /\ n.next = b.next /\ n.retry = <<>> /\ n.cancelled
<1>1. <<>> \in Seq(Nat) /\ 0 \in Int /\ TRUE \in BOOLEAN
  OBVIOUS
<1> QED  BY <1>1 DEF Cancelled, BatchType

\* Fewer results wait, and nothing else changes.
LEMMA BookShrinks ==
  ASSUME Types, NEW c \in Calls, BookOK(c), Waits(c)' <= Waits(c), Waits(c)' \in Int,
         batch'[c].running = batch[c].running, batch'[c].outstanding = batch[c].outstanding,
         batch'[c].next = batch[c].next, batch'[c].consumed = batch[c].consumed,
         RunBy(c)' = RunBy(c)
  PROVE  BookOK(c)'
<1>1. batch[c].running \in Int /\ batch[c].outstanding \in Int /\ Waits(c) \in Nat
  BY Numbers
<1> QED  BY <1>1 DEF BookOK

\* A cancelled batch forgets its retries.
LEMMA BookCancelled ==
  ASSUME Types, NEW c \in Calls, BookOK(c), batch'[c] = Cancelled(batch[c]),
         timers' = timers, events' = events, InHand(c)' = InHand(c), RunBy(c)' = RunBy(c)
  PROVE  BookOK(c)'
<1>1. PICK r \in Nat, t \in Nat, e \in Nat, h \in Nat :
        /\ r = Len(batch[c].retry) /\ t = Cardinality(timers[c])
        /\ e = Len(events[c]) /\ h = InHand(c) /\ Waits(c) = r + t + e + h
  BY WaitsParts
<1>2. /\ batch'[c].consumed = batch[c].consumed /\ batch'[c].outstanding = batch[c].outstanding
      /\ batch'[c].running = batch[c].running /\ batch'[c].next = batch[c].next
      /\ batch'[c].retry = <<>>
  BY Numbers, CancelledFacts
<1>3. Len(batch'[c].retry) = 0
  BY <1>2
<1>4. Waits(c)' = 0 + t + e + h
  BY <1>1, <1>3 DEF Waits
<1>5. 0 + t + e + h <= r + t + e + h /\ 0 + t + e + h \in Int
  OBVIOUS
<1>6. Waits(c)' <= Waits(c) /\ Waits(c)' \in Int
  BY <1>1, <1>4, <1>5
<1> QED  BY <1>2, <1>6, BookShrinks

LEMMA NothingRuns ==
  ASSUME Types, NEW c \in Calls, BookOK(c), batch[c].running = 0
  PROVE  RunBy(c) = {}
BY RunByFinite, FS_EmptySet DEF BookOK

LEMMA CancelOK ==
  ASSUME IInv, NEW c \in Calls, Cancel(c)
  PROVE  IInv'
<1>0. Types /\ QueueOK /\ WorkersOK /\ BookOK(c) /\ CallOK(c)
  BY DEF IInv
<1>1. /\ callState[c] = "cancel" /\ callState' = [callState EXCEPT ![c] = "ended"]
      /\ UNCHANGED <<timers, events, holding, delivered, job, workerState, sleeping,
                     closer, closing>>
  BY DEF Cancel, EndAs, Goto, workerVars, closeVars
<1>2. /\ callState' \in [Calls -> {"new", "wait", "consume", "callback", "cancel", "ended"}]
      /\ callState'[c] = "ended" /\ \A d \in Calls : d # c => callState'[d] = callState[d]
  BY <1>0, <1>1 DEF Types
<1>3. \A d \in Calls : RunBy(d)' = RunBy(d) /\ InHand(d)' = InHand(d)
  BY <1>1 DEF RunBy, InHand
<1>4. CASE c \in batches /\ ~LoopGone
  <2> DEFINE b == Cancelled(batch[c])
  <2>1. /\ batch' = [batch EXCEPT ![c] = b]
        /\ IF Finished(batch[c])
           THEN RemoveBatches({c})
           ELSE readyIds' = readyIds \ {c} /\ UNCHANGED <<batches, ready>>
    BY <1>4 DEF Cancel
  <2>2. b \in BatchType /\ b.consumed = batch[c].consumed /\ b.cancelled
    BY <1>0, Numbers, CancelledFacts
  <2> HIDE DEF b
  <2>3. /\ batch' \in [Calls -> BatchType] /\ batch'[c] = b
        /\ \A d \in Calls : d # c => batch'[d] = batch[d]
    BY <1>0, <2>1, <2>2, OneBatch
  <2>4. ASSUME NEW d \in Calls  PROVE BookOK(d)'
    <3>1. CASE d # c
      BY <1>1, <1>3, <2>3, <3>1, BookSame DEF IInv
    <3>2. CASE d = c
      BY <1>0, <1>1, <1>3, <2>3, <3>2, BookCancelled DEF b
    <3> QED  BY <3>1, <3>2
  <2>5. /\ QueueOK' /\ ready' \in Seq(Calls) /\ readyIds' \in SUBSET Calls
        /\ batches' \subseteq batches /\ (batch[c].running = 0 => c \notin batches')
        /\ batches \ {c} \subseteq batches' /\ (batch[c].running # 0 => batches' = batches)
    <3>1. CASE Finished(batch[c])
      <4>1. \A d \in batches \ {c} : batch'[d] = batch[d]
        BY <1>0, <2>3 DEF Types
      <4>2. RemoveBatches({c}) /\ UNCHANGED <<sleeping, closing>> /\ batch[c].running = 0
        BY <1>1, <2>1, <3>1 DEF Finished
      <4> QED  BY <1>0, <4>1, <4>2, RemoveOK
    <3>2. CASE ~Finished(batch[c])
      <4>1. /\ readyIds' = readyIds \ {c} /\ batches' = batches /\ ready' = ready
            /\ batch[c].running # 0
        BY <2>1, <3>2 DEF Finished
      <4>2. readyIds' = readyIds \ ({} \union {c}) /\ batches' = batches \ {}
            /\ ToSet(ready') = ToSet(ready) \ {} /\ IsInjective(ready') /\ ready' \in Seq(Calls)
        BY <1>0, <4>1 DEF Types, QueueOK
      <4>3. \A d \in batches \ {} : batch[d].cancelled \/ d \in {c} => batch'[d].cancelled
        BY <1>0, <2>2, <2>3 DEF Types
      <4>4. \A d \in batches \ {} : CanDispatch(d, batch'[d]) => CanDispatch(d, batch[d])
        BY <1>0, <2>2, <2>3 DEF Types, CanDispatch
      <4>5. QueueOK /\ UNCHANGED <<sleeping, closing>>
        BY <1>0, <1>1
      <4>6. QueueOK'
        BY <4>2, <4>3, <4>4, <4>5, ShrinkOK
      <4> QED  BY <1>0, <4>1, <4>6 DEF Types
    <3> QED  BY <3>1, <3>2
  <2>6. Types'
    BY <1>0, <1>1, <1>2, <2>3, <2>5 DEF Types
  <2>7. WorkersOK'
    <3>1. batch[c].running = 0 => RunBy(c) = {}
      BY <1>0, NothingRuns
    <3> QED  BY <1>0, <1>1, <2>5, <3>1 DEF WorkersOK, RunBy
  <2>8. ASSUME NEW d \in Calls  PROVE CallOK(d)'
    <3>1. CASE d # c
      BY <1>1, <1>2, <2>3, <2>5, <3>1 DEF IInv, CallOK
    <3>2. CASE d = c
      BY <1>0, <1>1, <1>2, <2>2, <2>3, <2>5, <3>2 DEF CallOK
    <3> QED  BY <3>1, <3>2
  <2> QED  BY <2>4, <2>5, <2>6, <2>7, <2>8 DEF IInv
<1>5. CASE ~(c \in batches /\ ~LoopGone)
  <2>1. UNCHANGED <<batch, batches, ready, readyIds>>
    BY <1>5 DEF Cancel, queueVars
  <2>2. Types' /\ QueueOK' /\ WorkersOK'
    BY <1>0, <1>1, <1>2, <2>1 DEF Types, QueueOK, WorkersOK
  <2>3. ASSUME NEW d \in Calls  PROVE BookOK(d)' /\ CallOK(d)'
    <3>1. BookOK(d)'
      BY <1>1, <1>3, <2>1, BookSame DEF IInv
    <3>2. CallOK(d)'
      BY <1>1, <1>2, <1>5, <2>1 DEF IInv, CallOK, LoopGone
    <3> QED  BY <3>1, <3>2
  <2> QED  BY <2>2, <2>3 DEF IInv
<1> QED  BY <1>4, <1>5

-----------------------------------------------------------------------------
(* The workers, and the timers.                                            *)

\* A retry that is dispatched leaves its queue; a new item takes a slot.
LEMMA DispatchedFacts ==
  ASSUME NEW b \in BatchType, ~b.cancelled
  PROVE  LET n == Dispatched(b) IN
         /\ n \in BatchType /\ Dispatchee(b) \in Nat /\ ~n.cancelled
         /\ n.consumed = b.consumed /\ n.running = b.running + 1
         /\ b.retry # <<>> => /\ Len(n.retry) = Len(b.retry) - 1
                              /\ n.next = b.next /\ n.outstanding = b.outstanding
         /\ b.retry = <<>> => /\ n.retry = b.retry
                              /\ n.next = b.next + 1 /\ n.outstanding = b.outstanding + 1
<1>1. b.retry \in Seq(Nat) /\ b.next \in Nat /\ b.running + 1 \in Int /\ b.outstanding + 1 \in Int
      /\ b.next + 1 \in Nat
  BY DEF BatchType
<1>2. CASE b.retry # <<>>
  <2>1. Head(b.retry) \in Nat /\ Tail(b.retry) \in Seq(Nat) /\ Len(Tail(b.retry)) = Len(b.retry) - 1
    BY <1>1, <1>2
  <2> QED  BY <1>1, <1>2, <2>1 DEF Dispatched, Dispatchee, BatchType
<1>3. CASE b.retry = <<>>
  BY <1>1, <1>3 DEF Dispatched, Dispatchee, BatchType
<1> QED  BY <1>2, <1>3

\* A worker takes an item of c, or gives one back.
LEMMA JobTaken ==
  ASSUME Types, NEW w \in Workers, NEW c, NEW i, job[w] = <<>>,
         job' = [job EXCEPT ![w] = <<c, i>>]
  PROVE  /\ Cardinality(RunBy(c)') = Cardinality(RunBy(c)) + 1
         /\ \A d \in Calls : d # c => RunBy(d)' = RunBy(d)
<1>1. /\ job'[w] = <<c, i>> /\ job'[w] # <<>> /\ job'[w][1] = c
      /\ \A v \in Workers : v # w => job'[v] = job[v]
  BY DEF Types
<1>2. RunBy(c)' = RunBy(c) \union {w} /\ w \notin RunBy(c)
  BY <1>1 DEF RunBy
<1>3. \A d \in Calls : d # c => RunBy(d)' = RunBy(d)
  BY <1>1 DEF RunBy
<1> QED  BY <1>2, <1>3, RunByFinite, FS_AddElement

LEMMA JobGiven ==
  ASSUME Types, NEW w \in Workers, NEW c, job[w] # <<>>, job[w][1] = c,
         job' = [job EXCEPT ![w] = <<>>]
  PROVE  /\ Cardinality(RunBy(c)') = Cardinality(RunBy(c)) - 1
         /\ \A d \in Calls : d # c => RunBy(d)' = RunBy(d)
<1>1. job'[w] = <<>> /\ \A v \in Workers : v # w => job'[v] = job[v]
  BY DEF Types
<1>2. RunBy(c)' = RunBy(c) \ {w} /\ w \in RunBy(c)
  BY <1>1 DEF RunBy
<1>3. \A d \in Calls : d # c => RunBy(d)' = RunBy(d)
  BY <1>1 DEF RunBy
<1> QED  BY <1>2, <1>3, RunByFinite, FS_RemoveElement, SMTT(20)

LEMMA TakeOK ==
  ASSUME IInv, NEW w \in Workers, Take(w)
  PROVE  IInv'
<1>0. Types /\ QueueOK /\ WorkersOK
  BY DEF IInv
<1>1. /\ workerState[w] = "take" /\ workerState' = [workerState EXCEPT ![w] = "download"]
      /\ UNCHANGED <<batches, timers, events, callState, holding, delivered, closer, closing>>
  BY DEF Take, callVars, closeVars
<1>2. PICK k \in 1..Len(ready) :
        /\ Live(ready[k]) /\ \A i \in 1..(k - 1) : ~Live(ready[i])
        /\ LET c == ready[k]
               b == Dispatched(batch[c])
           IN  /\ batch' = [batch EXCEPT ![c] = b]
               /\ MakeReady(c, b, SubSeq(ready, k + 1, Len(ready)),
                            readyIds \ {ready[i] : i \in 1..k})
               /\ job' = [job EXCEPT ![w] = <<c, Dispatchee(batch[c])>>]
  BY DEF Take
<1>a. PICK c \in Calls : c = ready[k]
  BY <1>0 DEF Types
<1> DEFINE b == Dispatched(batch[c])
           q == SubSeq(ready, k + 1, Len(ready))
           Gone == {ready[i] : i \in 1..k}
           ids == readyIds \ Gone
<1>3. /\ batch' = [batch EXCEPT ![c] = b] /\ MakeReady(c, b, q, ids)
      /\ job' = [job EXCEPT ![w] = <<c, Dispatchee(batch[c])>>]
  BY <1>2, <1>a
<1>4. /\ c \in batches /\ CanDispatch(c, batch[c]) /\ ~batch[c].cancelled
      /\ c \in Gone /\ c \in readyIds
  <2>1. c \in batches /\ CanDispatch(c, batch[c])
    BY <1>2, <1>a DEF Live
  <2>2. k \in 1..k
    OBVIOUS
  <2> QED  BY <1>0, <1>a, <2>1, <2>2 DEF CanDispatch, QueueOK
<1>5. /\ q \in Seq(Calls) /\ IsInjective(q) /\ ToSet(q) = ToSet(ready) \ Gone
  <2>1. ready \in Seq(Calls) /\ IsInjective(ready)
    BY <1>0 DEF Types, QueueOK
  <2> QED  BY <2>1, SuffixFacts
<1>6. \A d \in Gone : d # c => ~Live(d)
  <2> SUFFICES ASSUME NEW i \in 1..k, ready[i] # c  PROVE ~Live(ready[i])
    OBVIOUS
  <2>1. i # k /\ i \in Int /\ k \in Int
    BY <1>a
  <2>2. i \in 1..(k - 1)
    BY <2>1
  <2> QED  BY <1>2, <2>2
<1> HIDE DEF q, Gone
<1>7. /\ b \in BatchType /\ Dispatchee(batch[c]) \in Nat /\ ~b.cancelled
      /\ b.consumed = batch[c].consumed /\ b.running = batch[c].running + 1
      /\ batch[c].retry # <<>> => /\ Len(b.retry) = Len(batch[c].retry) - 1
                                  /\ b.next = batch[c].next
                                  /\ b.outstanding = batch[c].outstanding
      /\ batch[c].retry = <<>> => /\ b.retry = batch[c].retry /\ b.next = batch[c].next + 1
                                  /\ b.outstanding = batch[c].outstanding + 1
  BY <1>0, <1>4, Numbers, DispatchedFacts
<1> HIDE DEF b
<1>8. /\ batch' \in [Calls -> BatchType] /\ batch'[c] = b
      /\ \A d \in Calls : d # c => batch'[d] = batch[d]
  BY <1>0, <1>3, <1>4, <1>7, OneBatch
<1>9. job[w] = <<>> /\ closer # "closed"
  BY <1>0, <1>1 DEF WorkersOK
<1>10. /\ Cardinality(RunBy(c)') = Cardinality(RunBy(c)) + 1
       /\ \A d \in Calls : d # c => RunBy(d)' = RunBy(d)
  BY <1>0, <1>3, <1>9, JobTaken
<1>11. QueueOK' /\ ready' \in Seq(Calls) /\ readyIds' \in SUBSET Calls /\ sleeping' \subseteq sleeping
  <2>1. ids \subseteq ToSet(q) /\ ToSet(q) \subseteq batches' /\ c \in batches' /\ ids \in SUBSET Calls
    BY <1>0, <1>1, <1>4, <1>5 DEF QueueOK, Types
  <2>2. \A d \in ToSet(q) \ ids : d # c /\ d \in Calls /\ batch[d].cancelled
    BY <1>0, <1>4, <1>5 DEF QueueOK, Types
  <2>3. \A d \in ToSet(q) \ ids : batch'[d].cancelled
    BY <1>8, <2>2
  <2>4. \A d \in batches' : d # c /\ CanDispatch(d, batch'[d]) => d \in ids
    <3> SUFFICES ASSUME NEW d \in batches, d # c, CanDispatch(d, batch'[d])  PROVE d \in ids
      BY <1>1
    <3>1. Live(d) /\ d \in readyIds
      BY <1>0, <1>8 DEF QueueOK, Types, Live
    <3> QED  BY <1>6, <3>1
  <2>5. ids # {} \/ closing' => sleeping = {}
    BY <1>0, <1>4 DEF QueueOK
  <2> HIDE DEF ids
  <2> QED  BY <1>3, <1>4, <1>5, <1>8, <2>1, <2>3, <2>4, <2>5, MakeReadyOK
<1>12. Types'
  <2>1. job' \in [Workers -> (Calls \X Nat) \union {<<>>}]
    BY <1>0, <1>3, <1>4, <1>7 DEF Types
  <2> QED  BY <1>0, <1>1, <1>8, <1>11, <2>1 DEF Types
<1>13. WorkersOK'
  BY <1>0, <1>1, <1>3, <1>4, <1>9 DEF WorkersOK, Types
<1>14. ASSUME NEW d \in Calls  PROVE BookOK(d)'
  <2>1. CASE d # c
    BY <1>1, <1>8, <1>10, <2>1, BookSame DEF IInv
  <2>2. CASE d = c
    <3>1. PICK r \in Nat, t \in Nat, e \in Nat, h \in Nat :
            /\ r = Len(batch[c].retry) /\ t = Cardinality(timers[c])
            /\ e = Len(events[c]) /\ h = InHand(c) /\ Waits(c) = r + t + e + h
      BY <1>0, <1>4, WaitsParts
    <3>2. timers' = timers /\ events' = events /\ InHand(c)' = InHand(c) /\ batch'[c] = b
      BY <1>1, <1>8 DEF InHand
    <3>3. /\ BookOK(c) /\ batch[c].running \in Int /\ batch[c].outstanding \in Int
          /\ batch[c].next \in Nat /\ batch[c].consumed \in Nat /\ Size[c] \in Nat
          /\ Cardinality(RunBy(c)) \in Nat
      BY <1>0, <1>4, Numbers, RunByFinite DEF IInv
    <3>4. PICK R \in Int, W \in Int, O \in Int, N \in Int, C \in Int :
            /\ R = batch[c].running /\ W = Waits(c) /\ O = batch[c].outstanding
            /\ N = batch[c].next /\ C = batch[c].consumed
            /\ R + W <= O /\ N = C + O /\ N <= Size[c] /\ R = Cardinality(RunBy(c))
      BY <1>0, <3>3, BookNumbers
    <3>5. b.running = Cardinality(RunBy(c)') /\ b.running = R + 1 /\ b.consumed = C
      BY <1>7, <1>10, <3>4
    <3>6. CASE batch[c].retry # <<>>
      <4>1. Waits(c)' = (r - 1) + t + e + h
        BY <1>7, <3>1, <3>2, <3>6 DEF Waits
      <4>2. (r - 1) + t + e + h = (r + t + e + h) - 1
        OBVIOUS
      <4>3. Waits(c)' = W - 1
        BY <3>1, <3>4, <4>1, <4>2
      <4>4. (R + 1) + (W - 1) = R + W
        OBVIOUS
      <4>5. b.outstanding = O /\ b.next = N /\ (R + 1) + (W - 1) <= O
        BY <1>7, <3>4, <3>6, <4>4
      <4> QED  BY <2>2, <3>2, <3>4, <3>5, <4>3, <4>5 DEF BookOK
    <3>7. CASE batch[c].retry = <<>>
      <4>1. Waits(c)' = W
        BY <1>7, <3>2, <3>4, <3>7 DEF Waits
      <4>2. batch[c].next < Size[c]
        BY <1>4, <3>7 DEF CanDispatch
      <4>3. /\ b.outstanding = O + 1 /\ b.next = N + 1 /\ (R + 1) + W <= O + 1
            /\ N + 1 = C + (O + 1) /\ N + 1 <= Size[c]
        <5>1. N + 1 <= Size[c]
          <6>1. PICK n \in Int, m \in Int : n = N /\ m = Size[c] /\ n < m
            BY <3>3, <3>4, <4>2, SMTT(20)
          <6>2. n + 1 <= m
            BY <6>1
          <6> QED  BY <6>1, <6>2
        <5>2. (R + 1) + W = (R + W) + 1 /\ C + (O + 1) = (C + O) + 1
          OBVIOUS
        <5>3. (R + W) + 1 <= O + 1
          BY <3>4
        <5>4. b.outstanding = O + 1 /\ b.next = N + 1
          BY <1>7, <3>4, <3>7
        <5> QED  BY <3>4, <5>1, <5>2, <5>3, <5>4
      <4> QED  BY <2>2, <3>2, <3>4, <3>5, <4>1, <4>3 DEF BookOK
    <3> QED  BY <3>6, <3>7
  <2> QED  BY <2>1, <2>2
<1>15. ASSUME NEW d \in Calls  PROVE CallOK(d)'
  <2>1. CASE d # c
    BY <1>1, <1>8, <2>1 DEF IInv, CallOK
  <2>2. CASE d = c
    BY <1>1, <1>4, <1>7, <1>8, <1>9, <2>2 DEF IInv, CallOK
  <2> QED  BY <2>1, <2>2
<1> QED  BY <1>11, <1>12, <1>13, <1>14, <1>15 DEF IInv

LEMMA IdleOK ==
  ASSUME IInv, NEW w \in Workers, Idle(w)
  PROVE  IInv'
<1>0. Types /\ QueueOK /\ WorkersOK
  BY DEF IInv
<1>1. /\ workerState[w] = "take" /\ ready' = <<>> /\ readyIds' = readyIds \ ToSet(ready)
      /\ IF closing
         THEN workerState' = [workerState EXCEPT ![w] = "exited"] /\ UNCHANGED sleeping
         ELSE sleeping' = sleeping \union {w} /\ UNCHANGED workerState
      /\ UNCHANGED <<batch, batches, timers, events, callState, holding, delivered, job,
                     closer, closing>>
  BY DEF Idle, callVars, closeVars
<1>2. \A c \in batches : ~CanDispatch(c, batch[c])
  <2> SUFFICES ASSUME NEW c \in batches, CanDispatch(c, batch[c])  PROVE FALSE
    OBVIOUS
  <2>1. c \in ToSet(ready)
    BY <1>0 DEF QueueOK
  <2>2. ready \in Seq(Calls) /\ DOMAIN ready = 1..Len(ready)
    BY <1>0 DEF Types
  <2>3. PICK k \in 1..Len(ready) : ready[k] = c
    BY <2>1, <2>2 DEF ToSet
  <2> QED  BY <2>3 DEF Idle, Live
<1>3. readyIds' = {} /\ ready' \in Seq(Calls) /\ IsInjective(ready') /\ ToSet(ready') = {}
  BY <1>0, <1>1 DEF QueueOK, IsInjective, ToSet
<1>4. QueueOK'
  BY <1>0, <1>1, <1>2, <1>3 DEF QueueOK
<1>5. Types'
  BY <1>0, <1>1, <1>3 DEF Types
<1>6. WorkersOK'
  BY <1>0, <1>1 DEF WorkersOK, Types
<1>7. ASSUME NEW d \in Calls  PROVE BookOK(d)'
  BY <1>1, BookSame DEF IInv, RunBy
<1>8. ASSUME NEW d \in Calls  PROVE CallOK(d)'
  BY <1>1 DEF IInv, CallOK
<1> QED  BY <1>4, <1>5, <1>6, <1>7, <1>8 DEF IInv

\* A download is over, and its item waits elsewhere or is dropped.
LEMMA BookFinished ==
  ASSUME Types, NEW c \in Calls, BookOK(c), NEW up \in {0, 1},
         batch'[c].running = batch[c].running - 1,
         Cardinality(RunBy(c)') = Cardinality(RunBy(c)) - 1,
         Waits(c)' \in Int, Waits(c)' <= Waits(c) + up,
         batch'[c].outstanding = batch[c].outstanding, batch'[c].next = batch[c].next,
         batch'[c].consumed = batch[c].consumed
  PROVE  BookOK(c)'
<1>1. PICK R \in Int, W \in Int, O \in Int, N \in Int, C \in Int :
        /\ R = batch[c].running /\ W = Waits(c) /\ O = batch[c].outstanding
        /\ N = batch[c].next /\ C = batch[c].consumed
        /\ R + W <= O /\ N = C + O /\ N <= Size[c] /\ R = Cardinality(RunBy(c))
  BY BookNumbers
<1>2. PICK V \in Int : V = Waits(c)' /\ V <= W + up
  BY <1>1
<1>3. (R - 1) + V <= O
  BY <1>1, <1>2
<1> QED  BY <1>1, <1>2, <1>3 DEF BookOK

LEMMA RunningLess ==
  ASSUME NEW b \in BatchType
  PROVE  LET n == [b EXCEPT !.running = @ - 1] IN
         /\ n \in BatchType /\ n.consumed = b.consumed /\ n.outstanding = b.outstanding
         /\ n.running = b.running - 1 /\ n.next = b.next /\ n.retry = b.retry
         /\ n.cancelled = b.cancelled
<1>1. b.running - 1 \in Int
  BY DEF BatchType
<1> QED  BY <1>1 DEF BatchType

\* The last download of a cancelled batch takes the batch with it.
LEMMA FinishCancelledOK ==
  ASSUME IInv, NEW w \in Workers, NEW c \in Calls, NEW b, job[w] # <<>>, job[w][1] = c,
         c \in batches, b = [batch[c] EXCEPT !.running = @ - 1], b.cancelled,
         batch' = [batch EXCEPT ![c] = b],
         IF Finished(b) THEN RemoveBatches({c}) ELSE UNCHANGED queueVars,
         job' = [job EXCEPT ![w] = <<>>], workerState' = [workerState EXCEPT ![w] = "take"],
         closer # "closed",
         UNCHANGED <<timers, events, callState, holding, delivered, sleeping, closer, closing>>
  PROVE  IInv'
<1>0. Types /\ QueueOK /\ WorkersOK
  BY DEF IInv
<1>1. /\ b \in BatchType /\ b.consumed = batch[c].consumed /\ b.outstanding = batch[c].outstanding
      /\ b.running = batch[c].running - 1 /\ b.next = batch[c].next /\ b.retry = batch[c].retry
      /\ b.cancelled = batch[c].cancelled
  BY <1>0, Numbers, RunningLess
<1>2. /\ batch' \in [Calls -> BatchType] /\ batch'[c] = b
      /\ \A d \in Calls : d # c => batch'[d] = batch[d]
  BY <1>0, <1>1, OneBatch
<1>3. /\ Cardinality(RunBy(c)') = Cardinality(RunBy(c)) - 1
      /\ \A d \in Calls : d # c => RunBy(d)' = RunBy(d)
  BY <1>0, JobGiven
<1>4. ASSUME NEW d \in Calls  PROVE BookOK(d)'
  <2>1. CASE d # c
    BY <1>2, <1>3, <2>1, BookSame DEF IInv
  <2>2. CASE d = c
    <3>1. InHand(c)' = InHand(c) /\ batch'[c].retry = batch[c].retry
      BY <1>1, <1>2 DEF InHand
    <3>2. Waits(c)' = Waits(c)
      BY <3>1 DEF Waits
    <3>3. Waits(c)' \in Int /\ Waits(c)' <= Waits(c) + 0 /\ BookOK(c)
      BY <1>0, <3>2, Numbers DEF IInv
    <3> QED  BY <1>0, <1>1, <1>2, <1>3, <2>2, <3>3, BookFinished
  <2> QED  BY <2>1, <2>2
<1>5. CASE Finished(b)
  <2>1. b.running = 0 /\ RemoveBatches({c})
    BY <1>5 DEF Finished
  <2>2. \A d \in batches \ {c} : batch'[d] = batch[d]
    BY <1>0, <1>2 DEF Types
  <2>3. /\ QueueOK' /\ ready' \in Seq(Calls) /\ readyIds' \in SUBSET Calls
        /\ batches' = batches \ {c}
    BY <1>0, <2>1, <2>2, RemoveOK
  <2>4. Types'
    BY <1>0, <1>2, <2>3 DEF Types
  <2>5. RunBy(c)' = {}
    <3>1. Cardinality(RunBy(c)) = 1
      BY <1>0, <1>1, <2>1, Numbers DEF IInv, BookOK
    <3>2. Cardinality(RunBy(c)') = 0
      BY <1>3, <3>1
    <3>3. RunBy(c)' \subseteq Workers
      BY DEF RunBy
    <3>4. IsFiniteSet(RunBy(c)')
      BY <3>3, WorkersFinite, FS_Subset
    <3> QED  BY <3>2, <3>4, FS_EmptySet
  <2>6. WorkersOK'
    BY <1>0, <2>3, <2>5 DEF WorkersOK, RunBy, Types
  <2>7. ASSUME NEW d \in Calls  PROVE CallOK(d)'
    BY <1>1, <1>2, <2>3 DEF IInv, CallOK
  <2> QED  BY <1>4, <2>3, <2>4, <2>6, <2>7 DEF IInv
<1>6. CASE ~Finished(b)
  <2>1. UNCHANGED <<batches, ready, readyIds>>
    BY <1>6 DEF queueVars
  <2>2. \A d \in Calls : /\ CanDispatch(d, batch'[d]) => CanDispatch(d, batch[d])
                         /\ batch[d].cancelled => batch'[d].cancelled
    BY <1>1, <1>2 DEF CanDispatch
  <2>3. QueueOK'
    BY <1>0, <2>1, <2>2 DEF QueueOK, Types
  <2>4. Types'
    BY <1>0, <1>2, <2>1 DEF Types
  <2>5. WorkersOK'
    BY <1>0, <2>1 DEF WorkersOK, Types
  <2>6. ASSUME NEW d \in Calls  PROVE CallOK(d)'
    BY <1>1, <1>2, <2>1 DEF IInv, CallOK
  <2> QED  BY <1>4, <2>3, <2>4, <2>5, <2>6 DEF IInv
<1> QED  BY <1>5, <1>6

\* The item of a live batch waits for its retry, or its result in the queue.
LEMMA FinishLiveOK ==
  ASSUME IInv, NEW w \in Workers, NEW c \in Calls, NEW i \in Nat, NEW b \in BatchType,
         job[w] # <<>>, job[w][1] = c,
         b.running = batch[c].running - 1, b.outstanding = batch[c].outstanding,
         b.next = batch[c].next, b.consumed = batch[c].consumed, b.retry = batch[c].retry,
         b.cancelled = batch[c].cancelled, batch' = [batch EXCEPT ![c] = b],
         \/ timers' = [timers EXCEPT ![c] = @ \union {i}] /\ UNCHANGED events
         \/ events' = [events EXCEPT ![c] = Append(@, i)] /\ UNCHANGED timers,
         job' = [job EXCEPT ![w] = <<>>], workerState' = [workerState EXCEPT ![w] = "take"],
         closer # "closed",
         UNCHANGED <<queueVars, callState, holding, delivered, sleeping, closer, closing>>
  PROVE  IInv'
<1>0. /\ Types /\ QueueOK /\ WorkersOK /\ BookOK(c)
      /\ UNCHANGED <<batches, ready, readyIds>>
  BY DEF IInv, queueVars
<1>1. /\ batch' \in [Calls -> BatchType] /\ batch'[c] = b
      /\ \A d \in Calls : d # c => batch'[d] = batch[d]
  BY <1>0, OneBatch
<1>2. /\ Cardinality(RunBy(c)') = Cardinality(RunBy(c)) - 1
      /\ \A d \in Calls : d # c => RunBy(d)' = RunBy(d)
  <2>1. /\ job' = [job EXCEPT ![w] = <<>>] /\ job[w] # <<>> /\ job[w][1] = c
        /\ Types /\ w \in Workers
    BY <1>0
  <2> QED  BY <2>1, JobGiven, ZenonT(30)
<1>3. /\ timers' \in [Calls -> SUBSET Nat] /\ events' \in [Calls -> Seq(Nat)]
      /\ \A d \in Calls : d # c => timers'[d] = timers[d] /\ events'[d] = events[d]
      /\ \/ timers'[c] = timers[c] \union {i} /\ events'[c] = events[c]
         \/ events'[c] = Append(events[c], i) /\ timers'[c] = timers[c]
  <2>1. CASE timers' = [timers EXCEPT ![c] = @ \union {i}] /\ UNCHANGED events
    BY <1>0, <2>1 DEF Types
  <2>2. CASE events' = [events EXCEPT ![c] = Append(@, i)] /\ UNCHANGED timers
    <3>1. Append(events[c], i) \in Seq(Nat)
      BY <1>0 DEF Types
    <3> QED  BY <1>0, <2>2, <3>1 DEF Types
  <2> QED  BY <2>1, <2>2
<1>4. /\ IsFiniteSet(timers'[c]) /\ Cardinality(timers'[c]) \in Nat /\ Len(events'[c]) \in Nat
      /\ \/ /\ Len(events'[c]) = Len(events[c])
            /\ Cardinality(timers'[c]) <= Cardinality(timers[c]) + 1
         \/ /\ Len(events'[c]) = Len(events[c]) + 1
            /\ Cardinality(timers'[c]) = Cardinality(timers[c])
  <2>1. IsFiniteSet(timers[c]) /\ Cardinality(timers[c]) \in Nat /\ Len(events[c]) \in Nat
    BY <1>0, Numbers
  <2>2. CASE timers'[c] = timers[c] \union {i} /\ events'[c] = events[c]
    <3>1. \/ i \in timers[c] /\ Cardinality(timers'[c]) = Cardinality(timers[c])
          \/ i \notin timers[c] /\ Cardinality(timers'[c]) = Cardinality(timers[c]) + 1
      <4>1. i \in timers[c] => timers'[c] = timers[c]
        BY <2>2
      <4> QED  BY <2>1, <2>2, <4>1, FS_AddElement, ZenonT(30)
    <3>2. IsFiniteSet(timers'[c])
      <4>1. IsFiniteSet(timers[c] \union {i})
        BY <2>1, FS_AddElement, ZenonT(30)
      <4> QED  BY <2>2, <4>1
    <3> QED  BY <2>1, <2>2, <3>1, <3>2
  <2>3. CASE events'[c] = Append(events[c], i) /\ timers'[c] = timers[c]
    <3>1. events[c] \in Seq(Nat)
      BY <1>0 DEF Types
    <3>2. Len(events'[c]) = Len(events[c]) + 1
      BY <2>3, <3>1
    <3> QED  BY <2>1, <2>3, <3>2
  <2> QED  BY <1>3, <2>2, <2>3
<1>5. ASSUME NEW d \in Calls  PROVE BookOK(d)'
  <2>1. CASE d # c
    BY <1>1, <1>2, <1>3, <2>1, BookSame DEF IInv
  <2>2. CASE d = c
    <3>1. PICK r \in Nat, t \in Nat, e \in Nat, h \in Nat :
            /\ r = Len(batch[c].retry) /\ t = Cardinality(timers[c])
            /\ e = Len(events[c]) /\ h = InHand(c) /\ Waits(c) = r + t + e + h
      BY <1>0, WaitsParts
    <3>2. PICK u \in Nat, f \in Nat :
            /\ u = Cardinality(timers'[c]) /\ f = Len(events'[c])
            /\ (f = e /\ u <= t + 1) \/ (f = e + 1 /\ u = t)
      BY <1>4, <3>1
    <3>3. InHand(c)' = h /\ Len(batch'[c].retry) = r
      BY <1>1, <3>1 DEF InHand
    <3>4. Waits(c)' = r + u + f + h
      BY <3>2, <3>3 DEF Waits
    <3>5. r + u + f + h <= (r + t + e + h) + 1 /\ r + u + f + h \in Int
      BY <3>2
    <3>6. Waits(c)' \in Int /\ Waits(c)' <= Waits(c) + 1
      BY <3>1, <3>4, <3>5
    <3> QED  BY <1>0, <1>1, <1>2, <2>2, <3>6, BookFinished
  <2> QED  BY <2>1, <2>2
<1>6. Types'
  BY <1>0, <1>1, <1>3, <1>4 DEF Types
<1>7. QueueOK'
  <2>1. \A d \in Calls : /\ CanDispatch(d, batch'[d]) => CanDispatch(d, batch[d])
                         /\ batch[d].cancelled => batch'[d].cancelled
    BY <1>1 DEF CanDispatch
  <2> QED  BY <1>0, <2>1 DEF QueueOK, Types
<1>8. WorkersOK'
  BY <1>0 DEF WorkersOK, Types
<1>9. ASSUME NEW d \in Calls  PROVE CallOK(d)'
  BY <1>0, <1>1 DEF IInv, CallOK
<1> QED  BY <1>5, <1>6, <1>7, <1>8, <1>9 DEF IInv

LEMMA FinishOK ==
  ASSUME IInv, NEW w \in Workers, NEW retryable, Finish(w, retryable)
  PROVE  IInv'
<1>0. Types /\ QueueOK /\ WorkersOK
  BY DEF IInv
<1>1. /\ workerState[w] = "download" /\ job' = [job EXCEPT ![w] = <<>>]
      /\ workerState' = [workerState EXCEPT ![w] = "take"]
      /\ UNCHANGED <<callState, holding, delivered, sleeping, closer, closing>>
  BY DEF Finish, callVars, closeVars
<1>2. job[w] # <<>> /\ job[w] \in Calls \X Nat /\ job[w][1] \in batches /\ closer # "closed"
  BY <1>0, <1>1 DEF WorkersOK, Types
<1>3. PICK c \in Calls, i \in Nat : c = job[w][1] /\ i = job[w][2] /\ c \in batches
  BY <1>2
<1>4. PICK b : b = [batch[c] EXCEPT !.running = @ - 1]
  OBVIOUS
<1>5. /\ b \in BatchType /\ b.consumed = batch[c].consumed /\ b.outstanding = batch[c].outstanding
      /\ b.running = batch[c].running - 1 /\ b.next = batch[c].next /\ b.retry = batch[c].retry
      /\ b.cancelled = batch[c].cancelled
  BY <1>0, <1>4, Numbers, RunningLess
<1>6. \/ /\ b.cancelled /\ batch' = [batch EXCEPT ![c] = b]
         /\ IF Finished(b) THEN RemoveBatches({c}) ELSE UNCHANGED queueVars
         /\ UNCHANGED <<timers, events>>
      \/ /\ batch' = [batch EXCEPT ![c] = [b EXCEPT !.attempts[i] = @ + 1]]
         /\ timers' = [timers EXCEPT ![c] = @ \union {i}]
         /\ UNCHANGED <<queueVars, events>>
      \/ /\ batch' = [batch EXCEPT ![c] = [b EXCEPT !.pending = @ + 1]]
         /\ events' = [events EXCEPT ![c] = Append(@, i)]
         /\ UNCHANGED <<queueVars, timers>>
  BY <1>3, <1>4 DEF Finish
<1>7. CASE /\ b.cancelled /\ batch' = [batch EXCEPT ![c] = b]
           /\ IF Finished(b) THEN RemoveBatches({c}) ELSE UNCHANGED queueVars
           /\ UNCHANGED <<timers, events>>
  BY <1>1, <1>2, <1>3, <1>4, <1>7, FinishCancelledOK
<1>8. CASE /\ batch' = [batch EXCEPT ![c] = [b EXCEPT !.attempts[i] = @ + 1]]
           /\ timers' = [timers EXCEPT ![c] = @ \union {i}]
           /\ UNCHANGED <<queueVars, events>>
  <2>1. PICK n : n = [b EXCEPT !.attempts[i] = @ + 1]
    OBVIOUS
  <2>2. /\ n.consumed = b.consumed /\ n.outstanding = b.outstanding /\ n.running = b.running
        /\ n.next = b.next /\ n.retry = b.retry /\ n.cancelled = b.cancelled
    BY <1>5, <2>1 DEF BatchType
  <2>3. n \in BatchType
    <3>1. PICK d \in Calls : b.attempts \in [Items(d) -> Nat]
      BY <1>5 DEF BatchType
    <3>2. [b.attempts EXCEPT ![i] = @ + 1] \in [Items(d) -> Nat]
      <4>1. i \in Items(d) => b.attempts[i] + 1 \in Nat
        BY <3>1
      <4> HIDE DEF Items
      <4> QED  BY <3>1, <4>1
    <3> QED  BY <1>5, <2>1, <3>2 DEF BatchType
  <2> QED  BY <1>1, <1>2, <1>3, <1>5, <1>8, <2>1, <2>2, <2>3, FinishLiveOK, ZenonT(30)
<1>9. CASE /\ batch' = [batch EXCEPT ![c] = [b EXCEPT !.pending = @ + 1]]
           /\ events' = [events EXCEPT ![c] = Append(@, i)]
           /\ UNCHANGED <<queueVars, timers>>
  <2>1. PICK n : n = [b EXCEPT !.pending = @ + 1]
    OBVIOUS
  <2>2. b.pending + 1 \in Int
    BY <1>5 DEF BatchType
  <2>3. /\ n.consumed = b.consumed /\ n.outstanding = b.outstanding /\ n.running = b.running
        /\ n.next = b.next /\ n.retry = b.retry /\ n.cancelled = b.cancelled /\ n \in BatchType
    BY <1>5, <2>1, <2>2 DEF BatchType
  <2> QED  BY <1>1, <1>2, <1>3, <1>5, <1>9, <2>1, <2>3, FinishLiveOK, ZenonT(30)
<1> QED  BY <1>6, <1>7, <1>8, <1>9

LEMMA RetryReadyOK ==
  ASSUME IInv, NEW c \in Calls, NEW i, RetryReady(c, i)
  PROVE  IInv'
<1>0. Types /\ QueueOK /\ WorkersOK /\ BookOK(c) /\ CallOK(c)
  BY DEF IInv
<1>1. /\ i \in timers[c] /\ timers' = [timers EXCEPT ![c] = @ \ {i}]
      /\ UNCHANGED <<batches, events, callState, holding, delivered, job, workerState,
                     closer, closing>>
  BY DEF RetryReady, callVars, closeVars
<1>2. /\ timers' \in [Calls -> SUBSET Nat] /\ timers'[c] = timers[c] \ {i} /\ i \in Nat
      /\ \A d \in Calls : d # c => timers'[d] = timers[d]
  BY <1>0, <1>1 DEF Types
<1>3. /\ IsFiniteSet(timers'[c]) /\ Cardinality(timers'[c]) = Cardinality(timers[c]) - 1
  BY <1>0, <1>1, <1>2, Numbers, FS_RemoveElement
<1>4. PICK r \in Nat, t \in Nat, e \in Nat, h \in Nat :
        /\ r = Len(batch[c].retry) /\ t = Cardinality(timers[c])
        /\ e = Len(events[c]) /\ h = InHand(c) /\ Waits(c) = r + t + e + h
  BY <1>0, WaitsParts
<1>5. InHand(c)' = h /\ Len(events'[c]) = e /\ Cardinality(timers'[c]) = t - 1
  BY <1>1, <1>3, <1>4 DEF InHand
<1>6. \A d \in Calls : RunBy(d)' = RunBy(d)
  BY <1>1 DEF RunBy
<1>7. CASE c \in batches /\ ~batch[c].cancelled
  <2>1. PICK b : b = [batch[c] EXCEPT !.retry = Append(@, i)]
    OBVIOUS
  <2>2. batch' = [batch EXCEPT ![c] = b] /\ MakeReady(c, b, ready, readyIds)
    BY <1>7, <2>1 DEF RetryReady
  <2>3. batch[c] \in BatchType /\ batch[c].retry \in Seq(Nat)
    BY <1>0, Numbers
  <2>4. /\ Append(batch[c].retry, i) \in Seq(Nat)
        /\ Len(Append(batch[c].retry, i)) = r + 1
    BY <1>2, <1>4, <2>3
  <2>5. /\ b \in BatchType /\ b.consumed = batch[c].consumed
        /\ b.outstanding = batch[c].outstanding /\ b.running = batch[c].running
        /\ b.next = batch[c].next /\ b.cancelled = batch[c].cancelled /\ Len(b.retry) = r + 1
    BY <2>1, <2>3, <2>4 DEF BatchType
  <2>6. /\ batch' \in [Calls -> BatchType] /\ batch'[c] = b
        /\ \A d \in Calls : d # c => batch'[d] = batch[d]
    BY <1>0, <2>2, <2>5, OneBatch
  <2>7. /\ QueueOK' /\ ready' \in Seq(Calls) /\ readyIds' \in SUBSET Calls
        /\ sleeping' \subseteq sleeping
    <3>1. /\ IsInjective(ready) /\ readyIds \subseteq ToSet(ready) /\ c \in batches'
          /\ ToSet(ready) \subseteq batches' /\ (readyIds # {} \/ closing' => sleeping = {})
      BY <1>0, <1>1, <1>7 DEF QueueOK
    <3>2. \A d \in batches : batch'[d].cancelled = batch[d].cancelled
      BY <1>0, <2>5, <2>6 DEF Types
    <3>3. \A d \in ToSet(ready) \ readyIds : batch'[d].cancelled
      BY <1>0, <3>2 DEF QueueOK
    <3>4. \A d \in batches' : d # c /\ CanDispatch(d, batch'[d]) => d \in readyIds
      BY <1>0, <1>1, <2>6 DEF QueueOK, Types
    <3>5. ready \in Seq(Calls) /\ readyIds \in SUBSET Calls
      BY <1>0 DEF Types
    <3> QED  BY <2>2, <2>6, <3>1, <3>3, <3>4, <3>5, MakeReadyOK
  <2>8. Types'
    BY <1>0, <1>1, <1>2, <1>3, <2>6, <2>7 DEF Types
  <2>9. WorkersOK'
    BY <1>0, <1>1 DEF WorkersOK
  <2>10. ASSUME NEW d \in Calls  PROVE BookOK(d)'
    <3>1. CASE d # c
      BY <1>1, <1>2, <1>6, <2>6, <3>1, BookSame DEF IInv
    <3>2. CASE d = c
      <4>1. Waits(c)' = (r + 1) + (t - 1) + e + h
        BY <1>5, <2>5, <2>6 DEF Waits
      <4>2. (r + 1) + (t - 1) + e + h = r + t + e + h
        OBVIOUS
      <4>3. Waits(c)' = Waits(c)
        BY <1>4, <4>1, <4>2
      <4>4. Waits(c)' <= Waits(c) /\ Waits(c)' \in Int
        BY <1>0, <4>3, Numbers
      <4> QED  BY <1>0, <1>6, <2>5, <2>6, <3>2, <4>4, BookShrinks
    <3> QED  BY <3>1, <3>2
  <2>11. ASSUME NEW d \in Calls  PROVE CallOK(d)'
    BY <1>1, <2>5, <2>6 DEF IInv, CallOK
  <2> QED  BY <2>7, <2>8, <2>9, <2>10, <2>11 DEF IInv
<1>8. CASE ~(c \in batches /\ ~batch[c].cancelled)
  <2>1. UNCHANGED <<batch, ready, readyIds, sleeping>>
    BY <1>8 DEF RetryReady
  <2>2. Types'
    BY <1>0, <1>1, <1>2, <1>3, <2>1 DEF Types
  <2>3. QueueOK' /\ WorkersOK'
    BY <1>0, <1>1, <2>1 DEF QueueOK, WorkersOK
  <2>4. ASSUME NEW d \in Calls  PROVE BookOK(d)'
    <3>1. CASE d # c
      BY <1>1, <1>2, <1>6, <2>1, <3>1, BookSame DEF IInv
    <3>2. CASE d = c
      <4>1. Waits(c)' = r + (t - 1) + e + h
        BY <1>4, <1>5, <2>1 DEF Waits
      <4>2. r + (t - 1) + e + h <= r + t + e + h /\ r + (t - 1) + e + h \in Int
        OBVIOUS
      <4>3. Waits(c)' <= Waits(c) /\ Waits(c)' \in Int
        BY <1>4, <4>1, <4>2
      <4> QED  BY <1>0, <1>6, <2>1, <3>2, <4>3, BookShrinks
    <3> QED  BY <3>1, <3>2
  <2>5. ASSUME NEW d \in Calls  PROVE CallOK(d)'
    BY <1>1, <2>1 DEF IInv, CallOK
  <2> QED  BY <2>2, <2>3, <2>4, <2>5 DEF IInv
<1> QED  BY <1>7, <1>8

-----------------------------------------------------------------------------
(* close(), and all the steps.                                             *)

LEMMA CancelAllOK ==
  ASSUME IInv, CancelAll
  PROVE  IInv'
<1>0. Types /\ QueueOK /\ WorkersOK
  BY DEF IInv
<1> DEFINE idle == {c \in batches : Finished(batch[c])}
<1>1. /\ batch' = [c \in Calls |-> IF c \in batches THEN Cancelled(batch[c]) ELSE batch[c]]
      /\ batches' = batches \ idle /\ readyIds' = readyIds \ batches
      /\ ready' = Without(ready, idle) /\ closer = "open" /\ closer' = "cancelled"
      /\ UNCHANGED <<timers, events, callState, holding, delivered, job, workerState, sleeping,
                     closing>>
  BY DEF CancelAll, callVars, workerVars
<1>2. ASSUME NEW c \in Calls
      PROVE  /\ batch'[c] \in BatchType /\ batch'[c].consumed = batch[c].consumed
             /\ c \in batches => batch'[c] = Cancelled(batch[c]) /\ batch'[c].cancelled
             /\ c \notin batches => batch'[c] = batch[c]
  <2>1. batch[c] \in BatchType
    BY <1>0, Numbers
  <2> QED  BY <1>1, <2>1, CancelledFacts
<1>3. ready' \in Seq(Calls) /\ IsInjective(ready') /\ ToSet(ready') = ToSet(ready) \ idle
  BY <1>0, <1>1, WithoutFacts DEF Types, QueueOK
<1>4. \A c \in idle : c \in Calls /\ RunBy(c) = {}
  <2> SUFFICES ASSUME NEW c \in idle  PROVE c \in Calls /\ RunBy(c) = {}
    OBVIOUS
  <2>1. c \in Calls /\ batch[c].running = 0
    BY <1>0 DEF Types, Finished
  <2> QED  BY <1>0, <2>1, NothingRuns DEF IInv
<1> HIDE DEF idle
<1>5. QueueOK'
  <2>1. \A d \in batches \ idle : batch'[d].cancelled /\ ~CanDispatch(d, batch'[d])
    BY <1>0, <1>2 DEF Types, CanDispatch
  <2> QED  BY <1>0, <1>1, <1>3, <2>1, ShrinkOK DEF QueueOK, Types
<1>6. Types'
  BY <1>0, <1>1, <1>2, <1>3 DEF Types
<1>7. WorkersOK'
  BY <1>0, <1>1, <1>4 DEF WorkersOK, RunBy
<1>8. ASSUME NEW c \in Calls  PROVE BookOK(c)'
  <2>1. RunBy(c)' = RunBy(c) /\ InHand(c)' = InHand(c) /\ timers' = timers /\ events' = events
        /\ holding' = holding
    BY <1>1 DEF RunBy, InHand
  <2>2. CASE c \in batches
    BY <1>0, <1>2, <2>1, <2>2, BookCancelled DEF IInv
  <2>3. CASE c \notin batches
    BY <1>2, <2>1, <2>3, BookSame DEF IInv
  <2> QED  BY <2>2, <2>3
<1>9. ASSUME NEW c \in Calls  PROVE CallOK(c)'
  BY <1>1, <1>2 DEF IInv, CallOK
<1> QED  BY <1>5, <1>6, <1>7, <1>8, <1>9 DEF IInv

\* Only close() or nobody moves.
LEMMA CloseOK ==
  ASSUME IInv, AllGone \/ Shutdown \/ Joined \/ UNCHANGED vars
  PROVE  IInv'
<1>1. /\ UNCHANGED <<batch, batches, ready, readyIds, timers, events, callState, holding,
                     delivered, job, workerState>>
      /\ \/ closer' = closer /\ closing' = closing /\ sleeping' = sleeping
         \/ closer # "closed" /\ closer' = "shutdown" /\ closing' = closing /\ sleeping' = sleeping
         \/ closing' = TRUE /\ sleeping' = {} /\ closer' = closer
         \/ /\ \A w \in Workers : workerState[w] = "exited"
            /\ closer' = "closed" /\ closing' = closing /\ sleeping' = sleeping
  BY DEF AllGone, Shutdown, Joined, vars, queueVars, callVars, workerVars, closeVars
<1>2. Types'
  BY <1>1 DEF IInv, Types
<1>3. QueueOK'
  BY <1>1 DEF IInv, QueueOK
<1>4. WorkersOK'
  BY <1>1 DEF IInv, WorkersOK
<1>5. ASSUME NEW c \in Calls  PROVE BookOK(c)' /\ CallOK(c)'
  <2>1. BookOK(c)'
    BY <1>1, BookSame DEF IInv, RunBy
  <2>2. CallOK(c)'
    BY <1>1 DEF IInv, CallOK
  <2> QED  BY <2>1, <2>2
<1> QED  BY <1>2, <1>3, <1>4, <1>5 DEF IInv

LEMMA StepOK == IInv /\ [Next]_vars => IInv'
<1> SUFFICES ASSUME IInv, [Next]_vars  PROVE IInv'
  OBVIOUS
<1>1. CASE \E c \in Calls : CallNext(c)
  BY <1>1, MoveOnOK, GetEventOK, RegisterOK, ConsumeOK, CancelOK DEF CallNext
<1>2. CASE \E c \in Calls : \E i \in Items(c) : RetryReady(c, i)
  BY <1>2, RetryReadyOK
<1>3. CASE \E w \in Workers : WorkerNext(w)
  BY <1>3, TakeOK, IdleOK, FinishOK DEF WorkerNext
<1>4. CASE CancelAll
  BY <1>4, CancelAllOK
<1>5. CASE AllGone \/ Shutdown \/ Joined \/ UNCHANGED vars
  BY <1>5, CloseOK
<1> QED  BY <1>1, <1>2, <1>3, <1>4, <1>5 DEF Next, Terminated

\* In every reachable state the queue, its ids, the counts of a batch, the
\* places of its items and the workers fit together (IInv).
THEOREM Invariance == Spec => []IInv
<1> QED  BY InitOK, StepOK, PTL DEF Spec

-----------------------------------------------------------------------------
(* What follows from it.                                                   *)

\* No wakeup is lost and no running download is forgotten, for any number of
\* calls and workers (_make_ready, _take_work, _cancel_batch, _worker).
THEOREM QueueStaysSound == Spec => []QueueIsSound
<1>1. IInv => QueueIsSound
  BY DEF IInv, QueueOK, WorkersOK, QueueIsSound, NoLostWakeup, RunningIsRegistered
<1> QED  BY <1>1, Invariance, PTL

\* A download is only started for a call that nobody cancelled, whatever timer
\* of the call fires later (_take_work, _retry_ready, _cancel_batch).
THEOREM NothingStartsAfterCancel == Spec => CancelledStartsNothing
<1>1. ASSUME IInv, [Next]_vars, NEW w \in Workers, job'[w] # job[w], job'[w] # <<>>
      PROVE  ~batch[job'[w][1]].cancelled /\ callState[job'[w][1]] # "ended"
  <2>1. PICK v \in Workers : Take(v)
    <3>1. ASSUME NEW v \in Workers, Idle(v)  PROVE FALSE
      BY <1>1, <3>1 DEF Idle
    <3>2. ASSUME NEW v \in Workers, NEW retryable, Finish(v, retryable)  PROVE FALSE
      BY <1>1, <3>2 DEF Finish, IInv, Types
    <3>3. ASSUME NEW c \in Calls, CallNext(c)  PROVE FALSE
      BY <1>1, <3>3 DEF CallNext, EndAtOnce, Register, GetEvent, Consume, ConsumeRefused,
                        CallbackReturns, CallbackRaises, Cancel, workerVars
    <3>4. ASSUME NEW c \in Calls, NEW i, RetryReady(c, i)  PROVE FALSE
      BY <1>1, <3>4 DEF RetryReady
    <3>5. ~CancelAll /\ ~AllGone /\ ~Shutdown /\ ~Joined /\ ~UNCHANGED vars
      BY <1>1 DEF CancelAll, AllGone, Shutdown, Joined, workerVars, vars
    <3> QED  BY <1>1, <3>1, <3>2, <3>3, <3>4, <3>5 DEF Next, WorkerNext, Terminated
  <2>2. PICK k \in 1..Len(ready) :
          /\ Live(ready[k])
          /\ job' = [job EXCEPT ![v] = <<ready[k], Dispatchee(batch[ready[k]])>>]
    BY <2>1 DEF Take
  <2>3. PICK c \in Calls : c = ready[k]
    BY <1>1 DEF IInv, Types
  <2>4. job'[w][1] = c
    <3>1. w = v
      BY <1>1, <2>2 DEF IInv, Types
    <3> QED  BY <1>1, <2>2, <2>3, <3>1 DEF IInv, Types
  <2>5. c \in batches /\ ~batch[c].cancelled
    BY <2>2, <2>3 DEF Live, CanDispatch
  <2>6. closer # "closed"
    BY <1>1, <2>1 DEF Take, IInv, WorkersOK
  <2>7. callState[c] # "ended"
    BY <1>1, <2>5, <2>6 DEF IInv, CallOK
  <2> QED  BY <2>4, <2>5, <2>7
<1>2. IInv /\ [Next]_vars =>
        [\A w \in Workers : job'[w] # job[w] /\ job'[w] # <<>> =>
           LET c == job'[w][1] IN ~batch[c].cancelled /\ callState[c] # "ended"]_vars
  BY <1>1
<1> QED  BY <1>2, Invariance, PTL DEF Spec, CancelledStartsNothing

-----------------------------------------------------------------------------
(* Where the items are.  A file that was started and has no result yet is  *)
(* in exactly one place, for the length of the call.                       *)

LEMMA TailFacts ==
  ASSUME NEW S, NEW s \in Seq(S), s # <<>>
  PROVE  /\ Head(s) \in S /\ Head(s) \in ToSet(s) /\ Tail(s) \in Seq(S)
         /\ IsInjective(s) => /\ IsInjective(Tail(s))
                              /\ ToSet(Tail(s)) = ToSet(s) \ {Head(s)}
<1> DEFINE t == Tail(s)
<1>1. /\ t \in Seq(S) /\ Len(t) = Len(s) - 1 /\ Len(s) \in Nat /\ Len(s) # 0
      /\ Head(s) = s[1] /\ DOMAIN s = 1..Len(s) /\ DOMAIN t = 1..Len(t)
      /\ \A i \in 1..Len(t) : t[i] = s[i + 1]
  OBVIOUS
<1> HIDE DEF t
<1>2. 1 \in 1..Len(s) /\ \A i \in 1..Len(t) : i + 1 \in 1..Len(s) /\ i + 1 # 1
  BY <1>1
<1>3. \A i \in 1..Len(s) : i # 1 => i - 1 \in 1..Len(t) /\ t[i - 1] = s[i]
  BY <1>1
<1>4. Head(s) \in S /\ Head(s) \in ToSet(s)
  BY <1>1, <1>2 DEF ToSet
<1>5. ASSUME IsInjective(s)
      PROVE  IsInjective(t) /\ ToSet(t) = ToSet(s) \ {Head(s)}
  <2>1. ASSUME NEW i \in 1..Len(t), NEW j \in 1..Len(t), t[i] = t[j]  PROVE i = j
    <3>1. PICK a \in DOMAIN s, b \in DOMAIN s : a = i + 1 /\ b = j + 1
      BY <1>1, <1>2
    <3>2. s[a] = s[b]
      BY <1>1, <2>1, <3>1
    <3>3. a = b
      BY <1>5, <3>2 DEF IsInjective
    <3> QED  BY <1>1, <3>1, <3>3
  <2>2. ToSet(t) \subseteq ToSet(s) \ {Head(s)}
    BY <1>1, <1>2, <1>5, SMTT(20) DEF IsInjective, ToSet
  <2>3. ToSet(s) \ {Head(s)} \subseteq ToSet(t)
    <3> SUFFICES ASSUME NEW i \in 1..Len(s), s[i] # Head(s)  PROVE s[i] \in ToSet(t)
      BY <1>1 DEF ToSet
    <3>1. i # 1
      BY <1>1
    <3> QED  BY <1>1, <1>3, <3>1 DEF ToSet
  <2>4. IsInjective(t)
    BY <1>1, <2>1 DEF IsInjective
  <2> QED  BY <2>2, <2>3, <2>4
<1> QED  BY <1>1, <1>4, <1>5 DEF t

LEMMA SetOfSequence ==
  ASSUME NEW S, NEW s \in Seq(S)
  PROVE  /\ IsFiniteSet(ToSet(s)) /\ ToSet(s) \subseteq S
         /\ Cardinality(ToSet(s)) <= Len(s) /\ Cardinality(ToSet(s)) \in Nat
         /\ IsInjective(s) => Cardinality(ToSet(s)) = Len(s)
<1>1. DOMAIN s = 1..Len(s) /\ Len(s) \in Nat /\ ToSet(s) \subseteq S
  BY DEF ToSet
<1>2. IsFiniteSet(1..Len(s)) /\ Cardinality(1..Len(s)) = Len(s)
  BY <1>1, FS_Interval, SMTT(20)
<1> DEFINE f == [i \in 1..Len(s) |-> s[i]]
<1>3. f \in Surjection(1..Len(s), ToSet(s))
  BY <1>1 DEF Surjection, ToSet
<1>4. IsFiniteSet(ToSet(s)) /\ Cardinality(ToSet(s)) <= Len(s)
  BY <1>2, <1>3, FS_Surjection
<1>5. ASSUME IsInjective(s)  PROVE Cardinality(ToSet(s)) = Len(s)
  <2>1. f \in Injection(1..Len(s), ToSet(s))
    BY <1>1, <1>3, <1>5 DEF IsInjective, Injection, Surjection
  <2> QED  BY <1>2, <1>3, <2>1, FS_Surjection
<1> QED  BY <1>1, <1>4, <1>5, FS_CardinalityType

\* An item passes from one place to another.
LEMMA Moved ==
  ASSUME NEW P, NEW Q, DOMAIN Q = DOMAIN P, Apart(P), NEW a \in DOMAIN P, NEW b \in DOMAIN P,
         a # b, NEW x \in P[a], Q[a] = P[a] \ {x}, Q[b] = P[b] \union {x},
         \A n \in DOMAIN P : n # a /\ n # b => Q[n] = P[n]
  PROVE  /\ Apart(Q)
         /\ Together(Q) = Together(P)
<1>1. \A n \in DOMAIN P : n # a => x \notin P[n]
  BY DEF Apart
<1>2. Apart(Q)
  BY <1>1 DEF Apart
<1>3. \A n \in DOMAIN P : Q[n] \subseteq P[n] \union {x} /\ P[n] \subseteq Q[n] \union {x}
  OBVIOUS
<1>4. x \in Q[b] /\ x \in P[a]
  OBVIOUS
<1> QED  BY <1>2, <1>3, <1>4 DEF Together

\* An item comes into a place.
Enters(P, Q, b, x) ==
  /\ DOMAIN Q = DOMAIN P /\ b \in DOMAIN P /\ Q[b] = P[b] \union {x}
  /\ \A n \in DOMAIN P : x \notin P[n] /\ (n # b => Q[n] = P[n])
LEMMA Entered ==
  ASSUME NEW P, NEW Q, NEW b, NEW x, Apart(P), Enters(P, Q, b, x)
  PROVE  Apart(Q) /\ Together(Q) = Together(P) \union {x}
<1> USE DEF Enters
<1>2. Apart(Q)
  BY DEF Apart
<1>3. \A n \in DOMAIN P : Q[n] \subseteq P[n] \union {x} /\ P[n] \subseteq Q[n]
  OBVIOUS
<1>4. Together(Q) \subseteq Together(P) \union {x}
  BY <1>3 DEF Together
<1>5. Together(P) \subseteq Together(Q)
  BY <1>3 DEF Together
<1>6. x \in Together(Q)
  BY DEF Together
<1> QED  BY <1>2, <1>4, <1>5, <1>6

\* Items are dropped.
LEMMA DroppedFrom ==
  ASSUME NEW P, NEW Q, DOMAIN Q = DOMAIN P, Apart(P), \A n \in DOMAIN P : Q[n] \subseteq P[n]
  PROVE  /\ Apart(Q)
         /\ Together(Q) \subseteq Together(P)
<1>1. Apart(Q)
  BY DEF Apart
<1> QED  BY <1>1 DEF Together

Results == {"none", "complete", "raised", "refused"}

\* No two workers have the same item.
JobsOK ==
  /\ \A v, w \in Workers : job[v] = job[w] /\ job[v] # <<>> => v = w
  /\ \A w \in Workers : job[w] # <<>> => job[w][2] \in Items(job[w][1])

\* Cancelling drops items, so the places of a live batch alone hold all that
\* was dispatched.
PlacesOK(c) ==
  /\ IsInjective(batch[c].retry) /\ IsInjective(events[c]) /\ IsInjective(delivered[c])
  /\ Apart(Places(c)) /\ Located(c) \subseteq 0..(batch[c].next - 1)
  /\ c \in batches /\ ~batch[c].cancelled => 0..(batch[c].next - 1) \subseteq Located(c)

\* A cancelled batch counts the results it still gives below zero.
SlotsOK(c) ==
  /\ batch[c].outstanding <= Limit[c]
  /\ batch[c].outstanding - Limit[c] <= batch[c].pending
  /\ batch[c].pending <= batch[c].outstanding
  /\ batch[c].attempts \in [Items(c) -> 0..Retries]
  /\ c \in batches /\ ~batch[c].cancelled => batch[c].pending = Len(events[c]) + InHand(c)
  /\ callState[c] = "new" => batch[c] = NewBatch(c) /\ events[c] = <<>>

EndsOK(c) ==
  /\ result[c] # "none" => callState[c] = "ended"
  /\ result[c] = "complete" => Len(delivered[c]) >= Size[c]

FileOK(c) == PlacesOK(c) /\ SlotsOK(c) /\ EndsOK(c)
Files == JobsOK /\ result \in [Calls -> Results] /\ \A c \in Calls : FileOK(c)

LEMMA Limits ==
  ASSUME NEW c \in Calls
  PROVE  Limit[c] \in Nat /\ Limit[c] >= 1 /\ Size[c] \in Nat /\ Retries \in Nat
BY DownloadAssumption

\* What a step leaves alone.
LEMMA PlacesSame ==
  ASSUME NEW c \in Calls, PlacesOK(c), batch'[c].retry = batch[c].retry,
         batch'[c].next = batch[c].next, timers'[c] = timers[c], events'[c] = events[c],
         holding'[c] = holding[c], delivered'[c] = delivered[c], Running(c)' = Running(c),
         c \in batches' /\ ~batch'[c].cancelled => c \in batches /\ ~batch[c].cancelled
  PROVE  PlacesOK(c)'
<1>1. Places(c)' = Places(c)
  BY DEF Places, Held
<1> HIDE DEF Places
<1>2. Located(c)' = Located(c)
  BY <1>1 DEF Located
<1> QED  BY <1>1, <1>2 DEF PlacesOK

LEMMA SlotsSame ==
  ASSUME NEW c \in Calls, SlotsOK(c), batch'[c] = batch[c], events'[c] = events[c],
         holding'[c] = holding[c], callState'[c] = "new" => callState[c] = "new",
         c \in batches' => c \in batches
  PROVE  SlotsOK(c)'
<1>1. InHand(c)' = InHand(c)
  BY DEF InHand
<1> QED  BY <1>1 DEF SlotsOK, NewBatch

LEMMA EndsSame ==
  ASSUME NEW c \in Calls, EndsOK(c), result'[c] = result[c], delivered'[c] = delivered[c],
         callState'[c] = callState[c]
  PROVE  EndsOK(c)'
BY DEF EndsOK

\* A call of which nothing changes.
SameFile(c) ==
  /\ batch'[c] = batch[c] /\ timers'[c] = timers[c] /\ events'[c] = events[c]
  /\ holding'[c] = holding[c] /\ delivered'[c] = delivered[c] /\ result'[c] = result[c]
  /\ callState'[c] = callState[c] /\ Running(c)' = Running(c)
  /\ c \in batches' => c \in batches

LEMMA FileSame ==
  ASSUME NEW c \in Calls, FileOK(c), SameFile(c)
  PROVE  FileOK(c)'
<1>1. PlacesOK(c)'
  BY PlacesSame DEF FileOK, SameFile
<1>2. SlotsOK(c)'
  BY SlotsSame DEF FileOK, SameFile
<1>3. EndsOK(c)'
  BY EndsSame DEF FileOK, SameFile
<1> QED  BY <1>1, <1>2, <1>3 DEF FileOK

\* What is in a place is an item, and only in that place.
LEMMA PlaceFacts ==
  ASSUME IInv, Files, NEW c \in Calls
  PROVE  /\ batch[c].next \in Nat /\ batch[c].next <= Size[c]
         /\ Located(c) \subseteq Items(c)
         /\ ToSet(batch[c].retry) \subseteq Located(c) /\ timers[c] \subseteq Located(c)
         /\ Running(c) \subseteq Located(c) /\ ToSet(events[c]) \subseteq Located(c)
         /\ Held(c) \subseteq Located(c) /\ ToSet(delivered[c]) \subseteq Located(c)
<1>1. batch[c].next \in Nat /\ batch[c].next <= Size[c] /\ Size[c] \in Nat
  BY Numbers DEF IInv, BookOK
<1>2. 0..(batch[c].next - 1) \subseteq Items(c)
  BY <1>1 DEF Items
<1>3. Located(c) \subseteq 0..(batch[c].next - 1)
  BY DEF Files, FileOK, PlacesOK
<1>4. /\ ToSet(batch[c].retry) \subseteq Located(c) /\ timers[c] \subseteq Located(c)
      /\ Running(c) \subseteq Located(c) /\ ToSet(events[c]) \subseteq Located(c)
      /\ Held(c) \subseteq Located(c) /\ ToSet(delivered[c]) \subseteq Located(c)
  BY DEF Located, Together, Places
<1> QED  BY <1>1, <1>2, <1>3, <1>4

LEMMA InitFiles == Init => Files
<1> SUFFICES ASSUME Init PROVE Files
  OBVIOUS
<1>1. JobsOK /\ result \in [Calls -> Results]
  BY DEF Init, JobsOK, Results
<1>2. ASSUME NEW c \in Calls  PROVE FileOK(c)
  <2>1. /\ batch[c] = NewBatch(c) /\ timers[c] = {} /\ events[c] = <<>> /\ holding[c] = None
        /\ delivered[c] = <<>> /\ callState[c] = "new" /\ result[c] = "none" /\ c \notin batches
    BY DEF Init
  <2>2. /\ batch[c].retry = <<>> /\ batch[c].next = 0 /\ batch[c].outstanding = 0
        /\ batch[c].pending = 0 /\ batch[c].attempts = [i \in Items(c) |-> 0]
    BY <2>1 DEF NewBatch
  <2>3. PlacesOK(c)
    <3>1. Running(c) = {} /\ Held(c) = {} /\ ToSet(<<>>) = {}
      BY <2>1 DEF Init, Running, Held, ToSet
    <3>2. \A p \in DOMAIN Places(c) : Places(c)[p] = {}
      BY <2>1, <2>2, <3>1 DEF Places
    <3>3. Apart(Places(c)) /\ Located(c) = {}
      BY <3>2 DEF Apart, Located, Together
    <3>4. IsInjective(<<>>)
      BY DEF IsInjective
    <3> QED  BY <2>1, <2>2, <3>3, <3>4 DEF PlacesOK
  <2>4. SlotsOK(c)
    <3>1. [i \in Items(c) |-> 0] \in [Items(c) -> 0..Retries]
      BY Limits
    <3> QED  BY <2>1, <2>2, <3>1, Limits DEF SlotsOK
  <2>5. EndsOK(c)
    BY <2>1 DEF EndsOK
  <2> QED  BY <2>3, <2>4, <2>5 DEF FileOK
<1> QED  BY <1>1, <1>2 DEF Files

-----------------------------------------------------------------------------
(* The steps of a call, for its items.                                     *)

\* Nothing moves, and no worker either.
LEMMA NothingMoves ==
  ASSUME IInv, Files, NEW c \in Calls,
         UNCHANGED <<batch, batches, timers, events, holding, delivered, job>>,
         \A d \in Calls : d # c => callState'[d] = callState[d] /\ result'[d] = result[d],
         callState'[c] # "new", result' \in [Calls -> Results], EndsOK(c)'
  PROVE  Files'
<1>1. JobsOK'
  BY DEF Files, JobsOK
<1>2. \A d \in Calls : Running(d)' = Running(d)
  BY DEF Running
<1>3. ASSUME NEW d \in Calls  PROVE FileOK(d)'
  <2>1. CASE d # c
    BY <1>2, <2>1, FileSame DEF Files, SameFile
  <2>2. CASE d = c
    <3>1. PlacesOK(c) /\ SlotsOK(c)
      BY DEF Files, FileOK
    <3>2. PlacesOK(c)'
      BY <1>2, <3>1, PlacesSame
    <3>3. SlotsOK(c)'
      BY <3>1, SlotsSame
    <3> QED  BY <2>2, <3>2, <3>3 DEF FileOK
  <2> QED  BY <2>1, <2>2
<1> QED  BY <1>1, <1>3 DEF Files

LEMMA MoveOnFiles ==
  ASSUME IInv, Files, NEW c \in Calls,
         EndAtOnce(c) \/ ConsumeRefused(c) \/ CallbackReturns(c) \/ CallbackRaises(c)
  PROVE  Files'
<1>1. /\ UNCHANGED <<batch, batches, timers, events, holding, delivered, job>>
      /\ \/ /\ callState' = [callState EXCEPT ![c] = "ended"]
            /\ \E how \in Results \ {"none"} :
                 /\ result' = [result EXCEPT ![c] = how]
                 /\ how = "complete" => Size[c] = 0 \/ Len(delivered[c]) >= Size[c]
         \/ /\ callState' = [callState EXCEPT ![c] = "wait"] /\ callState[c] = "callback"
            /\ result' = result
         \/ /\ callState' = [callState EXCEPT ![c] = "cancel"] /\ callState[c] = "callback"
            /\ result' = result
  <2>1. Len(delivered[c]) \in Nat /\ Size[c] \in Nat
    BY Numbers DEF IInv
  <2>2. CASE EndAtOnce(c)
    <3> DEFINE how == IF Size[c] = 0 THEN "complete" ELSE "refused"
    <3>1. how \in Results \ {"none"} /\ (how = "complete" => Size[c] = 0)
      BY DEF Results
    <3>2. /\ UNCHANGED <<batch, batches, timers, events, holding, delivered, job>>
          /\ callState' = [callState EXCEPT ![c] = "ended"]
          /\ result' = [result EXCEPT ![c] = how]
      BY <2>2 DEF EndAtOnce, EndAs, Goto, queueVars, workerVars
    <3> HIDE DEF how
    <3> QED  BY <3>1, <3>2
  <2>3. CASE ConsumeRefused(c)
    <3>1. /\ UNCHANGED <<batch, batches, timers, events, holding, delivered, job>>
          /\ callState' = [callState EXCEPT ![c] = "ended"]
          /\ result' = [result EXCEPT ![c] = "raised"]
      BY <2>3 DEF ConsumeRefused, EndAs, Goto, queueVars, workerVars
    <3>2. "raised" \in Results \ {"none"} /\ "raised" # "complete"
      BY DEF Results
    <3> QED  BY <3>1, <3>2
  <2>4. CASE CallbackReturns(c)
    BY <2>1, <2>4 DEF CallbackReturns, EndAs, Goto, queueVars, workerVars, Results
  <2>5. CASE CallbackRaises(c)
    BY <2>5 DEF CallbackRaises, Goto, queueVars, workerVars
  <2> QED  BY <2>2, <2>3, <2>4, <2>5
<1>2. result \in [Calls -> Results] /\ DOMAIN callState = Calls /\ Len(delivered[c]) \in Nat
      /\ EndsOK(c) /\ Size[c] \in Nat
  BY Numbers DEF IInv, Types, Files, FileOK
<1>3. EndsOK(c)' /\ result' \in [Calls -> Results] /\ callState'[c] # "new"
  BY <1>1, <1>2 DEF EndsOK
<1>4. \A d \in Calls : d # c => callState'[d] = callState[d] /\ result'[d] = result[d]
  BY <1>1, <1>2
<1> QED  BY <1>1, <1>3, <1>4, NothingMoves

LEMMA RegisterFiles ==
  ASSUME IInv, Files, NEW c \in Calls, Register(c)
  PROVE  Files'
<1>1. /\ batches' = batches \union {c} /\ callState[c] = "new"
      /\ callState' = [callState EXCEPT ![c] = "wait"]
      /\ UNCHANGED <<batch, timers, events, holding, delivered, result, job>>
  BY DEF Register, Goto
<1>2. callState'[c] = "wait" /\ \A d \in Calls : d # c => callState'[d] = callState[d]
  BY <1>1 DEF IInv, Types
<1>3. JobsOK' /\ result' \in [Calls -> Results]
  BY <1>1 DEF Files, JobsOK
<1>4. \A d \in Calls : Running(d)' = Running(d)
  BY <1>1 DEF Running
<1>5. ASSUME NEW d \in Calls  PROVE FileOK(d)'
  <2>1. CASE d # c
    BY <1>1, <1>2, <1>4, <2>1, FileSame DEF Files, SameFile
  <2>2. CASE d = c
    <3>1. /\ batch[c].next = 0 /\ batch[c].pending = 0 /\ events[c] = <<>> /\ holding[c] = None
          /\ PlacesOK(c) /\ SlotsOK(c) /\ EndsOK(c)
      BY <1>1 DEF Files, FileOK, SlotsOK, NewBatch, IInv, CallOK
    <3>2. Located(c) \subseteq {}
      BY <3>1 DEF PlacesOK
    <3>3. Located(c)' = Located(c) /\ Places(c)' = Places(c)
      <4>1. Places(c)' = Places(c)
        BY <1>1, <1>4 DEF Places, Held
      <4> QED  BY <4>1 DEF Located
    <3>4. PlacesOK(c)'
      BY <1>1, <3>1, <3>2, <3>3 DEF PlacesOK
    <3>5. SlotsOK(c)'
      BY <1>1, <1>2, <3>1 DEF SlotsOK, InHand
    <3>6. EndsOK(c)'
      BY <1>1, <1>2, <3>1 DEF EndsOK
    <3> QED  BY <2>2, <3>4, <3>5, <3>6 DEF FileOK
  <2> QED  BY <2>1, <2>2
<1> QED  BY <1>3, <1>5 DEF Files

LEMMA HeldFacts ==
  ASSUME IInv, NEW c \in Calls
  PROVE  /\ holding[c] = None => Held(c) = {} /\ InHand(c) = 0
         /\ holding[c] # None => Held(c) = {holding[c]} /\ InHand(c) = 1
         /\ Cardinality(Held(c)) = InHand(c) /\ IsFiniteSet(Held(c))
<1>1. holding[c] = None => Held(c) = {} /\ InHand(c) = 0
  BY DEF Held, InHand
<1>2. holding[c] # None => Held(c) = {holding[c]} /\ InHand(c) = 1
  BY DEF Held, InHand
<1> QED  BY <1>1, <1>2, FS_EmptySet, FS_Singleton

LEMMA GetEventFiles ==
  ASSUME IInv, Files, NEW c \in Calls, GetEvent(c)
  PROVE  Files'
<1>1. /\ events[c] # <<>> /\ holding' = [holding EXCEPT ![c] = Head(events[c])]
      /\ events' = [events EXCEPT ![c] = Tail(@)] /\ callState[c] = "wait"
      /\ callState' = [callState EXCEPT ![c] = "consume"]
      /\ UNCHANGED <<batch, batches, timers, delivered, result, job>>
  BY DEF GetEvent, Goto, queueVars, workerVars
<1>2. /\ events[c] \in Seq(Nat) /\ holding[c] = None /\ c \in DOMAIN holding
      /\ c \in DOMAIN events /\ c \in DOMAIN callState
  BY <1>1 DEF IInv, Types, CallOK
<1>3. PICK x \in Nat : x = Head(events[c]) /\ x # None
  BY <1>1, <1>2, DownloadAssumption
<1>4. holding'[c] = x /\ events'[c] = Tail(events[c]) /\ callState'[c] = "consume"
  BY <1>1, <1>2, <1>3
<1>5. \A d \in Calls : d # c => /\ holding'[d] = holding[d] /\ events'[d] = events[d]
                                /\ callState'[d] = callState[d]
  BY <1>1
<1>6. JobsOK' /\ result' \in [Calls -> Results]
  BY <1>1 DEF Files, JobsOK
<1>7. \A d \in Calls : Running(d)' = Running(d)
  BY <1>1 DEF Running
<1>8. PlacesOK(c) /\ SlotsOK(c) /\ EndsOK(c)
  BY DEF Files, FileOK
<1>9. /\ x \in ToSet(events[c]) /\ IsInjective(Tail(events[c]))
      /\ ToSet(Tail(events[c])) = ToSet(events[c]) \ {x}
  BY <1>1, <1>2, <1>3, <1>8, TailFacts DEF PlacesOK
<1>10. PlacesOK(c)'
  <2>1. PICK P : P = Places(c)
    OBVIOUS
  <2>2. PICK Q : Q = Places(c)'
    OBVIOUS
  <2>3. /\ DOMAIN Q = DOMAIN P /\ "events" \in DOMAIN P /\ "held" \in DOMAIN P
        /\ x \in P["events"] /\ Q["events"] = P["events"] \ {x}
        /\ Q["held"] = P["held"] \union {x}
        /\ \A n \in DOMAIN P : n # "events" /\ n # "held" => Q[n] = P[n]
    BY <1>1, <1>2, <1>3, <1>4, <1>7, <1>9, <2>1, <2>2 DEF Places, Held
  <2>4. Apart(P)
    BY <1>8, <2>1 DEF PlacesOK
  <2>5. Apart(Q) /\ Together(Q) = Together(P)
    BY <2>3, <2>4, Moved
  <2>6. Apart(Places(c))' /\ Located(c)' = Located(c)
    BY <2>1, <2>2, <2>5 DEF Located
  <2> QED  BY <1>1, <1>4, <1>8, <1>9, <2>6 DEF PlacesOK
<1>11. SlotsOK(c)'
  <2>1. InHand(c)' = 1 /\ InHand(c) = 0
    BY <1>2, <1>3, <1>4 DEF InHand
  <2>2. Len(Tail(events[c])) = Len(events[c]) - 1 /\ Len(events[c]) \in Nat
    BY <1>1, <1>2
  <2>3. Len(events'[c]) + InHand(c)' = Len(events[c]) + InHand(c)
    BY <1>4, <2>1, <2>2
  <2> QED  BY <1>1, <1>4, <1>8, <2>3 DEF SlotsOK
<1>12. EndsOK(c)'
  BY <1>1, <1>4, <1>8 DEF EndsOK
<1>13. ASSUME NEW d \in Calls, d # c  PROVE FileOK(d)'
  BY <1>1, <1>5, <1>7, <1>13, FileSame DEF Files, SameFile
<1> QED  BY <1>6, <1>10, <1>11, <1>12, <1>13 DEF Files, FileOK

\* What a call or a cancellation does to the slots of a batch.
LEMMA SlotFacts ==
  ASSUME NEW b \in BatchType
  PROVE  /\ Consumed(b).pending = b.pending - 1 /\ Consumed(b).attempts = b.attempts
         /\ Cancelled(b).pending = 0 /\ Cancelled(b).attempts = b.attempts
         /\ Dispatched(b).pending = b.pending /\ Dispatched(b).attempts = b.attempts
         /\ b.pending \in Int /\ b.outstanding \in Int
BY DEF BatchType, Consumed, Cancelled, Dispatched

LEMMA ConsumeFiles ==
  ASSUME IInv, Files, NEW c \in Calls, Consume(c)
  PROVE  Files'
<1>1. /\ callState[c] = "consume"
      /\ delivered' = [delivered EXCEPT ![c] = Append(@, holding[c])]
      /\ holding' = [holding EXCEPT ![c] = None]
      /\ callState' = [callState EXCEPT ![c] = "callback"]
      /\ UNCHANGED <<timers, events, result, job>>
  BY DEF Consume, Goto
<1>2. /\ delivered[c] \in Seq(Nat) /\ holding[c] # None /\ DOMAIN holding = Calls
      /\ DOMAIN delivered = Calls /\ DOMAIN callState = Calls /\ batch[c] \in BatchType
  BY <1>1, Numbers DEF IInv, Types, CallOK
<1>3. PICK x \in Nat : x = holding[c] /\ x # None
  BY <1>2, DownloadAssumption DEF IInv, Types
<1>4. /\ holding'[c] = None /\ delivered'[c] = Append(delivered[c], x)
      /\ callState'[c] = "callback"
  BY <1>1, <1>2, <1>3
<1>5. \A d \in Calls : d # c => /\ holding'[d] = holding[d] /\ delivered'[d] = delivered[d]
                                /\ callState'[d] = callState[d]
  BY <1>1, <1>2
<1>6. JobsOK' /\ result' \in [Calls -> Results]
  BY <1>1 DEF Files, JobsOK
<1>7. \A d \in Calls : Running(d)' = Running(d)
  BY <1>1 DEF Running
<1>8. PlacesOK(c) /\ SlotsOK(c) /\ EndsOK(c)
  BY DEF Files, FileOK
<1>9. /\ batches' \subseteq batches /\ \A d \in Calls : d # c => batch'[d] = batch[d]
      /\ c \in batches => batch'[c] = Consumed(batch[c])
      /\ c \notin batches => batch'[c] = batch[c]
  <2>1. CASE c \in batches
    <3>1. /\ batch' = [batch EXCEPT ![c] = Consumed(batch[c])]
          /\ batches' = batches \ {c} \/ batches' = batches
      BY <2>1 DEF Consume, RemoveBatches
    <3> QED  BY <2>1, <3>1 DEF IInv, Types
  <2>2. CASE c \notin batches
    BY <2>2 DEF Consume, queueVars
  <2> QED  BY <2>1, <2>2
<1>10. /\ batch'[c].next = batch[c].next /\ batch'[c].retry = batch[c].retry
       /\ batch'[c].cancelled = batch[c].cancelled /\ batch'[c].attempts = batch[c].attempts
  BY <1>2, <1>9, ConsumedFacts, SlotFacts
<1>11. Held(c) = {x} /\ x \notin ToSet(delivered[c])
  <2>1. Held(c) = {x}
    BY <1>3 DEF Held
  <2>2. Places(c)["held"] \cap Places(c)["delivered"] = {}
    <3>1. "held" \in DOMAIN Places(c) /\ "delivered" \in DOMAIN Places(c)
      BY DEF Places
    <3> QED  BY <1>8, <3>1 DEF PlacesOK, Apart
  <2> QED  BY <2>1, <2>2 DEF Places
<1>12. /\ IsInjective(delivered'[c]) /\ ToSet(delivered'[c]) = ToSet(delivered[c]) \union {x}
       /\ Len(delivered'[c]) = Len(delivered[c]) + 1
  BY <1>2, <1>4, <1>8, <1>11, AppendFacts DEF PlacesOK
<1>13. PlacesOK(c)'
  <2>1. PICK P : P = Places(c)
    OBVIOUS
  <2>2. PICK Q : Q = Places(c)'
    OBVIOUS
  <2>3. Held(c)' = {}
    BY <1>4 DEF Held
  <2>4. /\ DOMAIN Q = DOMAIN P /\ "held" \in DOMAIN P /\ "delivered" \in DOMAIN P
        /\ x \in P["held"] /\ Q["held"] = P["held"] \ {x}
        /\ Q["delivered"] = P["delivered"] \union {x}
        /\ \A n \in DOMAIN P : n # "held" /\ n # "delivered" => Q[n] = P[n]
    BY <1>1, <1>7, <1>10, <1>11, <1>12, <2>1, <2>2, <2>3 DEF Places
  <2>5. Apart(P)
    BY <1>8, <2>1 DEF PlacesOK
  <2>6. Apart(Q) /\ Together(Q) = Together(P)
    BY <2>4, <2>5, Moved
  <2>7. Apart(Places(c))' /\ Located(c)' = Located(c)
    BY <2>1, <2>2, <2>6 DEF Located
  <2> QED  BY <1>1, <1>8, <1>9, <1>10, <1>12, <2>7 DEF PlacesOK
<1>14. SlotsOK(c)'
  <2>1. InHand(c)' = 0 /\ InHand(c) = 1
    BY <1>3, <1>4 DEF InHand
  <2>2. /\ batch[c].pending \in Int /\ batch[c].outstanding \in Int
        /\ Len(events[c]) \in Nat /\ Limit[c] \in Nat
    BY <1>2, SlotFacts, Limits, Numbers DEF IInv
  <2>3. CASE c \in batches
    <3>1. /\ batch'[c].pending = batch[c].pending - 1
          /\ batch'[c].outstanding = batch[c].outstanding - 1
      BY <1>2, <1>9, <2>3, ConsumedFacts, SlotFacts
    <3>2. c \in batches' /\ ~batch'[c].cancelled => batch[c].pending = Len(events[c]) + 1
      BY <1>8, <1>10, <2>1, <2>3 DEF SlotsOK
    <3>3. /\ batch'[c].outstanding <= Limit[c] /\ batch'[c].pending <= batch'[c].outstanding
          /\ batch'[c].outstanding - Limit[c] <= batch'[c].pending
      BY <1>8, <2>2, <3>1 DEF SlotsOK
    <3>4. c \in batches' /\ ~batch'[c].cancelled =>
            batch'[c].pending = Len(events'[c]) + InHand(c)'
      BY <1>1, <2>1, <2>2, <3>1, <3>2
    <3> QED  BY <1>4, <1>8, <1>10, <3>3, <3>4 DEF SlotsOK
  <2>4. CASE c \notin batches
    BY <1>4, <1>8, <1>9, <2>4 DEF SlotsOK
  <2> QED  BY <2>3, <2>4
<1>15. EndsOK(c)'
  BY <1>1, <1>8 DEF EndsOK
<1>16. ASSUME NEW d \in Calls, d # c  PROVE FileOK(d)'
  BY <1>1, <1>5, <1>7, <1>9, <1>16, FileSame DEF Files, SameFile
<1> QED  BY <1>6, <1>13, <1>14, <1>15, <1>16 DEF Files, FileOK

\* A batch is cancelled, by its call or by close().
LEMMA CancelledFile ==
  ASSUME IInv, NEW c \in Calls, PlacesOK(c), SlotsOK(c), batch'[c] = Cancelled(batch[c]),
         timers'[c] = timers[c], events'[c] = events[c], holding'[c] = holding[c],
         delivered'[c] = delivered[c], Running(c)' = Running(c), callState[c] # "new",
         callState'[c] # "new"
  PROVE  PlacesOK(c)' /\ SlotsOK(c)'
<1>1. /\ batch'[c].next = batch[c].next /\ batch'[c].retry = <<>> /\ batch'[c].cancelled
      /\ batch'[c].pending = 0 /\ batch'[c].outstanding = batch[c].outstanding
      /\ batch'[c].attempts = batch[c].attempts
  BY Numbers, CancelledFacts, SlotFacts DEF IInv
<1>2. ToSet(batch'[c].retry) = {} /\ IsInjective(batch'[c].retry)
  BY <1>1 DEF ToSet, IsInjective
<1>3. Apart(Places(c))' /\ Located(c)' \subseteq Located(c)
  <2>1. PICK P : P = Places(c)
    OBVIOUS
  <2>2. PICK Q : Q = Places(c)'
    OBVIOUS
  <2>3. DOMAIN Q = DOMAIN P /\ \A n \in DOMAIN P : Q[n] \subseteq P[n]
    BY <1>2, <2>1, <2>2 DEF Places, Held
  <2>4. Apart(P)
    BY <2>1 DEF PlacesOK
  <2>5. Apart(Q) /\ Together(Q) \subseteq Together(P)
    BY <2>3, <2>4, DroppedFrom
  <2> QED  BY <2>1, <2>2, <2>5 DEF Located
<1>4. PlacesOK(c)'
  BY <1>1, <1>2, <1>3 DEF PlacesOK
<1>5. 0 <= batch[c].outstanding /\ batch[c].outstanding \in Int /\ Limit[c] \in Nat
  <2>1. batch[c].running = Cardinality(RunBy(c)) /\ Cardinality(RunBy(c)) \in Nat
        /\ batch[c].running + Waits(c) <= batch[c].outstanding
    BY RunByFinite DEF IInv, BookOK
  <2>2. Waits(c) \in Nat /\ batch[c].outstanding \in Int
    BY Numbers DEF IInv
  <2> QED  BY <2>1, <2>2, Limits
<1>6. SlotsOK(c)'
  BY <1>1, <1>5 DEF SlotsOK
<1> QED  BY <1>4, <1>6

LEMMA CancelFiles ==
  ASSUME IInv, Files, NEW c \in Calls, Cancel(c)
  PROVE  Files'
<1>1. /\ callState[c] = "cancel" /\ callState' = [callState EXCEPT ![c] = "ended"]
      /\ result' = [result EXCEPT ![c] = "raised"]
      /\ UNCHANGED <<timers, events, holding, delivered, job>>
  BY DEF Cancel, EndAs, Goto, workerVars
<1>2. /\ callState'[c] = "ended" /\ result'[c] = "raised" /\ result' \in [Calls -> Results]
      /\ \A d \in Calls : d # c => callState'[d] = callState[d] /\ result'[d] = result[d]
  BY <1>1 DEF IInv, Types, Files, Results
<1>3. /\ batches' \subseteq batches /\ \A d \in Calls : d # c => batch'[d] = batch[d]
      /\ batch'[c] = Cancelled(batch[c]) \/ batch'[c] = batch[c]
  <2>1. \/ /\ batch' = [batch EXCEPT ![c] = Cancelled(batch[c])]
           /\ batches' = batches \ {c} \/ batches' = batches
        \/ batch' = batch /\ batches' = batches
    BY DEF Cancel, RemoveBatches, queueVars
  <2> QED  BY <2>1 DEF IInv, Types
<1>4. JobsOK'
  BY <1>1 DEF Files, JobsOK
<1>5. \A d \in Calls : Running(d)' = Running(d)
  BY <1>1 DEF Running
<1>6. PlacesOK(c) /\ SlotsOK(c) /\ EndsOK(c)
  BY DEF Files, FileOK
<1>7. PlacesOK(c)' /\ SlotsOK(c)'
  <2>1. CASE batch'[c] = Cancelled(batch[c])
    BY <1>1, <1>2, <1>5, <1>6, <2>1, CancelledFile
  <2>2. CASE batch'[c] = batch[c]
    BY <1>1, <1>2, <1>3, <1>5, <1>6, <2>2, PlacesSame, SlotsSame
  <2> QED  BY <1>3, <2>1, <2>2
<1>8. EndsOK(c)'
  BY <1>2 DEF EndsOK
<1>9. ASSUME NEW d \in Calls, d # c  PROVE FileOK(d)'
  BY <1>1, <1>2, <1>3, <1>5, <1>9, FileSame DEF Files, SameFile
<1> QED  BY <1>2, <1>4, <1>7, <1>8, <1>9 DEF Files, FileOK

-----------------------------------------------------------------------------
(* The steps of the workers and the timers, for the items.                 *)

LEMMA RunningTaken ==
  ASSUME Types, JobsOK, NEW w \in Workers, NEW c \in Calls, NEW i \in Items(c),
         i \notin Running(c), job[w] = <<>>, job' = [job EXCEPT ![w] = <<c, i>>]
  PROVE  /\ JobsOK' /\ Running(c)' = Running(c) \union {i}
         /\ \A d \in Calls : d # c => Running(d)' = Running(d)
<1>1. /\ job'[w] = <<c, i>> /\ job'[w] # <<>> /\ job'[w][1] = c /\ job'[w][2] = i
      /\ \A v \in Workers : v # w => job'[v] = job[v] /\ job[v] # <<c, i>>
  BY DEF Types, Running
<1>2. JobsOK'
  BY <1>1 DEF JobsOK
<1> HIDE DEF Items
<1>3. Running(c)' = Running(c) \union {i}
  <2>1. ASSUME NEW j \in Items(c)
        PROVE  (\E v \in Workers : job'[v] = <<c, j>>)
                 <=> j = i \/ \E v \in Workers : job[v] = <<c, j>>
    <3>1. <<c, j>> = <<c, i>> <=> j = i
      OBVIOUS
    <3>2. job[w] # <<c, j>>
      OBVIOUS
    <3> QED  BY <1>1, <3>1, <3>2
  <2> QED  BY <2>1 DEF Running
<1>4. ASSUME NEW d \in Calls, d # c  PROVE Running(d)' = Running(d)
  <2>1. \A j : <<d, j>> # <<c, i>> /\ <<d, j>> # <<>>
    BY <1>4
  <2> QED  BY <1>1, <2>1 DEF Running
<1> QED  BY <1>2, <1>3, <1>4

LEMMA RunningGiven ==
  ASSUME Types, JobsOK, NEW w \in Workers, NEW c \in Calls, NEW i, job[w] = <<c, i>>,
         job' = [job EXCEPT ![w] = <<>>]
  PROVE  /\ JobsOK' /\ i \in Running(c) /\ Running(c)' = Running(c) \ {i}
         /\ \A d \in Calls : d # c => Running(d)' = Running(d)
<1>1. /\ job'[w] = <<>> /\ job[w] # <<>> /\ job[w][1] = c /\ job[w][2] = i
      /\ \A v \in Workers : v # w => job'[v] = job[v]
  BY DEF Types
<1>2. JobsOK' /\ i \in Items(c) /\ \A v \in Workers : job[v] = <<c, i>> => v = w
  BY <1>1 DEF JobsOK
<1> HIDE DEF Items
<1>3. i \in Running(c)
  BY <1>2 DEF Running
<1>4. Running(c)' = Running(c) \ {i}
  <2>1. ASSUME NEW j \in Items(c)
        PROVE  (\E v \in Workers : job'[v] = <<c, j>>)
                 <=> j # i /\ \E v \in Workers : job[v] = <<c, j>>
    <3>1. <<c, j>> = <<c, i>> <=> j = i
      OBVIOUS
    <3>2. <<c, j>> # <<>>
      OBVIOUS
    <3> QED  BY <1>1, <1>2, <3>1, <3>2
  <2> QED  BY <2>1 DEF Running
<1>5. ASSUME NEW d \in Calls, d # c  PROVE Running(d)' = Running(d)
  <2>1. \A j : <<d, j>> # <<c, i>> /\ <<d, j>> # <<>>
    BY <1>5
  <2> QED  BY <1>1, <2>1 DEF Running
<1> QED  BY <1>2, <1>3, <1>4, <1>5

\* A live batch counts its results from zero.
LEMMA LiveSlots ==
  ASSUME IInv, Files, NEW c \in batches, ~batch[c].cancelled
  PROVE  /\ c \in Calls /\ batch[c].pending = Len(events[c]) + InHand(c)
         /\ 0 <= batch[c].pending /\ batch[c].pending \in Int
         /\ batch[c].outstanding \in Int /\ Limit[c] \in Nat /\ callState[c] # "new"
         /\ batch[c].outstanding <= Limit[c] /\ batch[c].pending <= batch[c].outstanding
<1>1. c \in Calls
  BY DEF IInv, Types
<1>2. Len(events[c]) \in Nat /\ InHand(c) \in Nat /\ batch[c].outstanding \in Int
      /\ Limit[c] \in Nat
  BY <1>1, Numbers, Limits DEF IInv
<1>3. SlotsOK(c) /\ callState[c] # "new"
  BY <1>1 DEF Files, FileOK, IInv, CallOK
<1> QED  BY <1>1, <1>2, <1>3 DEF SlotsOK

LEMMA TakeFiles ==
  ASSUME IInv, Files, NEW w \in Workers, Take(w)
  PROVE  Files'
<1>1. /\ workerState[w] = "take"
      /\ UNCHANGED <<batches, timers, events, callState, holding, delivered, result>>
  BY DEF Take, callVars
<1>2. PICK k \in 1..Len(ready) :
        /\ Live(ready[k]) /\ batch' = [batch EXCEPT ![ready[k]] = Dispatched(batch[ready[k]])]
        /\ job' = [job EXCEPT ![w] = <<ready[k], Dispatchee(batch[ready[k]])>>]
  BY DEF Take
<1>3. PICK c \in Calls : c = ready[k]
  BY DEF IInv, Types
<1>4. PICK x : x = Dispatchee(batch[c])
  OBVIOUS
<1>5. /\ c \in batches /\ ~batch[c].cancelled /\ CanDispatch(c, batch[c])
      /\ batch'[c] = Dispatched(batch[c]) /\ job' = [job EXCEPT ![w] = <<c, x>>]
      /\ \A d \in Calls : d # c => batch'[d] = batch[d]
  BY <1>2, <1>3, <1>4 DEF Live, CanDispatch, IInv, Types
<1>6. PlacesOK(c) /\ SlotsOK(c) /\ EndsOK(c) /\ JobsOK /\ result \in [Calls -> Results]
  BY DEF Files, FileOK
<1>7. /\ batch[c] \in BatchType /\ batch[c].retry \in Seq(Nat) /\ batch[c].next \in Nat
      /\ batch[c].outstanding \in Int /\ Size[c] \in Nat
  BY Numbers DEF IInv
<1>8. /\ batch'[c].attempts = batch[c].attempts /\ batch'[c].pending = batch[c].pending
      /\ ~batch'[c].cancelled
  BY <1>5, <1>7, SlotFacts, DispatchedFacts, SMTT(20)
<1>9. job[w] = <<>>
  BY <1>1 DEF IInv, WorkersOK
<1>10. PICK P : P = Places(c)
  OBVIOUS
<1>11. PICK Q : Q = Places(c)'
  OBVIOUS
<1>12. Apart(P) /\ Located(c) = 0..(batch[c].next - 1)
       /\ Located(c) = Together(P)
  BY <1>5, <1>6, <1>10 DEF PlacesOK, Located
<1>13. /\ Apart(Q) /\ Together(Q) = 0..(batch'[c].next - 1) /\ JobsOK'
       /\ \A d \in Calls : d # c => Running(d)' = Running(d)
       /\ IsInjective(batch'[c].retry)
       /\ batch'[c].outstanding <= Limit[c] /\ batch'[c].outstanding >= batch[c].outstanding
       /\ batch'[c].outstanding \in Int
  <2>1. CASE batch[c].retry # <<>>
    <3>1. /\ x = Head(batch[c].retry) /\ batch'[c].retry = Tail(batch[c].retry)
          /\ batch'[c].next = batch[c].next /\ batch'[c].outstanding = batch[c].outstanding
      BY <1>4, <1>5, <1>7, <2>1 DEF Dispatchee, Dispatched, BatchType
    <3>2. /\ x \in ToSet(batch[c].retry) /\ IsInjective(batch'[c].retry)
          /\ ToSet(batch'[c].retry) = ToSet(batch[c].retry) \ {x}
      BY <1>6, <1>7, <2>1, <3>1, TailFacts DEF PlacesOK
    <3>3. x \in Items(c)
      BY <3>2, PlaceFacts
    <3>4. x \notin Running(c)
      <4>1. "retry" \in DOMAIN P /\ "running" \in DOMAIN P /\ P["retry"] = ToSet(batch[c].retry)
            /\ P["running"] = Running(c)
        BY <1>10 DEF Places
      <4> QED  BY <1>12, <3>2, <4>1 DEF Apart
    <3>5. /\ JobsOK' /\ Running(c)' = Running(c) \union {x}
          /\ \A d \in Calls : d # c => Running(d)' = Running(d)
      BY <1>5, <1>6, <1>9, <3>3, <3>4, RunningTaken DEF IInv
    <3>6. /\ DOMAIN Q = DOMAIN P /\ "retry" \in DOMAIN P /\ "running" \in DOMAIN P
          /\ x \in P["retry"] /\ Q["retry"] = P["retry"] \ {x}
          /\ Q["running"] = P["running"] \union {x}
          /\ \A n \in DOMAIN P : n # "retry" /\ n # "running" => Q[n] = P[n]
      <4>1. Held(c)' = Held(c)
        BY <1>1 DEF Held
      <4>2. /\ DOMAIN Q = DOMAIN P /\ "retry" \in DOMAIN P /\ "running" \in DOMAIN P
            /\ P["retry"] = ToSet(batch[c].retry) /\ Q["retry"] = ToSet(batch'[c].retry)
            /\ P["running"] = Running(c) /\ Q["running"] = Running(c)'
        BY <1>10, <1>11 DEF Places
      <4>3. \A n \in DOMAIN P : n # "retry" /\ n # "running" => Q[n] = P[n]
        BY <1>1, <1>10, <1>11, <4>1 DEF Places
      <4> QED  BY <3>2, <3>5, <4>2, <4>3
    <3>7. Apart(Q) /\ Together(Q) = Together(P)
      BY <1>12, <3>6, Moved
    <3>8. Together(Q) = 0..(batch'[c].next - 1)
      BY <1>12, <3>1, <3>7
    <3>9. /\ batch'[c].outstanding <= Limit[c] /\ batch'[c].outstanding >= batch[c].outstanding
          /\ batch'[c].outstanding \in Int
      BY <1>6, <1>7, <3>1 DEF SlotsOK
    <3> QED  BY <3>2, <3>5, <3>7, <3>8, <3>9
  <2>2. CASE batch[c].retry = <<>>
    <3>1. /\ x = batch[c].next /\ batch'[c].retry = batch[c].retry
          /\ batch'[c].next = batch[c].next + 1
          /\ batch'[c].outstanding = batch[c].outstanding + 1
      BY <1>4, <1>5, <1>7, <2>2, DispatchedFacts DEF Dispatchee
    <3>2. x < Size[c] /\ batch[c].outstanding < Limit[c]
      BY <1>5, <2>2, <3>1 DEF CanDispatch
    <3>3. x \in Items(c) /\ x \in Nat
      BY <1>7, <3>1, <3>2 DEF Items
    <3>4. x \notin Located(c)
      BY <1>12, <3>1, <3>3
    <3>5. x \notin Running(c)
      BY <3>4, PlaceFacts
    <3>6. /\ JobsOK' /\ Running(c)' = Running(c) \union {x}
          /\ \A d \in Calls : d # c => Running(d)' = Running(d)
      BY <1>5, <1>6, <1>9, <3>3, <3>5, RunningTaken DEF IInv
    <3>7. /\ DOMAIN Q = DOMAIN P /\ "running" \in DOMAIN P
          /\ Q["running"] = P["running"] \union {x}
          /\ \A n \in DOMAIN P : n # "running" => Q[n] = P[n]
      BY <1>1, <1>10, <1>11, <3>1, <3>6 DEF Places, Held
    <3>8. /\ Apart(Q)
          /\ Together(Q) = Together(P) \union {x}
      <4>1. \A n \in DOMAIN P : x \notin P[n]
        BY <1>12, <3>4 DEF Together
      <4>2. Apart(P)
        BY <1>12
      <4>3. Enters(P, Q, "running", x)
        BY <3>7, <4>1 DEF Enters
      <4> QED  BY <4>2, <4>3, Entered
    <3>9. 0..(x - 1) \union {x} = 0..(batch'[c].next - 1)
      <4>1. batch'[c].next - 1 = x
        BY <3>1, <3>3
      <4> QED  BY <3>3, <4>1
    <3>10. Together(Q) = 0..(batch'[c].next - 1)
      BY <1>12, <3>1, <3>8, <3>9
    <3>11. /\ batch'[c].outstanding <= Limit[c] /\ batch'[c].outstanding >= batch[c].outstanding
           /\ batch'[c].outstanding \in Int
      BY <1>7, <3>1, <3>2, Limits
    <3> QED  BY <1>6, <3>1, <3>6, <3>8, <3>10, <3>11 DEF PlacesOK
  <2> QED  BY <2>1, <2>2
<1>14. PlacesOK(c)'
  <2>1. Apart(Places(c))' /\ Located(c)' = 0..(batch'[c].next - 1)
    BY <1>11, <1>13 DEF Located
  <2> QED  BY <1>1, <1>6, <1>13, <2>1 DEF PlacesOK
<1>15. SlotsOK(c)'
  <2>1. InHand(c)' = InHand(c)
    BY <1>1 DEF InHand
  <2>2. /\ batch[c].pending = Len(events[c]) + InHand(c) /\ 0 <= batch[c].pending
        /\ batch[c].pending \in Int /\ Limit[c] \in Nat /\ callState[c] # "new"
        /\ batch[c].pending <= batch[c].outstanding
    BY <1>5, LiveSlots
  <2>3. /\ batch'[c].outstanding - Limit[c] <= batch[c].pending
        /\ batch[c].pending <= batch'[c].outstanding
    BY <1>7, <1>13, <2>2
  <2> QED  BY <1>1, <1>6, <1>8, <1>13, <2>1, <2>2, <2>3 DEF SlotsOK
<1>16. EndsOK(c)'
  BY <1>1, <1>6 DEF EndsOK
<1>17. ASSUME NEW d \in Calls, d # c  PROVE FileOK(d)'
  BY <1>1, <1>5, <1>13, <1>17, FileSame DEF Files, SameFile
<1> QED  BY <1>1, <1>6, <1>13, <1>14, <1>15, <1>16, <1>17 DEF Files, FileOK

\* Steps that touch nothing of a call but the queue and the batches' list.
LEMMA QuietFiles ==
  ASSUME IInv, Files, batches' \subseteq batches,
         UNCHANGED <<batch, timers, events, callState, holding, delivered, result, job>>
  PROVE  Files'
<1>1. JobsOK' /\ result' \in [Calls -> Results]
  BY DEF Files, JobsOK
<1>2. ASSUME NEW d \in Calls  PROVE FileOK(d)'
  <2>1. Running(d)' = Running(d)
    BY DEF Running
  <2> QED  BY <2>1, FileSame DEF Files, SameFile
<1> QED  BY <1>1, <1>2 DEF Files

LEMMA FinishFiles ==
  ASSUME IInv, Files, NEW w \in Workers, NEW retryable, Finish(w, retryable)
  PROVE  Files'
<1>1. /\ workerState[w] = "download" /\ job' = [job EXCEPT ![w] = <<>>]
      /\ UNCHANGED <<callState, holding, delivered, result>>
  BY DEF Finish, callVars
<1>a. job[w] # <<>> /\ job[w] \in Calls \X Nat /\ job[w][1] \in batches
  BY <1>1 DEF IInv, WorkersOK, Types
<1>2. PICK c \in batches, i \in Nat : c = job[w][1] /\ i = job[w][2] /\ job[w] = <<c, i>>
  BY <1>a
<1>3. c \in Calls /\ callState[c] # "new" /\ PlacesOK(c) /\ SlotsOK(c) /\ EndsOK(c)
      /\ JobsOK /\ result \in [Calls -> Results]
  BY DEF IInv, Types, CallOK, Files, FileOK
<1>4. /\ JobsOK' /\ i \in Running(c) /\ Running(c)' = Running(c) \ {i}
      /\ \A d \in Calls : d # c => Running(d)' = Running(d)
  BY <1>1, <1>2, <1>3, RunningGiven DEF IInv
<1>5. i \in Items(c)
  BY <1>3, <1>4, PlaceFacts
<1>6. PICK b : b = [batch[c] EXCEPT !.running = @ - 1]
  OBVIOUS
<1>7. /\ b \in BatchType /\ b.outstanding = batch[c].outstanding /\ b.pending = batch[c].pending
      /\ b.next = batch[c].next /\ b.retry = batch[c].retry /\ b.attempts = batch[c].attempts
      /\ b.cancelled = batch[c].cancelled
  BY <1>3, <1>6, Numbers, RunningLess DEF IInv, BatchType
<1>8. \/ /\ b.cancelled /\ batch' = [batch EXCEPT ![c] = b]
         /\ batches' \subseteq batches /\ UNCHANGED <<timers, events>>
      \/ /\ ~b.cancelled /\ b.attempts[i] < Retries
         /\ batch' = [batch EXCEPT ![c] = [b EXCEPT !.attempts[i] = @ + 1]]
         /\ timers' = [timers EXCEPT ![c] = @ \union {i}]
         /\ batches' = batches /\ events' = events
      \/ /\ ~b.cancelled /\ batch' = [batch EXCEPT ![c] = [b EXCEPT !.pending = @ + 1]]
         /\ events' = [events EXCEPT ![c] = Append(@, i)]
         /\ batches' = batches /\ timers' = timers
  BY <1>2, <1>6 DEF Finish, MayRetry, RemoveBatches, queueVars
<1>9. /\ batches' \subseteq batches
      /\ \A d \in Calls : d # c => /\ batch'[d] = batch[d] /\ timers'[d] = timers[d]
                                   /\ events'[d] = events[d]
  BY <1>8 DEF IInv, Types
<1>10. ASSUME NEW d \in Calls, d # c  PROVE FileOK(d)'
  BY <1>1, <1>4, <1>9, <1>10, FileSame DEF Files, SameFile
<1>11. EndsOK(c)'
  BY <1>1, <1>3 DEF EndsOK
<1>12. Held(c)' = Held(c) /\ InHand(c)' = InHand(c)
  BY <1>1 DEF Held, InHand
<1>13. DOMAIN batch = Calls /\ DOMAIN timers = Calls /\ DOMAIN events = Calls
  BY DEF IInv, Types
<1>14. PICK P : P = Places(c)
  OBVIOUS
<1>15. PICK Q : Q = Places(c)'
  OBVIOUS
<1>16. /\ Apart(P) /\ DOMAIN Q = DOMAIN P /\ "running" \in DOMAIN P /\ i \in P["running"]
       /\ "timers" \in DOMAIN P /\ "events" \in DOMAIN P
       /\ Q["running"] = P["running"] \ {i}
  BY <1>3, <1>4, <1>14, <1>15 DEF PlacesOK, Places
<1>17. PlacesOK(c)' /\ SlotsOK(c)'
  <2>1. CASE /\ b.cancelled /\ batch' = [batch EXCEPT ![c] = b]
             /\ batches' \subseteq batches /\ UNCHANGED <<timers, events>>
    <3>1. batch'[c] = b
      BY <1>3, <1>13, <2>1
    <3>2. \A n \in DOMAIN P : Q[n] \subseteq P[n]
      BY <1>1, <1>4, <1>7, <1>12, <1>14, <1>15, <2>1, <3>1 DEF Places
    <3>3. Apart(Q) /\ Together(Q) \subseteq Together(P)
      BY <1>16, <3>2, DroppedFrom
    <3>4. PlacesOK(c)'
      BY <1>1, <1>3, <1>7, <1>14, <1>15, <2>1, <3>1, <3>3 DEF PlacesOK, Located
    <3>5. SlotsOK(c)'
      BY <1>1, <1>3, <1>7, <1>12, <2>1, <3>1 DEF SlotsOK
    <3> QED  BY <3>4, <3>5
  <2>2. CASE /\ ~b.cancelled /\ b.attempts[i] < Retries
             /\ batch' = [batch EXCEPT ![c] = [b EXCEPT !.attempts[i] = @ + 1]]
             /\ timers' = [timers EXCEPT ![c] = @ \union {i}]
             /\ batches' = batches /\ events' = events
    <3>1. /\ batch'[c] = [b EXCEPT !.attempts[i] = @ + 1] /\ timers'[c] = timers[c] \union {i}
      BY <1>3, <1>13, <2>2
    <3>2. /\ batch'[c].outstanding = b.outstanding /\ batch'[c].pending = b.pending
          /\ batch'[c].next = b.next /\ batch'[c].retry = b.retry
          /\ batch'[c].cancelled = b.cancelled
          /\ batch'[c].attempts = [b.attempts EXCEPT ![i] = @ + 1]
      BY <1>7, <3>1 DEF BatchType
    <3>3. /\ Q["timers"] = P["timers"] \union {i}
          /\ \A n \in DOMAIN P : n # "running" /\ n # "timers" => Q[n] = P[n]
      BY <1>1, <1>7, <1>12, <1>14, <1>15, <2>2, <3>1, <3>2 DEF Places
    <3>4. Apart(Q) /\ Together(Q) = Together(P)
      BY <1>16, <3>3, Moved
    <3>5. PlacesOK(c)'
      BY <1>1, <1>3, <1>7, <1>14, <1>15, <2>2, <3>2, <3>4 DEF PlacesOK, Located
    <3>6. batch'[c].attempts \in [Items(c) -> 0..Retries]
      <4>1. batch[c].attempts \in [Items(c) -> 0..Retries] /\ Retries \in Nat
        BY <1>3, Limits DEF SlotsOK
      <4>2. b.attempts[i] + 1 \in 0..Retries
        BY <1>5, <1>7, <2>2, <4>1
      <4> HIDE DEF Items
      <4> QED  BY <1>7, <3>2, <4>1, <4>2, ZenonT(30)
    <3>7. SlotsOK(c)'
      BY <1>1, <1>3, <1>7, <1>12, <2>2, <3>2, <3>6 DEF SlotsOK
    <3> QED  BY <3>5, <3>7
  <2>3. CASE /\ ~b.cancelled /\ batch' = [batch EXCEPT ![c] = [b EXCEPT !.pending = @ + 1]]
             /\ events' = [events EXCEPT ![c] = Append(@, i)]
             /\ batches' = batches /\ timers' = timers
    <3>1. batch'[c] = [b EXCEPT !.pending = @ + 1] /\ events'[c] = Append(events[c], i)
      BY <1>3, <1>13, <2>3
    <3>2. /\ batch'[c].outstanding = b.outstanding /\ batch'[c].pending = b.pending + 1
          /\ batch'[c].next = b.next /\ batch'[c].retry = b.retry
          /\ batch'[c].cancelled = b.cancelled /\ batch'[c].attempts = b.attempts
      BY <1>7, <3>1 DEF BatchType
    <3>3. events[c] \in Seq(Nat) /\ Len(events[c]) \in Nat
      BY <1>3 DEF IInv, Types
    <3>4. i \notin ToSet(events[c])
      <4>1. P["running"] \cap P["events"] = {} /\ P["events"] = ToSet(events[c])
        BY <1>14, <1>16 DEF Apart, Places
      <4> QED  BY <1>16, <4>1
    <3>5. /\ IsInjective(events'[c]) /\ ToSet(events'[c]) = ToSet(events[c]) \union {i}
          /\ Len(events'[c]) = Len(events[c]) + 1
      BY <1>3, <3>1, <3>3, <3>4, AppendFacts DEF PlacesOK
    <3>6. /\ Q["events"] = P["events"] \union {i}
          /\ \A n \in DOMAIN P : n # "running" /\ n # "events" => Q[n] = P[n]
      BY <1>1, <1>7, <1>12, <1>14, <1>15, <2>3, <3>2, <3>5 DEF Places
    <3>7. Apart(Q) /\ Together(Q) = Together(P)
      BY <1>16, <3>6, Moved
    <3>8. PlacesOK(c)'
      BY <1>1, <1>3, <1>7, <1>14, <1>15, <2>3, <3>2, <3>5, <3>7 DEF PlacesOK, Located
    <3>9. /\ batch[c].pending = Len(events[c]) + InHand(c) /\ batch[c].pending \in Int
          /\ batch[c].outstanding \in Int /\ InHand(c) \in Nat /\ Limit[c] \in Nat
      BY <1>3, <1>7, <2>3, LiveSlots, Numbers DEF IInv
    <3>10. Len(events[c]) + InHand(c) + 1 <= batch[c].outstanding
      <4>1. Waits(c) >= Len(events[c]) + InHand(c) /\ Waits(c) \in Nat
        BY <1>3, Numbers, SMTT(20) DEF IInv, Waits
      <4>2. RunBy(c) # {}
        BY <1>a, <1>2 DEF RunBy
      <4>3. batch[c].running >= 1 /\ batch[c].running \in Nat
        BY <1>3, <4>2, RunByFinite, FS_EmptySet DEF IInv, BookOK
      <4>4. batch[c].running + Waits(c) <= batch[c].outstanding
        BY <1>3 DEF IInv, BookOK
      <4> HIDE DEF Waits
      <4> QED  BY <3>3, <3>9, <4>1, <4>3, <4>4, SMTT(20)
    <3>11. /\ batch'[c].outstanding - Limit[c] <= batch'[c].pending
           /\ batch'[c].pending <= batch'[c].outstanding
           /\ batch'[c].pending = Len(events'[c]) + InHand(c)'
      BY <1>3, <1>7, <1>12, <3>2, <3>3, <3>5, <3>9, <3>10 DEF SlotsOK
    <3>12. SlotsOK(c)'
      BY <1>1, <1>3, <1>7, <3>2, <3>11 DEF SlotsOK
    <3> QED  BY <3>8, <3>12
  <2> QED  BY <1>8, <2>1, <2>2, <2>3
<1> QED  BY <1>1, <1>3, <1>4, <1>10, <1>11, <1>17 DEF Files, FileOK

LEMMA RetryReadyFiles ==
  ASSUME IInv, Files, NEW c \in Calls, NEW i, RetryReady(c, i)
  PROVE  Files'
<1>1. /\ i \in timers[c] /\ timers' = [timers EXCEPT ![c] = @ \ {i}]
      /\ UNCHANGED <<batches, events, callState, holding, delivered, result, job>>
  BY DEF RetryReady, callVars
<1>2. /\ timers'[c] = timers[c] \ {i} /\ i \in Nat /\ DOMAIN batch = Calls
      /\ \A d \in Calls : d # c => timers'[d] = timers[d]
  BY <1>1 DEF IInv, Types
<1>3. PlacesOK(c) /\ SlotsOK(c) /\ EndsOK(c) /\ JobsOK /\ result \in [Calls -> Results]
  BY DEF Files, FileOK
<1>4. JobsOK' /\ \A d \in Calls : Running(d)' = Running(d)
  BY <1>1, <1>3 DEF JobsOK, Running
<1>5. EndsOK(c)'
  BY <1>1, <1>3 DEF EndsOK
<1>6. Held(c)' = Held(c) /\ InHand(c)' = InHand(c)
  BY <1>1 DEF Held, InHand
<1>7. PICK P : P = Places(c)
  OBVIOUS
<1>8. PICK Q : Q = Places(c)'
  OBVIOUS
<1>9. /\ Apart(P) /\ DOMAIN Q = DOMAIN P /\ "timers" \in DOMAIN P /\ i \in P["timers"]
      /\ "retry" \in DOMAIN P /\ Q["timers"] = P["timers"] \ {i}
      /\ P["retry"] = ToSet(batch[c].retry) /\ Q["retry"] = ToSet(batch'[c].retry)
  BY <1>1, <1>2, <1>3, <1>7, <1>8 DEF PlacesOK, Places
<1>10. /\ \A d \in Calls : d # c => batch'[d] = batch[d]
       /\ PlacesOK(c)' /\ SlotsOK(c)'
  <2>1. CASE c \in batches /\ ~batch[c].cancelled
    <3>1. batch' = [batch EXCEPT ![c] = [batch[c] EXCEPT !.retry = Append(@, i)]]
      BY <2>1 DEF RetryReady
    <3>2. batch'[c] = [batch[c] EXCEPT !.retry = Append(@, i)]
      BY <1>2, <3>1
    <3>3. batch[c] \in BatchType /\ batch[c].retry \in Seq(Nat)
      BY Numbers DEF IInv
    <3>4. /\ batch'[c].outstanding = batch[c].outstanding /\ batch'[c].pending = batch[c].pending
          /\ batch'[c].next = batch[c].next /\ batch'[c].retry = Append(batch[c].retry, i)
          /\ batch'[c].cancelled = batch[c].cancelled /\ batch'[c].attempts = batch[c].attempts
      BY <3>2, <3>3 DEF BatchType
    <3>5. i \notin ToSet(batch[c].retry)
      BY <1>9 DEF Apart
    <3>6. /\ IsInjective(batch'[c].retry)
          /\ ToSet(batch'[c].retry) = ToSet(batch[c].retry) \union {i}
      BY <1>2, <1>3, <3>3, <3>4, <3>5, AppendFacts DEF PlacesOK
    <3>7. /\ Q["retry"] = P["retry"] \union {i}
          /\ \A n \in DOMAIN P : n # "timers" /\ n # "retry" => Q[n] = P[n]
      <4>1. \A n \in DOMAIN P : n # "timers" /\ n # "retry" => Q[n] = P[n]
        BY <1>1, <1>4, <1>6, <1>7, <1>8 DEF Places
      <4> QED  BY <1>9, <3>6, <4>1
    <3>8. Apart(Q) /\ Together(Q) = Together(P)
      BY <1>9, <3>7, Moved
    <3>9. PlacesOK(c)'
      BY <1>1, <1>3, <1>7, <1>8, <3>4, <3>6, <3>8 DEF PlacesOK, Located
    <3>10. callState[c] # "new"
      BY <2>1 DEF IInv, CallOK
    <3>11. SlotsOK(c)'
      BY <1>1, <1>3, <1>6, <3>4, <3>10 DEF SlotsOK
    <3> QED  BY <3>1, <3>9, <3>11
  <2>2. CASE ~(c \in batches /\ ~batch[c].cancelled)
    <3>1. batch' = batch
      BY <2>2 DEF RetryReady
    <3>2. \A n \in DOMAIN P : Q[n] \subseteq P[n]
      BY <1>1, <1>2, <1>4, <1>6, <1>7, <1>8, <3>1 DEF Places
    <3>3. Apart(Q) /\ Together(Q) \subseteq Together(P)
      BY <1>9, <3>2, DroppedFrom
    <3>4. PlacesOK(c)'
      BY <1>1, <1>3, <1>7, <1>8, <2>2, <3>1, <3>3 DEF PlacesOK, Located
    <3>5. SlotsOK(c)'
      BY <1>1, <1>3, <3>1, SlotsSame
    <3> QED  BY <3>1, <3>4, <3>5
  <2> QED  BY <2>1, <2>2
<1>11. ASSUME NEW d \in Calls, d # c  PROVE FileOK(d)'
  BY <1>1, <1>2, <1>4, <1>10, <1>11, FileSame DEF Files, SameFile
<1> QED  BY <1>1, <1>3, <1>4, <1>5, <1>10, <1>11 DEF Files, FileOK

LEMMA CancelAllFiles ==
  ASSUME IInv, Files, CancelAll
  PROVE  Files'
<1>1. /\ batch' = [c \in Calls |-> IF c \in batches THEN Cancelled(batch[c]) ELSE batch[c]]
      /\ batches' \subseteq batches
      /\ UNCHANGED <<timers, events, callState, holding, delivered, result, job>>
  BY DEF CancelAll, callVars, workerVars
<1>2. JobsOK' /\ result' \in [Calls -> Results]
  BY <1>1 DEF Files, JobsOK
<1>3. ASSUME NEW d \in Calls  PROVE FileOK(d)'
  <2>1. PlacesOK(d) /\ SlotsOK(d) /\ EndsOK(d)
    BY DEF Files, FileOK
  <2>2. Running(d)' = Running(d)
    BY <1>1 DEF Running
  <2>3. CASE d \in batches
    <3>1. batch'[d] = Cancelled(batch[d]) /\ callState[d] # "new"
      BY <1>1, <2>3 DEF IInv, CallOK
    <3>2. PlacesOK(d)' /\ SlotsOK(d)'
      BY <1>1, <2>1, <2>2, <3>1, CancelledFile
    <3>3. EndsOK(d)'
      BY <1>1, <2>1, EndsSame
    <3> QED  BY <3>2, <3>3 DEF FileOK
  <2>4. CASE d \notin batches
    <3>1. batch'[d] = batch[d]
      BY <1>1, <2>4
    <3>2. SameFile(d)
      BY <1>1, <2>2, <3>1 DEF SameFile
    <3>3. FileOK(d)
      BY DEF Files
    <3> QED  BY <3>2, <3>3, FileSame
  <2> QED  BY <2>3, <2>4
<1> QED  BY <1>2, <1>3 DEF Files

LEMMA StepFiles == IInv /\ Files /\ [Next]_vars => Files'
<1> SUFFICES ASSUME IInv, Files, [Next]_vars  PROVE Files'
  OBVIOUS
<1>1. ASSUME NEW c \in Calls, CallNext(c)  PROVE Files'
  BY <1>1, MoveOnFiles, GetEventFiles, RegisterFiles, ConsumeFiles, CancelFiles DEF CallNext
<1>2. ASSUME NEW c \in Calls, NEW i \in Items(c), RetryReady(c, i)  PROVE Files'
  BY <1>2, RetryReadyFiles
<1>3. ASSUME NEW w \in Workers, WorkerNext(w)  PROVE Files'
  <2>1. CASE Take(w)
    BY <2>1, TakeFiles
  <2>2. CASE Idle(w)
    BY <2>2, QuietFiles DEF Idle, callVars
  <2>3. CASE \E retryable \in BOOLEAN : Finish(w, retryable)
    BY <2>3, FinishFiles
  <2> QED  BY <1>3, <2>1, <2>2, <2>3 DEF WorkerNext
<1>4. CASE CancelAll
  BY <1>4, CancelAllFiles
<1>5. CASE AllGone \/ Shutdown \/ Joined \/ UNCHANGED vars
  <2>1. UNCHANGED <<batch, batches, timers, events, callState, holding, delivered, result, job>>
    BY <1>5 DEF AllGone, Shutdown, Joined, vars, queueVars, callVars, workerVars, closeVars
  <2> QED  BY <2>1, QuietFiles
<1> QED  BY <1>1, <1>2, <1>3, <1>4, <1>5 DEF Next, Terminated

LEMMA UnionBound ==
  ASSUME NEW S, IsFiniteSet(S), NEW T, IsFiniteSet(T)
  PROVE  /\ IsFiniteSet(S \union T) /\ Cardinality(S \union T) \in Nat
         /\ Cardinality(S \union T) <= Cardinality(S) + Cardinality(T)
<1>1. IsFiniteSet(S \cap T) /\ IsFiniteSet(S \union T)
  BY FS_Intersection, FS_Union
<1>2. /\ Cardinality(S) \in Nat /\ Cardinality(T) \in Nat /\ Cardinality(S \cap T) \in Nat
      /\ Cardinality(S \union T) \in Nat
  BY <1>1, FS_CardinalityType
<1>3. Cardinality(S \union T) = Cardinality(S) + Cardinality(T) - Cardinality(S \cap T)
  BY FS_Union
<1> QED  BY <1>1, <1>2, <1>3

\* What Files says of the sizes of the places.
LEMMA PlacesAreFew ==
  ASSUME IInv, Files, NEW c \in Calls
  PROVE  Cardinality(Waiting(c) \union Running(c)) <= Limit[c]
<1>1. /\ IsFiniteSet(ToSet(batch[c].retry)) /\ Cardinality(ToSet(batch[c].retry)) <= Len(batch[c].retry)
      /\ IsFiniteSet(ToSet(events[c])) /\ Cardinality(ToSet(events[c])) <= Len(events[c])
      /\ IsFiniteSet(timers[c]) /\ IsFiniteSet(Held(c)) /\ Cardinality(Held(c)) = InHand(c)
  BY SetOfSequence, Numbers, HeldFacts DEF IInv, Types
<1>2. IsFiniteSet(Running(c)) /\ Cardinality(Running(c)) <= Cardinality(RunBy(c))
  <2> DEFINE f == [w \in RunBy(c) |-> job[w][2]]
  <2>1. \A w \in RunBy(c) : job[w] \in Calls \X Nat /\ job[w] = <<c, job[w][2]>>
    BY DEF IInv, Types, RunBy
  <2>2. \A w \in RunBy(c) : job[w][2] \in Running(c)
    BY <2>1 DEF RunBy, Running, Files, JobsOK
  <2>3. \A i \in Running(c) : \E w \in RunBy(c) : job[w][2] = i
    BY DEF RunBy, Running
  <2>4. f \in Surjection(RunBy(c), Running(c))
    BY <2>2, <2>3 DEF Surjection
  <2> QED  BY <2>4, RunByFinite, FS_Surjection
<1>4. PICK A : A = ToSet(batch[c].retry) \union timers[c]
  OBVIOUS
<1>5. PICK B : B = A \union ToSet(events[c])
  OBVIOUS
<1>6. PICK C : C = B \union Held(c)
  OBVIOUS
<1>7. Waiting(c) = C
  BY <1>4, <1>5, <1>6 DEF Waiting
<1>8. /\ IsFiniteSet(A) /\ Cardinality(A) \in Nat
      /\ Cardinality(A) <= Cardinality(ToSet(batch[c].retry)) + Cardinality(timers[c])
  BY <1>1, <1>4, UnionBound
<1>9. /\ IsFiniteSet(B) /\ Cardinality(B) \in Nat
      /\ Cardinality(B) <= Cardinality(A) + Cardinality(ToSet(events[c]))
  BY <1>1, <1>5, <1>8, UnionBound
<1>10. /\ IsFiniteSet(C) /\ Cardinality(C) \in Nat
       /\ Cardinality(C) <= Cardinality(B) + Cardinality(Held(c))
  BY <1>1, <1>6, <1>9, UnionBound
<1>11. /\ Cardinality(C \union Running(c)) <= Cardinality(C) + Cardinality(Running(c))
       /\ Cardinality(C \union Running(c)) \in Nat
  BY <1>2, <1>10, UnionBound
<1>12. PICK r, t, e, h \in Nat :
         /\ r = Len(batch[c].retry) /\ t = Cardinality(timers[c])
         /\ e = Len(events[c]) /\ h = InHand(c) /\ Waits(c) = r + t + e + h
  BY WaitsParts DEF IInv
<1>13. PICK k, l, m, n \in Nat :
         /\ k = Cardinality(ToSet(batch[c].retry)) /\ l = Cardinality(ToSet(events[c]))
         /\ m = Cardinality(Running(c)) /\ n = Cardinality(RunBy(c))
         /\ k <= r /\ l <= e /\ m <= n
  BY <1>1, <1>2, <1>12, FS_CardinalityType, RunByFinite
<1>14. Cardinality(C) <= r + t + e + h
  <2>1. PICK a \in Nat : a = Cardinality(A)
    BY <1>8
  <2>2. PICK p \in Nat : p = Cardinality(B)
    BY <1>9
  <2>3. PICK q \in Nat : q = Cardinality(C)
    BY <1>10
  <2>4. a <= k + t
    BY <1>8, <1>12, <1>13, <2>1
  <2>5. p <= a + l
    BY <1>9, <1>13, <2>1, <2>2
  <2>6. q <= p + h
    BY <1>1, <1>10, <1>12, <2>2, <2>3
  <2>7. k <= r /\ l <= e
    BY <1>13
  <2>8. q <= r + t + e + h
    BY <2>4, <2>5, <2>6, <2>7
  <2> QED  BY <2>3, <2>8
<1>15. /\ n + (r + t + e + h) <= batch[c].outstanding /\ batch[c].outstanding <= Limit[c]
       /\ batch[c].outstanding \in Int /\ Limit[c] \in Nat
  BY <1>12, <1>13, Numbers, Limits DEF IInv, BookOK, Files, FileOK, SlotsOK
<1>16. Cardinality(C \union Running(c)) <= n + (r + t + e + h)
  <2> DEFINE u == r + t + e + h
  <2>1. u \in Nat
    OBVIOUS
  <2>2. Cardinality(C) <= u
    BY <1>14
  <2> HIDE DEF u
  <2>3. Cardinality(C \union Running(c)) <= n + u
    BY <1>10, <1>11, <1>13, <2>1, <2>2
  <2> QED  BY <2>3 DEF u
<1>17. Cardinality(C \union Running(c)) <= Limit[c]
  BY <1>11, <1>15, <1>16
<1> QED  BY <1>7, <1>17

LEMMA SequenceOf ==
  ASSUME NEW S, NEW T, NEW s \in Seq(S), ToSet(s) \subseteq T
  PROVE  s \in Seq(T)
<1>1. s \in [1..Len(s) -> S] /\ Len(s) \in Nat /\ \A i \in 1..Len(s) : s[i] \in T
  BY DEF ToSet
<1> QED  BY <1>1

LEMMA TypesOfCall ==
  ASSUME IInv, Files, NEW c \in Calls
  PROVE  /\ batch[c].next \in 0..Size[c] /\ batch[c].outstanding \in 0..Limit[c]
         /\ batch[c].running \in 0..Limit[c] /\ batch[c].consumed \in 0..Size[c]
         /\ batch[c].pending \in -Limit[c]..Limit[c] /\ batch[c].cancelled \in BOOLEAN
         /\ batch[c].retry \in Seq(Items(c)) /\ batch[c].attempts \in [Items(c) -> 0..Retries]
         /\ timers[c] \subseteq Items(c) /\ events[c] \in Seq(Items(c))
         /\ holding[c] \in Items(c) \union {None} /\ delivered[c] \in Seq(Items(c))
         /\ callState[c] \in {"new", "wait", "consume", "callback", "cancel", "ended"}
         /\ result[c] \in {"none", "complete", "raised", "refused"}
<1>1. /\ batch[c] \in BatchType /\ Waits(c) \in Nat /\ Limit[c] \in Nat /\ Size[c] \in Nat
      /\ batch[c].next \in Nat /\ batch[c].consumed \in Nat /\ batch[c].outstanding \in Int
      /\ batch[c].running \in Nat /\ batch[c].pending \in Int /\ batch[c].cancelled \in BOOLEAN
  <2>1. batch[c].running = Cardinality(RunBy(c)) /\ Cardinality(RunBy(c)) \in Nat
    BY RunByFinite DEF IInv, BookOK
  <2>2. batch[c] \in BatchType
    BY Numbers DEF IInv
  <2> QED  BY <2>1, <2>2, Numbers, Limits DEF IInv, BatchType
<1>2. /\ batch[c].running + Waits(c) <= batch[c].outstanding
      /\ batch[c].next = batch[c].consumed + batch[c].outstanding
      /\ batch[c].next <= Size[c]
  BY DEF IInv, BookOK
<1>3. /\ batch[c].outstanding <= Limit[c] /\ batch[c].pending <= batch[c].outstanding
      /\ batch[c].outstanding - Limit[c] <= batch[c].pending
      /\ batch[c].attempts \in [Items(c) -> 0..Retries]
  BY DEF Files, FileOK, SlotsOK
<1>4. /\ batch[c].next \in 0..Size[c] /\ batch[c].outstanding \in 0..Limit[c]
      /\ batch[c].running \in 0..Limit[c] /\ batch[c].consumed \in 0..Size[c]
      /\ batch[c].pending \in -Limit[c]..Limit[c]
  <2> HIDE DEF Waits
  <2> QED  BY <1>1, <1>2, <1>3
<1>5. /\ ToSet(batch[c].retry) \subseteq Items(c) /\ timers[c] \subseteq Items(c)
      /\ ToSet(events[c]) \subseteq Items(c) /\ Held(c) \subseteq Items(c)
      /\ ToSet(delivered[c]) \subseteq Items(c)
  BY PlaceFacts
<1>6. /\ batch[c].retry \in Seq(Nat) /\ events[c] \in Seq(Nat) /\ delivered[c] \in Seq(Nat)
  BY Numbers DEF IInv, Types
<1>7. /\ batch[c].retry \in Seq(Items(c)) /\ events[c] \in Seq(Items(c))
      /\ delivered[c] \in Seq(Items(c))
  BY <1>5, <1>6, SequenceOf
<1>8. holding[c] \in Items(c) \union {None}
  BY <1>5 DEF Held
<1>9. /\ callState[c] \in {"new", "wait", "consume", "callback", "cancel", "ended"}
      /\ result[c] \in {"none", "complete", "raised", "refused"}
  BY DEF IInv, Types, Files, Results
<1> QED  BY <1>1, <1>3, <1>4, <1>5, <1>7, <1>8, <1>9

LEMMA CompleteCall ==
  ASSUME IInv, Files, NEW c \in Calls, result[c] = "complete"
  PROVE  /\ ToSet(delivered[c]) = Items(c)
         /\ c \notin batches /\ Waiting(c) = {} /\ Running(c) = {}
<1>1. /\ delivered[c] \in Seq(Nat) /\ Len(delivered[c]) \in Nat /\ Size[c] \in Nat
      /\ Len(delivered[c]) >= Size[c] /\ IsInjective(delivered[c]) /\ Apart(Places(c))
  BY Numbers DEF IInv, Types, Files, FileOK, EndsOK, PlacesOK
<1>2. ToSet(delivered[c]) \subseteq Items(c) /\ Cardinality(ToSet(delivered[c])) = Len(delivered[c])
  BY <1>1, PlaceFacts, SetOfSequence
<1>3. IsFiniteSet(Items(c)) /\ Cardinality(Items(c)) = Size[c]
  <2>1. 0 \in Int /\ Size[c] - 1 \in Int
    BY <1>1
  <2>2. IsFiniteSet(0..(Size[c] - 1))
        /\ Cardinality(0..(Size[c] - 1)) = IF 0 > Size[c] - 1 THEN 0 ELSE Size[c] - 1 - 0 + 1
    BY <2>1, FS_Interval
  <2>3. (IF 0 > Size[c] - 1 THEN 0 ELSE Size[c] - 1 - 0 + 1) = Size[c]
    BY <1>1
  <2> QED  BY <2>2, <2>3 DEF Items
<1>4. ToSet(delivered[c]) = Items(c)
  <2>1. /\ Cardinality(ToSet(delivered[c])) <= Cardinality(Items(c))
        /\ Cardinality(Items(c)) = Cardinality(ToSet(delivered[c])) => Items(c) = ToSet(delivered[c])
    BY <1>2, <1>3, FS_Subset
  <2> QED  BY <1>1, <1>2, <1>3, <2>1
<1>5. c \notin batches
  BY <1>1 DEF IInv, CallOK
<1>6. ASSUME NEW n \in DOMAIN Places(c), n # "delivered"  PROVE Places(c)[n] = {}
  <2>1. "delivered" \in DOMAIN Places(c) /\ Places(c)["delivered"] = ToSet(delivered[c])
    BY DEF Places
  <2>2. Places(c)[n] \subseteq Located(c)
    BY DEF Located, Together
  <2>3. Places(c)[n] \cap ToSet(delivered[c]) = {}
    BY <1>1, <1>6, <2>1 DEF Apart
  <2>4. Located(c) \subseteq Items(c)
    BY PlaceFacts
  <2> QED  BY <1>4, <2>2, <2>3, <2>4
<1>7. /\ ToSet(batch[c].retry) = {} /\ timers[c] = {} /\ Running(c) = {}
      /\ ToSet(events[c]) = {} /\ Held(c) = {}
  BY <1>6 DEF Places
<1> QED  BY <1>4, <1>5, <1>7 DEF Waiting

\* From its start to its result a file is in one place of its call, the window
\* and the number of retries hold, and a call that returns has one result for
\* each of its files, for any number of calls, files, workers and retries
\* (_take_work, _worker, _retry_ready, _consume_result, _download).
THEOREM FilesStayAccounted == Spec => []FilesAccounted
<1>1. Spec => [](IInv /\ Files)
  <2>1. Init => IInv /\ Files
    BY InitOK, InitFiles
  <2>2. IInv /\ Files /\ [Next]_vars => (IInv /\ Files)'
    BY StepOK, StepFiles
  <2> QED  BY <2>1, <2>2, PTL DEF Spec
<1>2. IInv /\ Files => FilesAccounted
  <2> SUFFICES ASSUME IInv, Files  PROVE FilesAccounted
    OBVIOUS
  <2>1. TypeOK
    <3>1. /\ batches \subseteq Calls /\ ready \in Seq(Calls) /\ readyIds \subseteq Calls
          /\ workerState \in [Workers -> {"take", "download", "exited"}]
          /\ sleeping \subseteq Workers
          /\ closer \in {"open", "cancelled", "shutdown", "closed"} /\ closing \in BOOLEAN
      BY DEF IInv, Types
    <3>2. ASSUME NEW w \in Workers, job[w] # <<>>
          PROVE  \E c \in Calls : job[w] \in {c} \X Items(c)
      <4>1. job[w] \in Calls \X Nat /\ job[w][2] \in Items(job[w][1])
        BY <3>2 DEF IInv, Types, Files, JobsOK
      <4> QED  BY <4>1
    <3> QED  BY <3>1, <3>2, TypesOfCall DEF TypeOK
  <2>2. ItemsAccounted
    <3> SUFFICES ASSUME NEW c \in batches, ~batch[c].cancelled
                 PROVE  LET b == batch[c] IN
                   /\ IsInjective(b.retry) /\ IsInjective(events[c]) /\ IsInjective(delivered[c])
                   /\ \A v, w \in Workers : job[v] = job[w] /\ job[v] # <<>> => v = w
                   /\ Apart(Places(c)) /\ Located(c) = 0..(b.next - 1)
                   /\ Cardinality(Waiting(c) \union Running(c)) <= Limit[c]
                   /\ b.outstanding = b.next - Len(delivered[c])
                   /\ b.consumed = Len(delivered[c])
                   /\ b.running = Cardinality({w \in Workers : job[w] # <<>> /\ job[w][1] = c})
                   /\ b.pending = Len(events[c]) + Cardinality(Held(c))
      BY DEF ItemsAccounted
    <3>1. c \in Calls /\ batch[c].pending = Len(events[c]) + Cardinality(Held(c))
      BY LiveSlots, HeldFacts
    <3>2. PlacesOK(c) /\ \A v, w \in Workers : job[v] = job[w] /\ job[v] # <<>> => v = w
      BY <3>1 DEF Files, FileOK, JobsOK
    <3>3. Located(c) = 0..(batch[c].next - 1)
      BY <3>2 DEF PlacesOK
    <3>4. /\ batch[c].consumed = Len(delivered[c])
          /\ batch[c].next = batch[c].consumed + batch[c].outstanding
          /\ batch[c].running = Cardinality(RunBy(c))
      BY <3>1 DEF IInv, BookOK, CallOK
    <3>5. batch[c].outstanding = batch[c].next - Len(delivered[c])
      BY <3>1, <3>4, Numbers DEF IInv
    <3>6. Cardinality(Waiting(c) \union Running(c)) <= Limit[c]
      BY <3>1, PlacesAreFew
    <3> QED  BY <3>1, <3>2, <3>3, <3>4, <3>5, <3>6 DEF PlacesOK, RunBy
  <2>3. CompleteCalls
    BY CompleteCall DEF CompleteCalls, Files, FileOK, PlacesOK
  <2> QED  BY <2>1, <2>2, <2>3 DEF FilesAccounted
<1> QED  BY <1>1, <1>2, PTL
=============================================================================
