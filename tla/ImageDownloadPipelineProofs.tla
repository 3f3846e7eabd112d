--------------------- MODULE ImageDownloadPipelineProofs ---------------------
(***************************************************************************)
(* What the image pipelines promise, for any threads, tasks, attachments,  *)
(* limits and faults: a success is in the index, the pending work is       *)
(* bounded, nobody waits while he owns a claim, tasks are reported once    *)
(* and in the order of the downloads, and the batching, draining and       *)
(* aborting of the pipelines implement SharedDownloads.                    *)
(*                                                                         *)
(* The argument follows a task: from the claim to the release it is in     *)
(* exactly one place of its pipeline, and it leaves the last of them in    *)
(* the step that closes its claim.                                         *)
(***************************************************************************)
EXTENDS MCImageDownloadPipeline, FiniteSetTheorems, SequenceTheorems, TLAPS

In(x, s) == \E i \in 1..Len(s) : s[i] = x
Once(s) == \A i, j \in 1..Len(s) : s[i] = s[j] => i = j

\* Task t is an item of one of the batches B.
InBatches(t, B) == \E i \in 1..Len(B) : In(t, B[i].items)

\* The batches are not empty and share no item.
BatchesApart(B) ==
  /\ \A i \in 1..Len(B) : B[i].items # <<>> /\ Once(B[i].items)
  /\ \A i, j \in 1..Len(B) : \A t \in Tasks :
       In(t, B[i].items) /\ In(t, B[j].items) => i = j

\* The places of a pipeline: P are the owned tasks that are not stored, S wait
\* for the store, R for a batch, B are the batches and w is owed a release.
Places(t, P, S, R, B, w) ==
  t \in P \/ In(t, S) \/ In(t, R) \/ InBatches(t, B) \/ t = w

\* A task is in one place at most, and there once.
PlacesApart(P, S, R, B, w) ==
  /\ Once(S) /\ Once(R) /\ BatchesApart(B)
  /\ \A t \in Tasks :
       /\ t \in P => ~In(t, S) /\ ~In(t, R) /\ ~InBatches(t, B) /\ t # w
       /\ In(t, S) => ~In(t, R) /\ ~InBatches(t, B) /\ t # w
       /\ In(t, R) => ~InBatches(t, B) /\ t # w
       /\ InBatches(t, B) => t # w

Holds(p, t) == Places(t, pending[p], storeQueue[p], results[p], batches[p], owed[p])

\* What a pipeline holds is its own, and its claim is open.
HeldOK(p) ==
  /\ PlacesApart(pending[p], storeQueue[p], results[p], batches[p], owed[p])
  /\ \A t \in Tasks : Holds(p, t) => t[1] = p /\ claim[t] = "open"

\* What was reported is what the claim says; waiters are reported last.
EmittedOK(p) ==
  \A i \in 1..Len(emitted[p]) :
    LET t == emitted[p][i][1] IN
    /\ t[1] = p
    /\ waitsOn[t] = None => claim[t] = emitted[p][i][2]
    /\ waitsOn[t] # None =>
         /\ claim[waitsOn[t]] = emitted[p][i][2]
         /\ pc[p] \in {"waiters", "done", "raised"}
         /\ pc[p] = "waiters" => t[2] < cursor[p]

\* The items of a batch are rows of its future; a future that is pending has the
\* rows of a batch that nobody has begun to release.
BatchesOK(p) ==
  /\ \A i \in 1..Len(batches[p]) :
       /\ future[batches[p][i].id] # "none"
       /\ \A t \in Tasks : In(t, batches[p][i].items) => t \in rows[batches[p][i].id]
  /\ \A r \in Tasks : future[r] = "pending" =>
       \A t \in rows[r] : t[1] = p =>
         \E i \in 1..Len(batches[p]) : batches[p][i].id = r /\ In(t, batches[p][i].items)

Drained(p) ==
  storeQueue[p] = <<>> /\ results[p] = <<>> /\ batches[p] = <<>> /\ owed[p] = None

\* Where a pipeline is, and what is left to do there.
FlowOK(p) ==
  /\ cursor[p] # 0
  /\ pc[p] \in {"claim", "waiters", "done"} => Drained(p)
  /\ pc[p] \in {"tail", "flushed", "waiters", "done"} => pending[p] = {}
  /\ pc[p] = "claim" =>
       /\ emitted[p] = <<>>
       /\ \A t \in Tasks : t[1] = p /\ t[2] >= cursor[p] =>
            claim[t] = "none" /\ waitsOn[t] = None
  /\ pc[p] \notin {"claim", "waiters", "done", "raised"} => cursor[p] > NTasks[p]
  /\ pc[p] \in {"success", "failure", "failed"} => current[p] \in pending[p]
  /\ pc[p] \in {"failure", "tail", "abort"} => storeGoal[p] = "all"
  /\ pc[p] \in {"flushed", "aborting"} =>
       /\ storeQueue[p] = <<>> /\ results[p] = <<>> /\ owed[p] = None
       /\ batches[p] # <<>> => mapGoal[p] \in {"all", "one_then_all", "ready_then_all", "rest"}
  /\ pc[p] = "raised" =>
       /\ owed[p] = None
       /\ mapGoal[p] = "none" \/ batches[p] = <<>>
       /\ storeGoal[p] = "none" \/ storeQueue[p] = <<>>

\* Each limit is kept because the drain it asks for is finished first.
LimitsOK(p) ==
  /\ Len(storeQueue[p]) <= StoreLimit
  /\ pc[p] = "success" => storeGoal[p] = "one" \/ Len(storeQueue[p]) < StoreLimit
  /\ Len(results[p]) < ResultLimit
  /\ Len(batches[p]) <= BatchLimit
  /\ mapGoal[p] \in {"none", "ready", "ready_then_all"} => Len(batches[p]) < BatchLimit

\* The faults after which a pipeline may end with an open claim: preparing the
\* download fails, the error of a batch ends the abort, or the callback raises
\* while the failure of a store is owed.
Leaky == "mapping" \in Faults \/ "setup" \in Faults \/ {"store", "callback"} \subseteq Faults

\* An open claim is held, unless it leaked.
OpenOK(p) ==
  /\ owed[p] # None => "store" \in Faults
  /\ mapGoal[p] = "rest" => "callback" \in Faults
  /\ \A t \in Tasks : t[1] = p /\ claim[t] = "open" =>
       Holds(p, t) \/ (Leaky /\ pc[p] \in {"abort", "aborting", "raised"})
  /\ pc[p] = "raised" /\ ~Leaky => Drained(p) /\ pending[p] = {}

Local(p) ==
  HeldOK(p) /\ EmittedOK(p) /\ BatchesOK(p) /\ FlowOK(p) /\ LimitsOK(p) /\ OpenOK(p)

\* The table has the open claims and no others.
ClaimsOK ==
  /\ \A t \in Tasks : claim[t] = "open" => claims[KeyOf[t]] = t
  /\ \A k \in Keys : claims[k] # None => KeyOf[claims[k]] = k /\ claim[claims[k]] = "open"

\* A waiter waits for a claim of its own attachment, and has none itself unless
\* it met the memo.
WaitsOK ==
  \A t \in Tasks : waitsOn[t] # None =>
    /\ KeyOf[waitsOn[t]] = KeyOf[t] /\ claim[waitsOn[t]] # "none"
    /\ claim[t] = IF waitsOn[t] = t THEN "ok" ELSE "none"

WorkOK ==
  /\ \A t \in Tasks : stored[t] = "failed" => "store" \in Faults
  /\ \A r \in Tasks : future[r] = "failed" => "mapping" \in Faults
  /\ \A r \in Tasks : future[r] = "done" => rows[r] \subseteq durable

DurableOK ==
  /\ \A t \in Tasks : claim[t] = "ok" => Durable(KeyOf[t])
  /\ \A k \in memo : Durable(k)

IInv ==
  /\ TypeOK /\ ClaimsOK /\ WaitsOK /\ WorkOK /\ DurableOK
  /\ \A p \in Pipelines : Local(p)

-----------------------------------------------------------------------------
(* Sequences without repetition.                                           *)

LEMMA AppendOnce ==
  ASSUME NEW S, NEW s \in Seq(S), NEW x \in S, Once(s), ~In(x, s)
  PROVE  /\ Append(s, x) \in Seq(S) /\ Len(Append(s, x)) = Len(s) + 1
         /\ Once(Append(s, x)) /\ \A y : In(y, Append(s, x)) <=> In(y, s) \/ y = x
<1> DEFINE t == Append(s, x)
<1>1. /\ t \in Seq(S) /\ Len(t) = Len(s) + 1 /\ Len(s) \in Nat
      /\ t[Len(s) + 1] = x /\ \A i \in 1..Len(s) : t[i] = s[i]
  OBVIOUS
<1> HIDE DEF t
<1>2. Once(t)
  BY <1>1 DEF Once, In
<1>3. ASSUME NEW y  PROVE In(y, t) <=> In(y, s) \/ y = x
  <2>1. In(y, t) => In(y, s) \/ y = x
    BY <1>1 DEF In
  <2>2. In(y, s) => In(y, t)
    BY <1>1 DEF In
  <2>3. In(x, t)
    BY <1>1 DEF In
  <2> QED  BY <2>1, <2>2, <2>3
<1> QED  BY <1>1, <1>2, <1>3 DEF t

LEMMA TailOnce ==
  ASSUME NEW S, NEW s \in Seq(S), s # <<>>, Once(s)
  PROVE  /\ Head(s) \in S /\ In(Head(s), s)
         /\ Tail(s) \in Seq(S) /\ Len(Tail(s)) = Len(s) - 1
         /\ Once(Tail(s)) /\ \A y : In(y, Tail(s)) <=> In(y, s) /\ y # Head(s)
<1> DEFINE t == Tail(s)
<1>1. /\ t \in Seq(S) /\ Len(t) = Len(s) - 1 /\ Len(s) \in Nat /\ Len(s) # 0
      /\ \A i \in 1..(Len(s) - 1) : t[i] = s[i + 1]
  OBVIOUS
<1>2. Head(s) = s[1] /\ s[1] \in S /\ 1 \in 1..Len(s)
  BY <1>1
<1> HIDE DEF t
<1>3. Once(t)
  <2> SUFFICES ASSUME NEW i \in 1..Len(t), NEW j \in 1..Len(t), t[i] = t[j]  PROVE i = j
    BY DEF Once
  <2>1. i + 1 \in 1..Len(s) /\ j + 1 \in 1..Len(s) /\ s[i + 1] = s[j + 1]
    BY <1>1
  <2>2. i + 1 = j + 1
    BY <2>1 DEF Once
  <2> QED  BY <1>1, <2>2
<1>4. ASSUME NEW y  PROVE In(y, t) <=> In(y, s) /\ y # Head(s)
  <2>1. ASSUME In(y, t)  PROVE In(y, s) /\ y # Head(s)
    <3>1. PICK i \in 1..Len(t) : t[i] = y
      BY <2>1 DEF In
    <3>2. i + 1 \in 1..Len(s) /\ s[i + 1] = y /\ i + 1 # 1
      BY <1>1, <3>1
    <3>3. y # s[1]
      BY <1>2, <3>2 DEF Once
    <3> QED  BY <1>2, <3>2, <3>3 DEF In
  <2>2. ASSUME In(y, s), y # Head(s)  PROVE In(y, t)
    <3>1. PICK i \in 1..Len(s) : s[i] = y
      BY <2>2 DEF In
    <3>2. i - 1 \in 1..Len(t) /\ t[i - 1] = y
      BY <1>1, <1>2, <2>2, <3>1
    <3> QED  BY <3>2 DEF In
  <2> QED  BY <2>1, <2>2
<1>5. In(Head(s), s)
  BY <1>2 DEF In
<1> QED  BY <1>1, <1>2, <1>3, <1>4, <1>5 DEF t

LEMMA LengthNotZero ==
  ASSUME NEW S, NEW s \in Seq(S), Len(s) # 0
  PROVE  s # <<>>
OBVIOUS

LEMMA EmptyOnce ==
  Once(<<>>) /\ \A y : ~In(y, <<>>) /\ ~InBatches(y, <<>>)
BY DEF Once, In, InBatches

-----------------------------------------------------------------------------
(* Batches: one is appended, and the items of the oldest leave one by one.  *)

\* The batches after the oldest item has left.
AfterItem(B) ==
  IF Len(Head(B).items) = 1 THEN Tail(B)
  ELSE <<[Head(B) EXCEPT !.items = Tail(@)]>> \o Tail(B)

LEMMA BatchAppended ==
  ASSUME NEW B \in Seq(Batch), BatchesApart(B),
         NEW b \in Batch, b.items # <<>>, Once(b.items),
         \A t \in Tasks : In(t, b.items) => ~InBatches(t, B)
  PROVE  /\ Append(B, b) \in Seq(Batch) /\ Len(Append(B, b)) = Len(B) + 1
         /\ BatchesApart(Append(B, b))
         /\ \A t \in Tasks : InBatches(t, Append(B, b)) <=> InBatches(t, B) \/ In(t, b.items)
<1> DEFINE C == Append(B, b)
<1>1. /\ C \in Seq(Batch) /\ Len(C) = Len(B) + 1 /\ Len(B) \in Nat
      /\ C[Len(B) + 1] = b /\ \A i \in 1..Len(B) : C[i] = B[i]
  OBVIOUS
<1> HIDE DEF C
<1>2. \A i \in 1..Len(C) : C[i].items # <<>> /\ Once(C[i].items)
  BY <1>1 DEF BatchesApart
<1>3. ASSUME NEW i \in 1..Len(C), NEW j \in 1..Len(C), NEW t \in Tasks,
             In(t, C[i].items), In(t, C[j].items)
      PROVE  i = j
  <2>1. CASE i \in 1..Len(B) /\ j \in 1..Len(B)
    BY <1>1, <1>3, <2>1 DEF BatchesApart
  <2>2. CASE i \in 1..Len(B) /\ j = Len(B) + 1
    BY <1>1, <1>3, <2>2 DEF InBatches
  <2>3. CASE i = Len(B) + 1 /\ j \in 1..Len(B)
    BY <1>1, <1>3, <2>3 DEF InBatches
  <2> QED  BY <1>1, <2>1, <2>2, <2>3
<1>4. ASSUME NEW t \in Tasks
      PROVE  InBatches(t, C) <=> InBatches(t, B) \/ In(t, b.items)
  <2>1. InBatches(t, C) => InBatches(t, B) \/ In(t, b.items)
    BY <1>1 DEF InBatches
  <2>2. InBatches(t, B) => InBatches(t, C)
    BY <1>1 DEF InBatches
  <2>3. In(t, b.items) => InBatches(t, C)
    BY <1>1 DEF InBatches
  <2> QED  BY <2>1, <2>2, <2>3
<1>5. BatchesApart(C)
  BY <1>2, <1>3 DEF BatchesApart
<1> QED  BY <1>1, <1>4, <1>5 DEF C

\* The batches after an item, one by one: what stays is as before, without it.
LEMMA ItemLeaves ==
  ASSUME NEW B \in Seq(Batch), BatchesApart(B), B # <<>>
  PROVE  LET C == AfterItem(B)
             h == Head(Head(B).items)
         IN  /\ h \in Tasks /\ In(h, Head(B).items) /\ Head(B) = B[1] /\ Len(B) >= 1
             /\ C \in Seq(Batch)
             /\ Len(C) = IF Len(Head(B).items) = 1 THEN Len(B) - 1 ELSE Len(B)
             /\ \A i \in 1..Len(C) :
                  LET j == IF Len(Head(B).items) = 1 THEN i + 1 ELSE i IN
                  /\ j \in 1..Len(B) /\ C[i].id = B[j].id
                  /\ C[i].items # <<>> /\ Once(C[i].items)
                  /\ \A t \in Tasks : In(t, C[i].items) <=> In(t, B[j].items) /\ t # h
             /\ \A j \in 1..Len(B) : \A t \in Tasks :
                  In(t, B[j].items) /\ t # h =>
                    \E i \in 1..Len(C) : C[i].id = B[j].id /\ In(t, C[i].items)
<1> DEFINE b == Head(B)
           h == Head(b.items)
           C == AfterItem(B)
<1>1. /\ b = B[1] /\ Len(B) \in Nat /\ Len(B) >= 1 /\ 1 \in 1..Len(B)
      /\ b \in Batch /\ \A i \in 1..Len(B) : B[i] \in Batch
      /\ Tail(B) \in Seq(Batch) /\ Len(Tail(B)) = Len(B) - 1
      /\ \A i \in 1..(Len(B) - 1) : Tail(B)[i] = B[i + 1]
  OBVIOUS
<1>2. b.items \in Seq(Tasks) /\ b.items # <<>> /\ Once(b.items) /\ b.id \in Tasks
  BY <1>1 DEF BatchesApart, Batch
<1>3. /\ h \in Tasks /\ In(h, b.items)
      /\ Tail(b.items) \in Seq(Tasks) /\ Len(Tail(b.items)) = Len(b.items) - 1
      /\ Once(Tail(b.items)) /\ \A y : In(y, Tail(b.items)) <=> In(y, b.items) /\ y # h
  BY <1>2, TailOnce
<1>4. \A j \in 1..Len(B) : j # 1 => ~In(h, B[j].items)
  BY <1>1, <1>3 DEF BatchesApart
<1>5. \A i \in 1..Len(B) : B[i].items # <<>> /\ Once(B[i].items)
  BY DEF BatchesApart
<1>6. CASE Len(b.items) = 1
  <2>1. C = Tail(B)
    BY <1>6 DEF AfterItem
  <2>2. \A y : ~In(y, Tail(b.items))
    BY <1>3, <1>6 DEF In
  <2>3. \A i \in 1..Len(C) : i + 1 \in 1..Len(B) /\ i + 1 # 1 /\ C[i] = B[i + 1]
    BY <1>1, <2>1
  <2>4. \A i \in 1..Len(C) :
          /\ i + 1 \in 1..Len(B) /\ C[i].id = B[i + 1].id
          /\ C[i].items # <<>> /\ Once(C[i].items)
          /\ \A t \in Tasks : In(t, C[i].items) <=> In(t, B[i + 1].items) /\ t # h
    BY <1>4, <1>5, <2>3
  <2>5. ASSUME NEW j \in 1..Len(B), NEW t \in Tasks, In(t, B[j].items), t # h
        PROVE  \E i \in 1..Len(C) : C[i].id = B[j].id /\ In(t, C[i].items)
    <3>1. j # 1
      BY <1>1, <1>3, <2>2, <2>5
    <3>2. j - 1 \in 1..Len(C) /\ C[j - 1] = B[j]
      BY <1>1, <2>1, <2>3, <3>1
    <3> QED  BY <2>5, <3>2
  <2>6. C \in Seq(Batch) /\ Len(C) = Len(B) - 1
    BY <1>1, <2>1
  <2> QED  BY <1>1, <1>3, <1>6, <2>4, <2>5, <2>6
<1>7. CASE Len(b.items) # 1
  <2> DEFINE d == [b EXCEPT !.items = Tail(@)]
  <2>1. C = <<d>> \o Tail(B)
    BY <1>7 DEF AfterItem
  <2>2. d \in Batch /\ d.id = b.id /\ d.items = Tail(b.items)
    BY <1>1, <1>3 DEF Batch
  <2>3. Tail(b.items) # <<>>
    <3>1. Len(b.items) \in Nat /\ Len(b.items) # 0
      BY <1>2
    <3>2. Len(Tail(b.items)) # 0
      BY <1>3, <1>7, <3>1
    <3> QED  BY <1>3, <3>2, LengthNotZero
  <2> HIDE DEF d
  <2>4. /\ C \in Seq(Batch) /\ Len(C) = Len(B) /\ C[1] = d
        /\ \A i \in 1..Len(B) : i # 1 => C[i] = B[i]
    BY <1>1, <2>1, <2>2
  <2> HIDE DEF C
  <2>5. \A i \in 1..Len(C) :
          /\ i \in 1..Len(B) /\ C[i].id = B[i].id
          /\ C[i].items # <<>> /\ Once(C[i].items)
          /\ \A t \in Tasks : In(t, C[i].items) <=> In(t, B[i].items) /\ t # h
    <3> TAKE i \in 1..Len(C)
    <3>1. CASE i = 1
      BY <1>1, <1>3, <2>2, <2>3, <2>4, <3>1
    <3>2. CASE i # 1
      BY <1>4, <1>5, <2>4, <3>2
    <3> QED  BY <3>1, <3>2
  <2>6. \A j \in 1..Len(B) : \A t \in Tasks : In(t, B[j].items) /\ t # h =>
          \E i \in 1..Len(C) : C[i].id = B[j].id /\ In(t, C[i].items)
    BY <2>4, <2>5
  <2> QED  BY <1>1, <1>3, <1>7, <2>4, <2>5, <2>6 DEF C
<1> QED  BY <1>6, <1>7

LEMMA ItemLeavesFrom ==
  ASSUME NEW B \in Seq(Batch), BatchesApart(B), B # <<>>
  PROVE  LET C == AfterItem(B)
             h == Head(Head(B).items)
             last == Len(Head(B).items) = 1
         IN  /\ h \in Tasks /\ In(h, B[1].items) /\ Head(B) = B[1] /\ Len(B) \in Nat /\ Len(B) >= 1
             /\ C \in Seq(Batch) /\ Len(C) \in Nat
             /\ last => Len(C) = Len(B) - 1
             /\ ~last => Len(C) = Len(B)
             /\ \A i \in 1..Len(C) : \E j \in 1..Len(B) :
                  C[i].id = B[j].id /\ \A u \in Tasks : In(u, C[i].items) => In(u, B[j].items)
             /\ \A j \in 1..Len(B) : \A u \in Tasks :
                  In(u, B[j].items) /\ u # h =>
                    \E i \in 1..Len(C) : C[i].id = B[j].id /\ In(u, C[i].items)
<1> DEFINE C == AfterItem(B)
           h == Head(Head(B).items)
           At(i) == IF Len(Head(B).items) = 1 THEN i + 1 ELSE i
<1>1. /\ h \in Tasks /\ In(h, Head(B).items) /\ Head(B) = B[1] /\ Len(B) >= 1
      /\ C \in Seq(Batch)
      /\ Len(C) = IF Len(Head(B).items) = 1 THEN Len(B) - 1 ELSE Len(B)
      /\ \A i \in 1..Len(C) :
           /\ At(i) \in 1..Len(B) /\ C[i].id = B[At(i)].id
           /\ \A t \in Tasks : In(t, C[i].items) <=> In(t, B[At(i)].items) /\ t # h
      /\ \A j \in 1..Len(B) : \A u \in Tasks : In(u, B[j].items) /\ u # h =>
           \E i \in 1..Len(C) : C[i].id = B[j].id /\ In(u, C[i].items)
  BY ItemLeaves
<1>2. Len(B) \in Nat
  OBVIOUS
<1> HIDE DEF C, h, At
<1>3. \A i \in 1..Len(C) : \E j \in 1..Len(B) :
        C[i].id = B[j].id /\ \A u \in Tasks : In(u, C[i].items) => In(u, B[j].items)
  BY <1>1
<1>4. Len(C) \in Nat
  BY <1>1
<1> QED  BY <1>1, <1>2, <1>3, <1>4 DEF C, h

LEMMA ItemLeavesBatches ==
  ASSUME NEW B \in Seq(Batch), BatchesApart(B), B # <<>>
  PROVE  LET C == AfterItem(B)
             h == Head(Head(B).items)
         IN  /\ InBatches(h, B) /\ BatchesApart(C)
             /\ \A t \in Tasks : InBatches(t, C) <=> InBatches(t, B) /\ t # h
<1> DEFINE C == AfterItem(B)
           h == Head(Head(B).items)
           At(i) == IF Len(Head(B).items) = 1 THEN i + 1 ELSE i
<1>1. /\ h \in Tasks /\ In(h, Head(B).items) /\ Head(B) = B[1] /\ Len(B) >= 1
      /\ \A i \in 1..Len(C) :
           /\ At(i) \in 1..Len(B) /\ C[i].items # <<>> /\ Once(C[i].items)
           /\ \A t \in Tasks : In(t, C[i].items) <=> In(t, B[At(i)].items) /\ t # h
      /\ \A j \in 1..Len(B) : \A t \in Tasks : In(t, B[j].items) /\ t # h =>
           \E i \in 1..Len(C) : C[i].id = B[j].id /\ In(t, C[i].items)
  BY ItemLeaves
<1>2. \A i, j \in 1..Len(C) : At(i) = At(j) => i = j
  OBVIOUS
<1> HIDE DEF C, h, At
<1>3. InBatches(h, B)
  BY <1>1 DEF InBatches
<1>4. \A i, j \in 1..Len(C) : \A t \in Tasks : In(t, C[i].items) /\ In(t, C[j].items) => i = j
  <2> SUFFICES ASSUME NEW i \in 1..Len(C), NEW j \in 1..Len(C), NEW t \in Tasks,
                      In(t, C[i].items), In(t, C[j].items)
               PROVE  i = j
    OBVIOUS
  <2>1. At(i) \in 1..Len(B) /\ At(j) \in 1..Len(B) /\ In(t, B[At(i)].items) /\ In(t, B[At(j)].items)
    BY <1>1
  <2>2. At(i) = At(j)
    BY <2>1 DEF BatchesApart
  <2> QED  BY <1>2, <2>2
<1>5. BatchesApart(C)
  BY <1>1, <1>4 DEF BatchesApart
<1>6. \A t \in Tasks : InBatches(t, C) <=> InBatches(t, B) /\ t # h
  BY <1>1 DEF InBatches
<1> QED  BY <1>3, <1>5, <1>6 DEF C, h

-----------------------------------------------------------------------------
(* The moves of a task between the places of its pipeline.                 *)

LEMMA PlaceClaimed ==
  ASSUME NEW P, NEW S, NEW R, NEW B, NEW w, PlacesApart(P, S, R, B, w),
         NEW t \in Tasks, ~Places(t, P, S, R, B, w)
  PROVE  /\ PlacesApart(P \union {t}, S, R, B, w)
         /\ \A u : Places(u, P \union {t}, S, R, B, w) <=> Places(u, P, S, R, B, w) \/ u = t
BY DEF PlacesApart, Places

LEMMA PlaceDropped ==
  ASSUME NEW P, NEW S, NEW R, NEW B, NEW w, PlacesApart(P, S, R, B, w),
         NEW t \in Tasks, t \in P
  PROVE  /\ PlacesApart(P \ {t}, S, R, B, w)
         /\ \A u \in Tasks : Places(u, P \ {t}, S, R, B, w) <=> Places(u, P, S, R, B, w) /\ u # t
BY DEF PlacesApart, Places

LEMMA PlaceHanded ==
  ASSUME NEW P, NEW S \in Seq(Tasks), NEW R, NEW B, NEW w, PlacesApart(P, S, R, B, w),
         NEW t \in Tasks, t \in P
  PROVE  /\ PlacesApart(P \ {t}, Append(S, t), R, B, w)
         /\ \A u \in Tasks : Places(u, P \ {t}, Append(S, t), R, B, w) <=> Places(u, P, S, R, B, w)
<1> DEFINE S2 == Append(S, t)
<1>1. Once(S2) /\ \A u : In(u, S2) <=> In(u, S) \/ u = t
  BY AppendOnce DEF PlacesApart
<1> HIDE DEF S2
<1>2. PlacesApart(P \ {t}, S2, R, B, w)
  BY <1>1 DEF PlacesApart
<1>3. \A u \in Tasks : Places(u, P \ {t}, S2, R, B, w) <=> Places(u, P, S, R, B, w)
  BY <1>1 DEF Places
<1> QED  BY <1>2, <1>3 DEF S2

LEMMA PlaceStored ==
  ASSUME NEW P, NEW S \in Seq(Tasks), NEW R \in Seq(Tasks), NEW B, NEW w,
         PlacesApart(P, S, R, B, w), S # <<>>
  PROVE  LET t == Head(S) IN
         /\ t \in Tasks /\ Tail(S) \in Seq(Tasks) /\ Len(Tail(S)) = Len(S) - 1
         /\ Append(R, t) \in Seq(Tasks) /\ Len(Append(R, t)) = Len(R) + 1
         /\ PlacesApart(P, Tail(S), Append(R, t), B, w)
         /\ \A u \in Tasks : Places(u, P, Tail(S), Append(R, t), B, w) <=> Places(u, P, S, R, B, w)
<1> DEFINE t == Head(S)
           S2 == Tail(S)
           R2 == Append(R, t)
<1>1. /\ t \in Tasks /\ In(t, S) /\ S2 \in Seq(Tasks) /\ Len(S2) = Len(S) - 1
      /\ Once(S2) /\ \A u : In(u, S2) <=> In(u, S) /\ u # t
  BY TailOnce DEF PlacesApart
<1>2. ~In(t, R)
  BY <1>1 DEF PlacesApart
<1>3. R2 \in Seq(Tasks) /\ Len(R2) = Len(R) + 1 /\ Once(R2) /\ \A u : In(u, R2) <=> In(u, R) \/ u = t
  BY <1>1, <1>2, AppendOnce DEF PlacesApart
<1> HIDE DEF t, S2, R2
<1>4. PlacesApart(P, S2, R2, B, w)
  BY <1>1, <1>3 DEF PlacesApart
<1>5. \A u \in Tasks : Places(u, P, S2, R2, B, w) <=> Places(u, P, S, R, B, w)
  BY <1>1, <1>3 DEF Places
<1> QED  BY <1>1, <1>3, <1>4, <1>5 DEF t, S2, R2

LEMMA PlaceOwed ==
  ASSUME NEW P, NEW S \in Seq(Tasks), NEW R, NEW B,
         PlacesApart(P, S, R, B, None), S # <<>>
  PROVE  LET t == Head(S) IN
         /\ t \in Tasks /\ Tail(S) \in Seq(Tasks) /\ Len(Tail(S)) = Len(S) - 1
         /\ PlacesApart(P, Tail(S), R, B, t)
         /\ \A u \in Tasks : Places(u, P, Tail(S), R, B, t) <=> Places(u, P, S, R, B, None)
<1> DEFINE t == Head(S)
           S2 == Tail(S)
<1>1. /\ t \in Tasks /\ In(t, S) /\ S2 \in Seq(Tasks) /\ Len(S2) = Len(S) - 1
      /\ Once(S2) /\ \A u : In(u, S2) <=> In(u, S) /\ u # t
  BY TailOnce DEF PlacesApart
<1> HIDE DEF t, S2
<1>2. PlacesApart(P, S2, R, B, t)
  BY <1>1 DEF PlacesApart
<1>3. \A u \in Tasks : Places(u, P, S2, R, B, t) <=> Places(u, P, S, R, B, None)
  BY <1>1, PipelineAssumption DEF Places
<1> QED  BY <1>1, <1>2, <1>3 DEF t, S2

\* The failure that was owed is released, or forgotten.
LEMMA PlaceSettled ==
  ASSUME NEW P, NEW S, NEW R, NEW B, NEW w, PlacesApart(P, S, R, B, w)
  PROVE  /\ PlacesApart(P, S, R, B, None)
         /\ \A u \in Tasks : Places(u, P, S, R, B, None) <=> Places(u, P, S, R, B, w) /\ u # w
BY PipelineAssumption DEF PlacesApart, Places

LEMMA PlaceBatched ==
  ASSUME NEW P, NEW S, NEW R \in Seq(Tasks), NEW B \in Seq(Batch), NEW w,
         PlacesApart(P, S, R, B, w), R # <<>>
  PROVE  LET C == Append(B, [id |-> Head(R), items |-> R]) IN
         /\ C \in Seq(Batch) /\ Len(C) = Len(B) + 1 /\ Head(R) \in Tasks
         /\ C[Len(C)] = [id |-> Head(R), items |-> R]
         /\ \A i \in 1..Len(B) : C[i] = B[i]
         /\ PlacesApart(P, S, <<>>, C, w)
         /\ \A u \in Tasks : Places(u, P, S, <<>>, C, w) <=> Places(u, P, S, R, B, w)
<1> DEFINE b == [id |-> Head(R), items |-> R]
           C == Append(B, b)
<1>1. Head(R) \in Tasks
  BY TailOnce DEF PlacesApart
<1>2. b \in Batch /\ b.items = R
  BY <1>1 DEF Batch
<1>3. Len(C) = Len(B) + 1 /\ C[Len(C)] = b /\ \A i \in 1..Len(B) : C[i] = B[i]
  BY <1>2
<1>4. \A t \in Tasks : In(t, R) => ~InBatches(t, B)
  BY DEF PlacesApart
<1>5. Once(R) /\ BatchesApart(B)
  BY DEF PlacesApart
<1> HIDE DEF b
<1>6. /\ C \in Seq(Batch) /\ BatchesApart(C)
      /\ \A t \in Tasks : InBatches(t, C) <=> InBatches(t, B) \/ In(t, R)
  BY <1>2, <1>4, <1>5, BatchAppended
<1> HIDE DEF C
<1>7. PlacesApart(P, S, <<>>, C, w)
  BY <1>6, EmptyOnce DEF PlacesApart
<1>8. \A u \in Tasks : Places(u, P, S, <<>>, C, w) <=> Places(u, P, S, R, B, w)
  BY <1>6, EmptyOnce DEF Places
<1> QED  BY <1>1, <1>3, <1>6, <1>7, <1>8 DEF C, b

LEMMA PlaceLeft ==
  ASSUME NEW P, NEW S, NEW R, NEW B \in Seq(Batch), NEW w,
         PlacesApart(P, S, R, B, w), B # <<>>
  PROVE  LET t == Head(Head(B).items) IN
         /\ t \in Tasks /\ Places(t, P, S, R, B, w)
         /\ PlacesApart(P, S, R, AfterItem(B), w)
         /\ \A u \in Tasks :
              Places(u, P, S, R, AfterItem(B), w) <=> Places(u, P, S, R, B, w) /\ u # t
<1> DEFINE t == Head(Head(B).items)
           C == AfterItem(B)
<1>1. BatchesApart(B)
  BY DEF PlacesApart
<1>2. t \in Tasks
  BY <1>1, ItemLeaves
<1>3. /\ InBatches(t, B) /\ BatchesApart(C)
      /\ \A u \in Tasks : InBatches(u, C) <=> InBatches(u, B) /\ u # t
  BY <1>1, ItemLeavesBatches
<1> HIDE DEF t, C
<1>4. PlacesApart(P, S, R, C, w)
  BY <1>3 DEF PlacesApart
<1>5. /\ Places(t, P, S, R, B, w)
      /\ \A u \in Tasks : Places(u, P, S, R, C, w) <=> Places(u, P, S, R, B, w) /\ u # t
  BY <1>2, <1>3 DEF Places, PlacesApart
<1> QED  BY <1>2, <1>4, <1>5 DEF t, C

-----------------------------------------------------------------------------
(* What every step has in common.                                          *)

LEMMA TasksKnown ==
  /\ \A t \in Tasks : t[1] \in Pipelines /\ t[2] \in 1..NTasks[t[1]] /\ t = <<t[1], t[2]>>
  /\ \A p \in Pipelines : \A i \in 1..NTasks[p] : <<p, i>> \in Tasks
  /\ \A t \in Tasks : KeyOf[t] \in Keys
<1>1. ASSUME NEW t \in Tasks
      PROVE  t[1] \in Pipelines /\ t[2] \in 1..NTasks[t[1]] /\ t = <<t[1], t[2]>>
  <2>1. PICK p \in Pipelines : t \in {p} \X (1..NTasks[p])
    BY DEF Tasks
  <2>2. PICK i \in 1..NTasks[p] : t = <<p, i>>
    BY <2>1
  <2> QED  BY <2>2
<1>2. ASSUME NEW p \in Pipelines, NEW i \in 1..NTasks[p]  PROVE <<p, i>> \in Tasks
  BY DEF Tasks
<1>3. \A t \in Tasks : KeyOf[t] \in Keys
  BY PipelineAssumption
<1> QED  BY <1>1, <1>2, <1>3

\* The parts of TypeOK, for one pipeline, task or key.
LEMMA Types ==
  ASSUME TypeOK
  PROVE  /\ claims \in [Keys -> Tasks \union {None}] /\ memo \subseteq Keys
         /\ claim \in [Tasks -> ClaimStates]
         /\ \A t \in Tasks : /\ claim[t] \in ClaimStates /\ waitsOn[t] \in Tasks \union {None}
                             /\ stored[t] \in {"none", "pending", "ok", "failed"}
                             /\ future[t] \in {"none", "pending", "done", "failed"}
                             /\ rows[t] \subseteq Tasks
         /\ \A p \in Pipelines :
              /\ pc[p] \in PcStates /\ cursor[p] \in Nat /\ pending[p] \subseteq Tasks
              /\ current[p] \in Tasks \union {None} /\ owed[p] \in Tasks \union {None}
              /\ storeQueue[p] \in Seq(Tasks) /\ results[p] \in Seq(Tasks)
              /\ batches[p] \in Seq(Batch) /\ emitted[p] \in Seq(Tasks \X {"ok", "failed"})
              /\ emitting[p] \in BOOLEAN
              /\ storeGoal[p] \in {"none", "ready", "one", "all"}
              /\ mapGoal[p] \in {"none", "ready", "one", "rest", "all",
                                  "one_then_all", "ready_then_all"}
BY DEF TypeOK

LEMMA ItemTypes ==
  ASSUME TypeOK, NEW p \in Pipelines
  PROVE  /\ \A i \in 1..Len(batches[p]) :
              batches[p][i].id \in Tasks /\ batches[p][i].items \in Seq(Tasks)
         /\ \A i \in 1..Len(emitted[p]) :
              emitted[p][i][1] \in Tasks /\ emitted[p][i][2] \in {"ok", "failed"}
<1>1. batches[p] \in Seq(Batch) /\ emitted[p] \in Seq(Tasks \X {"ok", "failed"})
  BY Types
<1>2. ASSUME NEW i \in 1..Len(batches[p])
      PROVE  batches[p][i].id \in Tasks /\ batches[p][i].items \in Seq(Tasks)
  <2>1. batches[p][i] \in Batch
    BY <1>1
  <2> QED  BY <2>1 DEF Batch
<1>3. ASSUME NEW i \in 1..Len(emitted[p])
      PROVE  emitted[p][i][1] \in Tasks /\ emitted[p][i][2] \in {"ok", "failed"}
  <2>1. emitted[p][i] \in Tasks \X {"ok", "failed"}
    BY <1>1
  <2> QED  BY <2>1
<1> QED  BY <1>2, <1>3

THEOREM InitIInv == Init => IInv
<1> SUFFICES ASSUME Init  PROVE IInv
  OBVIOUS
<1> USE DEF Init, WriterInit
<1>1. TypeOK
  <2>1. \A S : <<>> \in Seq(S)
    OBVIOUS
  <2> QED  BY <2>1 DEF TypeOK, ClaimStates, PcStates
<1>2. ClaimsOK /\ WaitsOK /\ WorkOK /\ DurableOK
  BY TasksKnown DEF ClaimsOK, WaitsOK, WorkOK, DurableOK
<1>3. ASSUME NEW p \in Pipelines  PROVE Local(p)
  <2>1. /\ pc[p] = "claim" /\ cursor[p] = 1 /\ pending[p] = {} /\ storeQueue[p] = <<>>
        /\ results[p] = <<>> /\ batches[p] = <<>> /\ owed[p] = None /\ emitted[p] = <<>>
        /\ mapGoal[p] = "none" /\ storeGoal[p] = "none" /\ current[p] = None
    OBVIOUS
  <2>2. HeldOK(p)
    <3>1. BatchesApart(<<>>)
      BY DEF BatchesApart
    <3>2. PlacesApart({}, <<>>, <<>>, <<>>, None)
      BY <3>1, EmptyOnce DEF PlacesApart
    <3>3. \A t \in Tasks : ~Places(t, {}, <<>>, <<>>, <<>>, None)
      BY EmptyOnce, PipelineAssumption DEF Places
    <3> QED  BY <2>1, <3>2, <3>3 DEF HeldOK, Holds
  <2>3. EmittedOK(p) /\ BatchesOK(p)
    BY <2>1 DEF EmittedOK, BatchesOK
  <2>4. FlowOK(p) /\ OpenOK(p)
    BY <2>1 DEF FlowOK, OpenOK, Drained
  <2>5. LimitsOK(p)
    BY <2>1, PipelineAssumption DEF LimitsOK
  <2> QED  BY <2>2, <2>3, <2>4, <2>5 DEF Local
<1> QED  BY <1>1, <1>2, <1>3 DEF IInv

\* What a step of another pipeline, or of the workers, leaves to pipeline q.
Undisturbed(q) ==
  /\ pc'[q] = pc[q] /\ cursor'[q] = cursor[q] /\ current'[q] = current[q]
  /\ pending'[q] = pending[q] /\ storeQueue'[q] = storeQueue[q]
  /\ results'[q] = results[q] /\ batches'[q] = batches[q] /\ owed'[q] = owed[q]
  /\ mapGoal'[q] = mapGoal[q] /\ storeGoal'[q] = storeGoal[q]
  /\ emitted'[q] = emitted[q]
  /\ \A t \in Tasks : t[1] = q => claim'[t] = claim[t] /\ waitsOn'[t] = waitsOn[t]
  /\ \A t \in Tasks : claim[t] \in {"ok", "failed", "error"} => claim'[t] = claim[t]
  /\ \A r \in Tasks : future[r] # "none" => future'[r] # "none" /\ rows'[r] = rows[r]
  /\ \A r \in Tasks : future'[r] = "pending" =>
       future[r] = "pending" \/ \A t \in rows'[r] : t[1] # q

LEMMA Elsewhere ==
  ASSUME IInv, NEW q \in Pipelines, Undisturbed(q)
  PROVE  Local(q)'
<1> USE DEF Undisturbed
<1>1. TypeOK /\ Local(q) /\ WaitsOK
  BY DEF IInv
<1>2. HeldOK(q)' /\ \A t \in Tasks : Holds(q, t)' <=> Holds(q, t)
  BY <1>1 DEF HeldOK, Holds, Local
<1>3. EmittedOK(q)'
  <2> SUFFICES ASSUME NEW i \in 1..Len(emitted[q]), NEW t \in Tasks, t = emitted[q][i][1]
               PROVE  /\ t[1] = q
                      /\ waitsOn'[t] = None => claim'[t] = emitted[q][i][2]
                      /\ waitsOn'[t] # None =>
                           /\ claim'[waitsOn'[t]] = emitted[q][i][2]
                           /\ pc[q] \in {"waiters", "done", "raised"}
                           /\ pc[q] = "waiters" => t[2] < cursor[q]
    <3>1. \A i \in 1..Len(emitted[q]) : emitted[q][i][1] \in Tasks
      BY <1>1, ItemTypes
    <3> QED  BY <3>1 DEF EmittedOK
  <2>1. /\ t[1] = q /\ emitted[q][i][2] \in {"ok", "failed"}
        /\ waitsOn[t] = None => claim[t] = emitted[q][i][2]
        /\ waitsOn[t] # None =>
             /\ claim[waitsOn[t]] = emitted[q][i][2]
             /\ pc[q] \in {"waiters", "done", "raised"}
             /\ pc[q] = "waiters" => t[2] < cursor[q]
    BY <1>1, ItemTypes DEF EmittedOK, Local
  <2>2. waitsOn'[t] = waitsOn[t] /\ claim'[t] = claim[t]
    BY <2>1
  <2>3. waitsOn[t] # None => waitsOn[t] \in Tasks
    BY <1>1, Types
  <2> QED  BY <2>1, <2>2, <2>3
<1>4. BatchesOK(q)'
  <2>1. \A i \in 1..Len(batches[q]) : batches[q][i].id \in Tasks
    BY <1>1, ItemTypes
  <2>2. \A i \in 1..Len(batches[q]) :
          /\ future'[batches[q][i].id] # "none"
          /\ \A t \in Tasks : In(t, batches[q][i].items) => t \in rows'[batches[q][i].id]
    BY <1>1, <2>1 DEF BatchesOK, Local
  <2>3. ASSUME NEW r \in Tasks, future'[r] = "pending", NEW t \in rows'[r], t[1] = q
        PROVE  \E i \in 1..Len(batches[q]) : batches[q][i].id = r /\ In(t, batches[q][i].items)
    <3>1. future[r] = "pending"
      BY <2>3
    <3>2. rows'[r] = rows[r]
      BY <3>1
    <3> QED  BY <1>1, <2>3, <3>1, <3>2 DEF BatchesOK, Local
  <2> QED  BY <2>2, <2>3 DEF BatchesOK
<1>5. FlowOK(q)'
  BY <1>1 DEF FlowOK, Local, Drained
<1>6. LimitsOK(q)'
  BY <1>1 DEF LimitsOK, Local
<1>7. OpenOK(q)'
  BY <1>1, <1>2 DEF OpenOK, Local, Drained
<1> QED  BY <1>2, <1>3, <1>4, <1>5, <1>6, <1>7 DEF Local

LEMMA DurableKept ==
  ASSUME durable \subseteq durable', NEW k \in Keys, Durable(k)
  PROVE  Durable(k)'
BY DEF Durable

\* A release closes one open claim.
LEMMA Released ==
  ASSUME IInv, NEW t \in Tasks, claim[t] = "open", NEW o \in {"ok", "failed", "error"},
         Release(t, o), o = "ok" => Durable(KeyOf[t]), UNCHANGED <<waitsOn, durable>>
  PROVE  /\ claims' \in [Keys -> Tasks \union {None}] /\ memo' \subseteq Keys
         /\ claim' \in [Tasks -> ClaimStates] /\ claim' = [claim EXCEPT ![t] = o]
         /\ claims' = [claims EXCEPT ![KeyOf[t]] = None]
         /\ ClaimsOK' /\ WaitsOK' /\ DurableOK'
<1>1. TypeOK /\ ClaimsOK /\ WaitsOK /\ DurableOK
  BY DEF IInv
<1>2. KeyOf[t] \in Keys /\ claims[KeyOf[t]] = t
  BY <1>1, TasksKnown DEF ClaimsOK
<1>3. /\ claim' = [claim EXCEPT ![t] = o] /\ claims' = [claims EXCEPT ![KeyOf[t]] = None]
      /\ memo' = IF o = "ok" THEN memo \union {KeyOf[t]} ELSE memo \ {KeyOf[t]}
  BY <1>2 DEF Release, Put
<1>4. /\ claims' \in [Keys -> Tasks \union {None}] /\ memo' \subseteq Keys
      /\ claim' \in [Tasks -> ClaimStates]
  BY <1>1, <1>2, <1>3 DEF TypeOK, ClaimStates
<1>5. ClaimsOK'
  <2>1. ASSUME NEW u \in Tasks, claim'[u] = "open"  PROVE claims'[KeyOf[u]] = u
    <3>1. u # t /\ claim[u] = "open"
      BY <1>1, <1>3, <2>1 DEF TypeOK
    <3>2. KeyOf[u] # KeyOf[t] /\ KeyOf[u] \in Keys
      BY <1>1, <1>2, <3>1, TasksKnown DEF ClaimsOK
    <3> QED  BY <1>1, <1>3, <3>1, <3>2, Types DEF ClaimsOK
  <2>2. ASSUME NEW k \in Keys, claims'[k] # None
        PROVE  KeyOf[claims'[k]] = k /\ claim'[claims'[k]] = "open"
    <3>1. k # KeyOf[t] /\ claims'[k] = claims[k] /\ claims[k] \in Tasks
      BY <1>1, <1>2, <1>3, <2>2, Types
    <3>2. claims[k] # t
      BY <1>1, <2>2, <3>1 DEF ClaimsOK
    <3> QED  BY <1>1, <1>3, <2>2, <3>1, <3>2, Types DEF ClaimsOK
  <2> QED  BY <2>1, <2>2 DEF ClaimsOK
<1>6. WaitsOK'
  <2> SUFFICES ASSUME NEW u \in Tasks, waitsOn[u] # None
               PROVE  /\ KeyOf[waitsOn[u]] = KeyOf[u] /\ claim'[waitsOn[u]] # "none"
                      /\ claim'[u] = IF waitsOn[u] = u THEN "ok" ELSE "none"
    BY DEF WaitsOK
  <2>1. /\ KeyOf[waitsOn[u]] = KeyOf[u] /\ claim[waitsOn[u]] # "none"
        /\ claim[u] = IF waitsOn[u] = u THEN "ok" ELSE "none"
        /\ waitsOn[u] \in Tasks
    BY <1>1, Types DEF WaitsOK
  <2>2. u # t
    BY <2>1
  <2> QED  BY <1>1, <1>3, <2>1, <2>2, Types
<1>7. DurableOK'
  <2>1. \A k \in Keys : Durable(k)' <=> Durable(k)
    BY DEF Durable
  <2> QED  BY <1>1, <1>2, <1>3, <2>1, TasksKnown DEF DurableOK, TypeOK
<1> QED  BY <1>3, <1>4, <1>5, <1>6, <1>7

-----------------------------------------------------------------------------
(* One step of each action preserves the invariant.                        *)

LEMMA ClaimStep ==
  ASSUME IInv, NEW p \in Pipelines, Claim(p)
  PROVE  IInv'
<1>1. TypeOK /\ ClaimsOK /\ WaitsOK /\ WorkOK /\ DurableOK /\ Local(p)
  BY DEF IInv
<1>0. /\ claims \in [Keys -> Tasks \union {None}] /\ claim \in [Tasks -> ClaimStates]
      /\ waitsOn \in [Tasks -> Tasks \union {None}] /\ cursor \in [Pipelines -> Nat]
      /\ pending \in [Pipelines -> SUBSET Tasks] /\ {"open", "ok"} \subseteq ClaimStates
  BY <1>1 DEF TypeOK, ClaimStates
<1>2. /\ pc[p] = "claim" /\ cursor[p] <= NTasks[p]
      /\ cursor' = Put(cursor, p, cursor[p] + 1)
      /\ UNCHANGED <<pc, current, storeQueue, stored, results, batches, mapGoal, storeGoal,
                     owed, emitting, emitted, future, rows, durable>>
  BY DEF Claim, storeVars, mapVars, goalVars, indexVars
<1>3. /\ <<p, cursor[p]>> \in Tasks /\ KeyOf[<<p, cursor[p]>>] \in Keys
      /\ cursor[p] \in Nat /\ cursor'[p] = cursor[p] + 1 /\ NTasks[p] \in Nat
  <2>1. cursor[p] \in Nat /\ cursor[p] # 0 /\ NTasks[p] \in Nat
    BY <1>1, TasksAssumption DEF TypeOK, Local, FlowOK
  <2>2. cursor[p] \in 1..NTasks[p]
    BY <1>2, <2>1
  <2>3. cursor'[p] = cursor[p] + 1
    BY <1>1, <1>2 DEF TypeOK, Put
  <2> QED  BY <2>1, <2>2, <2>3, TasksKnown
<1> PICK t \in Tasks : t = <<p, cursor[p]>>
  BY <1>3
<1> PICK k \in Keys : k = KeyOf[t]
  BY <1>3
<1> DEFINE Own == /\ claims' = Put(claims, k, t) /\ claim' = Put(claim, t, "open")
                  /\ pending' = Put(pending, p, pending[p] \union {t})
                  /\ UNCHANGED waitsOn
<1>6. cursor' \in [Pipelines -> Nat] /\ \A q \in Pipelines \ {p} : cursor'[q] = cursor[q]
  <2>1. cursor[p] + 1 \in Nat
    BY <1>3
  <2> QED  BY <1>0, <1>2, <2>1 DEF Put
<1>4. /\ t[1] = p /\ t[2] = cursor[p]
      /\ claim[t] = "none" /\ waitsOn[t] = None /\ Drained(p) /\ emitted[p] = <<>>
  BY <1>1, <1>2, <1>3 DEF Local, FlowOK
<1>5. ~Holds(p, t)
  BY <1>1, <1>3, <1>4 DEF Local, HeldOK
<1>7. \A u \in Tasks : u[1] = p /\ u[2] >= cursor[p] + 1 =>
        u # t /\ claim[u] = "none" /\ waitsOn[u] = None
  <2> SUFFICES ASSUME NEW u \in Tasks, u[1] = p, u[2] >= cursor[p] + 1
               PROVE  u # t /\ claim[u] = "none" /\ waitsOn[u] = None
    OBVIOUS
  <2>1. u[2] >= cursor[p] /\ u[2] # cursor[p]
    <3>1. u[2] \in Nat
      BY TasksKnown, <1>3
    <3> QED  BY <1>3, <3>1
  <2> QED  BY <1>1, <1>2, <1>3, <2>1 DEF Local, FlowOK
<1>8. WorkOK'
  BY <1>1, <1>2 DEF WorkOK
<1>9. EmittedOK(p)' /\ BatchesOK(p)'
  BY <1>1, <1>2, <1>4 DEF EmittedOK, BatchesOK, Drained, Local
<1>10. LimitsOK(p)'
  BY <1>1, <1>2 DEF Local, LimitsOK
<1>11. CASE /\ OpenClaim(k) /\ waitsOn' = Put(waitsOn, t, claims[k])
            /\ UNCHANGED <<claims, memo, claim, pending>>
  <2> USE <1>11
  <2>1. claims[k] \in Tasks /\ claims[k] # None
    BY <1>0 DEF OpenClaim
  <2>2. KeyOf[claims[k]] = k /\ claim[claims[k]] = "open"
    BY <1>1, <2>1 DEF ClaimsOK
  <2>3. /\ waitsOn' \in [Tasks -> Tasks \union {None}] /\ waitsOn'[t] = claims[k]
        /\ \A u \in Tasks : u # t => waitsOn'[u] = waitsOn[u]
    BY <1>0, <2>1 DEF Put
  <2>4. TypeOK'
    BY <1>1, <1>2, <1>6, <2>3 DEF TypeOK
  <2>5. WaitsOK'
    BY <1>1, <1>4, <2>1, <2>2, <2>3 DEF WaitsOK
  <2>6. ClaimsOK' /\ DurableOK'
    BY <1>1, <1>2 DEF ClaimsOK, DurableOK, Durable
  <2>7. HeldOK(p)' /\ OpenOK(p)'
    BY <1>1, <1>2 DEF Local, HeldOK, OpenOK, Holds, Drained
  <2>8. FlowOK(p)'
    BY <1>1, <1>2, <1>3, <1>4, <1>7, <2>3 DEF Local, FlowOK, Drained
  <2>9. \A q \in Pipelines \ {p} : Undisturbed(q)
    BY <1>2, <1>3, <1>6, <2>3 DEF Undisturbed
  <2> QED  BY <1>8, <1>9, <1>10, <2>4, <2>5, <2>6, <2>7, <2>8, <2>9, Elsewhere DEF IInv, Local
<1>12. CASE /\ ~OpenClaim(k) /\ k \in memo
            /\ claim' = Put(claim, t, "ok") /\ waitsOn' = Put(waitsOn, t, t)
            /\ UNCHANGED <<claims, memo, pending>>
  <2> USE <1>12
  <2>1. /\ waitsOn' \in [Tasks -> Tasks \union {None}] /\ waitsOn'[t] = t
        /\ \A u \in Tasks : u # t => waitsOn'[u] = waitsOn[u]
    BY <1>0 DEF Put
  <2>2. /\ claim' \in [Tasks -> ClaimStates] /\ claim'[t] = "ok"
        /\ \A u \in Tasks : u # t => claim'[u] = claim[u]
    BY <1>0 DEF Put
  <2>3. TypeOK'
    BY <1>1, <1>2, <1>6, <2>1, <2>2 DEF TypeOK
  <2>4. WaitsOK'
    <3>1. \A u \in Tasks : waitsOn[u] \in Tasks \union {None}
      BY <1>0
    <3> QED  BY <1>1, <1>4, <2>1, <2>2, <3>1 DEF WaitsOK
  <2>5. ClaimsOK'
    <3>1. \A j \in Keys : claims[j] \in Tasks \union {None}
      BY <1>0
    <3> QED  BY <1>1, <1>4, <2>2, <3>1 DEF ClaimsOK
  <2>6. DurableOK'
    BY <1>1, <1>2, <2>2 DEF DurableOK, Durable
  <2>7. HeldOK(p)' /\ OpenOK(p)'
    BY <1>1, <1>2, <1>4, <1>5, <2>2 DEF Local, HeldOK, OpenOK, Holds, Drained
  <2>8. FlowOK(p)'
    BY <1>1, <1>2, <1>3, <1>4, <1>7, <2>1, <2>2 DEF Local, FlowOK, Drained
  <2>9. \A q \in Pipelines \ {p} : Undisturbed(q)
    BY <1>2, <1>3, <1>4, <1>6, <2>1, <2>2, SMTT(20) DEF Undisturbed
  <2> QED  BY <1>8, <1>9, <1>10, <2>3, <2>4, <2>5, <2>6, <2>7, <2>8, <2>9, Elsewhere DEF IInv, Local
<1>13. CASE ~OpenClaim(k) /\ memo' \subseteq memo /\ Own
  <2> USE <1>13
  <2>1. /\ claim' \in [Tasks -> ClaimStates] /\ claim'[t] = "open"
        /\ \A u \in Tasks : u # t => claim'[u] = claim[u]
    BY <1>0 DEF Put
  <2>2. /\ claims' \in [Keys -> Tasks \union {None}] /\ claims'[k] = t
        /\ \A j \in Keys : j # k => claims'[j] = claims[j]
    BY <1>0 DEF Put
  <2>3. /\ pending' \in [Pipelines -> SUBSET Tasks] /\ pending'[p] = pending[p] \union {t}
        /\ \A q \in Pipelines \ {p} : pending'[q] = pending[q]
    <3>1. pending[p] \union {t} \in SUBSET Tasks
      BY <1>0
    <3> QED  BY <1>0, <3>1 DEF Put
  <2>4. claims[k] = None /\ \A u \in Tasks : claim[u] = "open" => KeyOf[u] # k
    BY <1>1, PipelineAssumption DEF ClaimsOK, OpenClaim
  <2>5. TypeOK'
    BY <1>1, <1>2, <1>6, <2>1, <2>2, <2>3 DEF TypeOK
  <2>6. WaitsOK'
    <3>1. \A u \in Tasks : waitsOn[u] \in Tasks \union {None}
      BY <1>0
    <3> QED  BY <1>1, <1>4, <2>1, <3>1 DEF WaitsOK
  <2>7. ClaimsOK'
    <3>1. \A j \in Keys : claims[j] \in Tasks \union {None}
      BY <1>0
    <3>2. \A u \in Tasks : claim'[u] = "open" => claims'[KeyOf[u]] = u
      BY <1>1, <2>1, <2>2, <2>4, TasksKnown, SMTT(20) DEF ClaimsOK
    <3>3. \A j \in Keys : claims'[j] # None => KeyOf[claims'[j]] = j /\ claim'[claims'[j]] = "open"
      BY <1>1, <1>4, <2>1, <2>2, <3>1 DEF ClaimsOK
    <3> QED  BY <3>2, <3>3 DEF ClaimsOK
  <2>8. DurableOK'
    BY <1>1, <1>2, <2>1 DEF DurableOK, Durable
  <2>9. HeldOK(p)' /\ \A u \in Tasks : Holds(p, u)' <=> Holds(p, u) \/ u = t
    <3>1. PlacesApart(pending[p], storeQueue[p], results[p], batches[p], owed[p])
      BY <1>1 DEF Local, HeldOK
    <3>2. /\ PlacesApart(pending[p] \union {t}, storeQueue[p], results[p], batches[p], owed[p])
          /\ \A u : Places(u, pending[p] \union {t}, storeQueue[p], results[p], batches[p], owed[p])
               <=> Places(u, pending[p], storeQueue[p], results[p], batches[p], owed[p]) \/ u = t
      BY <1>5, <3>1, PlaceClaimed DEF Holds
    <3>3. \A u \in Tasks : Holds(p, u)' <=> Holds(p, u) \/ u = t
      BY <1>2, <2>3, <3>2 DEF Holds
    <3>4. PlacesApart(pending[p], storeQueue[p], results[p], batches[p], owed[p])'
      BY <1>2, <2>3, <3>2
    <3> QED  BY <1>1, <1>4, <2>1, <3>3, <3>4 DEF Local, HeldOK
  <2>10. OpenOK(p)'
    BY <1>1, <1>2, <2>1, <2>9 DEF Local, OpenOK, Drained
  <2>11. FlowOK(p)'
    BY <1>1, <1>2, <1>3, <1>4, <1>7, <2>1 DEF Local, FlowOK, Drained
  <2>12. \A q \in Pipelines \ {p} : Undisturbed(q)
    BY <1>2, <1>3, <1>4, <1>6, <2>1, <2>3 DEF Undisturbed
  <2> QED  BY <1>8, <1>9, <1>10, <2>5, <2>6, <2>7, <2>8, <2>9, <2>10, <2>11, <2>12, Elsewhere DEF IInv, Local
<1> QED  BY <1>11, <1>12, <1>13 DEF Claim, claimVars

LEMMA LimitsKnown ==
  StoreLimit \in Nat /\ StoreLimit > 0 /\ ResultLimit \in Nat /\ ResultLimit > 0
  /\ BatchLimit \in Nat /\ BatchLimit > 1
BY PipelineAssumption

\* A pipeline whose mapping drain is over has room for a batch.
LEMMA IdleFits ==
  ASSUME IInv, NEW p \in Pipelines
  PROVE  /\ Len(storeQueue[p]) \in Nat /\ Len(results[p]) \in Nat /\ Len(batches[p]) \in Nat
         /\ MapsIdle(p) => Len(batches[p]) < BatchLimit
<1>1. TypeOK /\ LimitsOK(p)
  BY DEF IInv, Local
<1>2. storeQueue[p] \in Seq(Tasks) /\ results[p] \in Seq(Tasks) /\ batches[p] \in Seq(Batch)
  BY <1>1 DEF TypeOK
<1>3. MapsIdle(p) => Len(batches[p]) < BatchLimit
  <2>1. CASE mapGoal[p] = "none"
    BY <1>1, <2>1 DEF LimitsOK
  <2>2. CASE batches[p] = <<>>
    BY <2>2, LimitsKnown
  <2> QED  BY <2>1, <2>2 DEF MapsIdle
<1> QED  BY <1>2, <1>3

\* A step of p that only moves its control: where it is, its goals and reports.
LEMMA ControlStep ==
  ASSUME IInv, NEW p \in Pipelines,
         UNCHANGED <<claims, memo, claim, waitsOn, pending, storeQueue, stored, results,
                     batches, future, rows, durable>>,
         owed'[p] = owed[p], TypeOK',
         \A q \in Pipelines \ {p} :
           /\ pc'[q] = pc[q] /\ cursor'[q] = cursor[q] /\ current'[q] = current[q]
           /\ mapGoal'[q] = mapGoal[q] /\ storeGoal'[q] = storeGoal[q]
           /\ owed'[q] = owed[q] /\ emitted'[q] = emitted[q],
         EmittedOK(p)', FlowOK(p)', LimitsOK(p)',
         mapGoal'[p] = "rest" => mapGoal[p] = "rest",
         pc[p] \in {"abort", "aborting", "raised"} => pc'[p] \in {"abort", "aborting", "raised"},
         pc'[p] = "raised" /\ ~Leaky => Drained(p) /\ pending[p] = {}
  PROVE  IInv'
<1>1. ClaimsOK /\ WaitsOK /\ WorkOK /\ DurableOK /\ Local(p)
  BY DEF IInv
<1>2. ClaimsOK' /\ WaitsOK' /\ WorkOK' /\ DurableOK'
  BY <1>1 DEF ClaimsOK, WaitsOK, WorkOK, DurableOK, Durable
<1>3. HeldOK(p)' /\ \A t \in Tasks : Holds(p, t)' <=> Holds(p, t)
  BY <1>1 DEF Local, HeldOK, Holds
<1>4. BatchesOK(p)'
  BY <1>1 DEF Local, BatchesOK
<1>5. OpenOK(p)'
  BY <1>1, <1>3 DEF Local, OpenOK, Drained
<1>6. \A q \in Pipelines \ {p} : Undisturbed(q)
  BY DEF Undisturbed
<1> QED  BY <1>2, <1>3, <1>4, <1>5, <1>6, Elsewhere DEF IInv, Local

LEMMA StartStep ==
  ASSUME IInv, NEW p \in Pipelines, Start(p)
  PROVE  IInv'
<1> USE DEF Start, Goto, claimVars, taskVars, storeVars, mapVars, goalVars, indexVars
<1>1. TypeOK /\ Local(p)
  BY DEF IInv
<1>2. pc \in [Pipelines -> PcStates]
  BY <1>1 DEF TypeOK
<1>3. /\ pc' \in [Pipelines -> PcStates] /\ pc'[p] \in {"download", "raised"}
      /\ pc'[p] = "raised" => "setup" \in Faults
      /\ \A q \in Pipelines \ {p} : pc'[q] = pc[q]
  BY <1>2 DEF Put, PcStates
<1>4. TypeOK'
  BY <1>1, <1>3 DEF TypeOK
<1>5. EmittedOK(p)' /\ FlowOK(p)'
  BY <1>1, <1>3 DEF Local, EmittedOK, FlowOK, Drained
<1>6. LimitsOK(p)'
  BY <1>1, <1>3 DEF Local, LimitsOK
<1> QED  BY <1>3, <1>4, <1>5, <1>6, ControlStep DEF Leaky

LEMMA ArriveStep ==
  ASSUME IInv, NEW p \in Pipelines, NEW ok \in BOOLEAN, Arrive(p, ok)
  PROVE  IInv'
<1>1. TypeOK /\ Local(p)
  BY DEF IInv
<1>2. /\ pc \in [Pipelines -> PcStates] /\ current \in [Pipelines -> Tasks \union {None}]
      /\ pending[p] \subseteq Tasks
      /\ mapGoal \in [Pipelines -> {"none", "ready", "one", "rest", "all",
                                     "one_then_all", "ready_then_all"}]
      /\ storeGoal \in [Pipelines -> {"none", "ready", "one", "all"}]
  BY <1>1 DEF TypeOK
<1>3. /\ pc[p] = "download" /\ MapsIdle(p) /\ owed[p] = None
      /\ UNCHANGED <<claims, memo, claim, waitsOn, pending, storeQueue, stored, results,
                     batches, owed, emitting, cursor, emitted, future, rows, durable>>
  BY DEF Arrive, Settled, claimVars, storeVars, mapVars, indexVars
<1>4. /\ current' \in [Pipelines -> Tasks \union {None}] /\ current'[p] \in pending[p]
      /\ \A q \in Pipelines \ {p} : current'[q] = current[q]
  BY <1>2 DEF Arrive, Put
<1>5. /\ pc'[p] \in {"success", "failure"} /\ mapGoal'[p] = "none"
      /\ pc'[p] = "success" => storeGoal'[p] = "one" \/ Len(storeQueue[p]) < StoreLimit
      /\ pc'[p] = "failure" => storeGoal'[p] = "all"
      /\ pc' \in [Pipelines -> PcStates]
      /\ mapGoal' \in [Pipelines -> {"none", "ready", "one", "rest", "all",
                                      "one_then_all", "ready_then_all"}]
      /\ storeGoal' \in [Pipelines -> {"none", "ready", "one", "all"}]
      /\ \A q \in Pipelines \ {p} :
           pc'[q] = pc[q] /\ mapGoal'[q] = mapGoal[q] /\ storeGoal'[q] = storeGoal[q]
  <2>1. CASE ok
    <3>1. /\ pc' = Put(pc, p, "success") /\ mapGoal' = Put(mapGoal, p, "none")
          /\ storeGoal' = Put(storeGoal, p, IF Len(storeQueue[p]) >= StoreLimit THEN "one" ELSE "none")
      BY <2>1 DEF Arrive, Goto, Goal
    <3>2. Len(storeQueue[p]) >= StoreLimit \/ Len(storeQueue[p]) < StoreLimit
      BY IdleFits, LimitsKnown
    <3> QED  BY <1>2, <3>1, <3>2 DEF Put, PcStates
  <2>2. CASE ~ok
    <3>1. /\ pc' = Put(pc, p, "failure") /\ mapGoal' = Put(mapGoal, p, "none")
          /\ storeGoal' = Put(storeGoal, p, "all")
      BY <2>2 DEF Arrive, Goto, Goal
    <3> QED  BY <1>2, <3>1 DEF Put, PcStates
  <2> QED  BY <2>1, <2>2
<1>6. TypeOK'
  BY <1>1, <1>3, <1>4, <1>5 DEF TypeOK
<1>7. EmittedOK(p)'
  BY <1>1, <1>3, <1>5 DEF Local, EmittedOK
<1>8. FlowOK(p)'
  BY <1>1, <1>3, <1>4, <1>5 DEF Local, FlowOK, Drained
<1>9. LimitsOK(p)'
  <2>1. Len(storeQueue[p]) \in Nat /\ Len(batches[p]) < BatchLimit
    BY <1>3, IdleFits
  <2> QED  BY <1>1, <1>3, <1>5, <2>1, LimitsKnown DEF Local, LimitsOK
<1> QED  BY <1>3, <1>4, <1>5, <1>6, <1>7, <1>8, <1>9, ControlStep

LEMMA Aborted ==
  ASSUME TypeOK, NEW p \in Pipelines, Abort(p)
  PROVE  /\ pc' \in [Pipelines -> PcStates] /\ current' \in [Pipelines -> Tasks \union {None}]
         /\ owed' \in [Pipelines -> Tasks \union {None}] /\ emitting' \in [Pipelines -> BOOLEAN]
         /\ mapGoal' \in [Pipelines -> {"none", "ready", "one", "rest", "all",
                                         "one_then_all", "ready_then_all"}]
         /\ storeGoal' \in [Pipelines -> {"none", "ready", "one", "all"}]
         /\ pc'[p] = "abort" /\ mapGoal'[p] = "none" /\ storeGoal'[p] = "all" /\ owed'[p] = None
         /\ \A q \in Pipelines \ {p} :
              /\ pc'[q] = pc[q] /\ current'[q] = current[q] /\ owed'[q] = owed[q]
              /\ mapGoal'[q] = mapGoal[q] /\ storeGoal'[q] = storeGoal[q]
<1> USE DEF Abort, Goto, Goal, Put
<1>1. pc' \in [Pipelines -> PcStates] /\ pc'[p] = "abort" /\ \A q \in Pipelines \ {p} : pc'[q] = pc[q]
  BY DEF TypeOK, PcStates
<1>2. /\ current' \in [Pipelines -> Tasks \union {None}]
      /\ \A q \in Pipelines \ {p} : current'[q] = current[q]
  BY DEF TypeOK
<1>3. /\ owed' \in [Pipelines -> Tasks \union {None}] /\ owed'[p] = None
      /\ \A q \in Pipelines \ {p} : owed'[q] = owed[q]
  BY DEF TypeOK
<1>4. emitting' \in [Pipelines -> BOOLEAN]
  BY DEF TypeOK
<1>5. /\ mapGoal' \in [Pipelines -> {"none", "ready", "one", "rest", "all",
                                      "one_then_all", "ready_then_all"}]
      /\ mapGoal'[p] = "none" /\ \A q \in Pipelines \ {p} : mapGoal'[q] = mapGoal[q]
  BY DEF TypeOK
<1>6. /\ storeGoal' \in [Pipelines -> {"none", "ready", "one", "all"}]
      /\ storeGoal'[p] = "all" /\ \A q \in Pipelines \ {p} : storeGoal'[q] = storeGoal[q]
  BY DEF TypeOK
<1> QED  BY <1>1, <1>2, <1>3, <1>4, <1>5, <1>6

LEMMA Reported ==
  ASSUME TypeOK, NEW p \in Pipelines, NEW t \in Tasks, NEW o \in {"ok", "failed"}, Emit(p, t, o)
  PROVE  /\ emitted' \in [Pipelines -> Seq(Tasks \X {"ok", "failed"})]
         /\ \A q \in Pipelines \ {p} : emitted'[q] = emitted[q]
         /\ Len(emitted[p]) \in Nat /\ Len(emitted'[p]) = Len(emitted[p]) + 1
         /\ emitted'[p][Len(emitted[p]) + 1][1] = t /\ emitted'[p][Len(emitted[p]) + 1][2] = o
         /\ \A i \in 1..Len(emitted[p]) : emitted'[p][i] = emitted[p][i]
<1>1. emitted \in [Pipelines -> Seq(Tasks \X {"ok", "failed"})]
  BY DEF TypeOK
<1>2. PICK s \in Seq(Tasks \X {"ok", "failed"}) : s = emitted[p]
  BY <1>1
<1>3. <<t, o>> \in Tasks \X {"ok", "failed"} /\ <<t, o>>[1] = t /\ <<t, o>>[2] = o
  OBVIOUS
<1>4. /\ Append(s, <<t, o>>) \in Seq(Tasks \X {"ok", "failed"}) /\ Len(s) \in Nat
      /\ Len(Append(s, <<t, o>>)) = Len(s) + 1 /\ Append(s, <<t, o>>)[Len(s) + 1] = <<t, o>>
      /\ \A i \in 1..Len(s) : Append(s, <<t, o>>)[i] = s[i]
  BY <1>3
<1>5. emitted' = [emitted EXCEPT ![p] = Append(s, <<t, o>>)]
  BY <1>2 DEF Emit, Put
<1> QED  BY <1>1, <1>2, <1>3, <1>4, <1>5

LEMMA EndDownloadsStep ==
  ASSUME IInv, NEW p \in Pipelines, EndDownloads(p)
  PROVE  IInv'
<1>1. TypeOK /\ Local(p)
  BY DEF IInv
<1>2. /\ pc[p] = "download" /\ MapsIdle(p) /\ owed[p] = None
      /\ UNCHANGED <<claims, memo, claim, waitsOn, pending, storeQueue, stored, results,
                     batches, cursor, emitted, future, rows, durable>>
  BY DEF EndDownloads, Settled, claimVars, storeVars, mapVars, indexVars
<1>3. /\ pc' \in [Pipelines -> PcStates] /\ current' \in [Pipelines -> Tasks \union {None}]
      /\ owed' \in [Pipelines -> Tasks \union {None}] /\ emitting' \in [Pipelines -> BOOLEAN]
      /\ mapGoal' \in [Pipelines -> {"none", "ready", "one", "rest", "all",
                                      "one_then_all", "ready_then_all"}]
      /\ storeGoal' \in [Pipelines -> {"none", "ready", "one", "all"}]
      /\ pc'[p] = "abort" \/ (pc'[p] = "tail" /\ pending[p] = {})
      /\ mapGoal'[p] = "none" /\ storeGoal'[p] = "all" /\ owed'[p] = None
      /\ \A q \in Pipelines \ {p} :
           /\ pc'[q] = pc[q] /\ current'[q] = current[q] /\ owed'[q] = owed[q]
           /\ mapGoal'[q] = mapGoal[q] /\ storeGoal'[q] = storeGoal[q]
  <2>1. CASE /\ pending[p] = {} /\ Goto(p, "tail") /\ Goal(p, "none", "all")
             /\ UNCHANGED <<owed, emitting, current>>
    <3>1. /\ pc' = Put(pc, p, "tail") /\ mapGoal' = Put(mapGoal, p, "none")
          /\ storeGoal' = Put(storeGoal, p, "all")
      BY <2>1 DEF Goto, Goal
    <3> QED  BY <1>1, <1>2, <2>1, <3>1 DEF TypeOK, Put, PcStates
  <2>2. CASE Abort(p)
    BY <1>1, <2>2, Aborted
  <2> QED  BY <2>1, <2>2 DEF EndDownloads
<1>4. TypeOK'
  BY <1>1, <1>2, <1>3 DEF TypeOK
<1>5. EmittedOK(p)'
  BY <1>1, <1>2, <1>3 DEF Local, EmittedOK
<1>6. FlowOK(p)'
  BY <1>1, <1>2, <1>3 DEF Local, FlowOK, Drained
<1>7. LimitsOK(p)'
  BY <1>1, <1>2, <1>3, IdleFits DEF Local, LimitsOK
<1> QED  BY <1>2, <1>3, <1>4, <1>5, <1>6, <1>7, ControlStep

LEMMA BeginWaitersStep ==
  ASSUME IInv, NEW p \in Pipelines, BeginWaiters(p)
  PROVE  IInv'
<1>1. TypeOK /\ Local(p)
  BY DEF IInv
<1>2. /\ pc[p] = "flushed" /\ MapsIdle(p) /\ owed[p] = None
      /\ UNCHANGED <<claims, memo, claim, waitsOn, pending, current, storeQueue, stored, results,
                     batches, owed, emitting, emitted, future, rows, durable>>
      /\ pc' = Put(pc, p, "waiters") /\ cursor' = Put(cursor, p, 1)
      /\ mapGoal' = Put(mapGoal, p, "none") /\ storeGoal' = Put(storeGoal, p, "none")
  BY DEF BeginWaiters, Settled, Goto, Goal, claimVars, taskVars, storeVars, mapVars, indexVars
<1>3. /\ pc' \in [Pipelines -> PcStates] /\ cursor' \in [Pipelines -> Nat]
      /\ pc'[p] = "waiters" /\ cursor'[p] = 1
      /\ \A q \in Pipelines \ {p} : pc'[q] = pc[q] /\ cursor'[q] = cursor[q]
  BY <1>1, <1>2 DEF TypeOK, Put, PcStates
<1>4. /\ mapGoal' \in [Pipelines -> {"none", "ready", "one", "rest", "all",
                                      "one_then_all", "ready_then_all"}]
      /\ storeGoal' \in [Pipelines -> {"none", "ready", "one", "all"}]
      /\ mapGoal'[p] = "none" /\ storeGoal'[p] = "none"
      /\ \A q \in Pipelines \ {p} : mapGoal'[q] = mapGoal[q] /\ storeGoal'[q] = storeGoal[q]
  BY <1>1, <1>2 DEF TypeOK, Put
<1>5. Drained(p) /\ pending[p] = {}
  <2>1. batches[p] = <<>>
    BY <1>1, <1>2 DEF Local, FlowOK, MapsIdle
  <2> QED  BY <1>1, <1>2, <2>1 DEF Local, FlowOK, Drained
<1>6. TypeOK'
  BY <1>1, <1>2, <1>3, <1>4 DEF TypeOK
<1>7. EmittedOK(p)'
  BY <1>1, <1>2, <1>3 DEF Local, EmittedOK
<1>8. FlowOK(p)'
  BY <1>2, <1>3, <1>5 DEF FlowOK, Drained
<1>9. LimitsOK(p)'
  BY <1>1, <1>2, <1>3, <1>4, IdleFits DEF Local, LimitsOK
<1> QED  BY <1>2, <1>3, <1>4, <1>6, <1>7, <1>8, <1>9, ControlStep

LEMMA FinishWaiterStep ==
  ASSUME IInv, NEW p \in Pipelines, FinishWaiter(p)
  PROVE  IInv'
<1>1. TypeOK /\ WaitsOK /\ Local(p)
  BY DEF IInv
<1>2. /\ pc[p] = "waiters" /\ Drained(p) /\ pending[p] = {}
      /\ UNCHANGED <<claims, memo, claim, waitsOn, pending, current, storeQueue, stored, results,
                     batches, mapGoal, storeGoal, owed, emitting, future, rows, durable>>
  BY <1>1 DEF FinishWaiter, Local, FlowOK, claimVars, taskVars, storeVars, mapVars, goalVars, indexVars
<1>3. /\ pc \in [Pipelines -> PcStates] /\ cursor \in [Pipelines -> Nat]
      /\ cursor[p] \in Nat /\ cursor[p] # 0 /\ NTasks[p] \in Nat
      /\ {"waiters", "done", "raised"} \subseteq PcStates
  BY <1>1, TasksAssumption DEF TypeOK, Local, FlowOK, PcStates
<1>4. /\ pc' \in [Pipelines -> PcStates] /\ cursor' \in [Pipelines -> Nat]
      /\ pc'[p] \in {"waiters", "done", "raised"}
      /\ cursor'[p] = cursor[p] \/ cursor'[p] = cursor[p] + 1
      /\ cursor'[p] # 0
      /\ \A q \in Pipelines \ {p} : pc'[q] = pc[q] /\ cursor'[q] = cursor[q]
  <2>1. pc' \in {pc, Put(pc, p, "done"), Put(pc, p, "raised")}
    BY DEF FinishWaiter, Goto
  <2>2. cursor' = cursor \/ cursor' = Put(cursor, p, cursor[p] + 1)
    BY DEF FinishWaiter
  <2>3. cursor[p] + 1 \in Nat /\ cursor[p] + 1 # 0
    BY <1>3
  <2> QED  BY <1>2, <1>3, <2>1, <2>2, <2>3 DEF Put
<1>5. CASE UNCHANGED emitted
  <2>1. TypeOK'
    BY <1>1, <1>2, <1>4, <1>5 DEF TypeOK
  <2>2. EmittedOK(p)'
    <3> SUFFICES ASSUME NEW i \in 1..Len(emitted[p]), NEW t \in Tasks, t = emitted[p][i][1],
                        waitsOn[t] # None, pc'[p] = "waiters"
                 PROVE  t[2] < cursor'[p]
      BY <1>1, <1>2, <1>4, <1>5, ItemTypes DEF Local, EmittedOK
    <3>1. t[2] < cursor[p] /\ t[2] \in Nat
      BY <1>1, <1>2, TasksKnown DEF Local, EmittedOK
    <3> QED  BY <1>3, <1>4, <3>1
  <2>3. FlowOK(p)'
    BY <1>2, <1>4 DEF FlowOK, Drained
  <2>4. LimitsOK(p)'
    BY <1>1, <1>2, <1>4 DEF Local, LimitsOK
  <2> QED  BY <1>2, <1>4, <1>5, <2>1, <2>2, <2>3, <2>4, ControlStep
<1>6. CASE ~UNCHANGED emitted
  <2>1. /\ cursor[p] <= NTasks[p] /\ waitsOn[<<p, cursor[p]>>] # None
        /\ claim[waitsOn[<<p, cursor[p]>>]] \in {"ok", "failed"}
        /\ Emit(p, <<p, cursor[p]>>, claim[waitsOn[<<p, cursor[p]>>]])
        /\ \/ cursor' = Put(cursor, p, cursor[p] + 1) /\ UNCHANGED pc
           \/ pc' = Put(pc, p, "raised")
    <3>1. ~(cursor[p] > NTasks[p])
      BY <1>6 DEF FinishWaiter
    <3> QED  BY <1>3, <1>6, <3>1 DEF FinishWaiter, Answered, Goto
  <2>2. cursor[p] \in 1..NTasks[p]
    BY <1>3, <2>1
  <2> PICK t \in Tasks : t = <<p, cursor[p]>>
    BY <2>2, TasksKnown
  <2> PICK o \in {"ok", "failed"} : o = claim[waitsOn[t]]
    BY <2>1
  <2>3. t[1] = p /\ t[2] = cursor[p]
    OBVIOUS
  <2>4. /\ emitted' \in [Pipelines -> Seq(Tasks \X {"ok", "failed"})]
        /\ \A q \in Pipelines \ {p} : emitted'[q] = emitted[q]
        /\ Len(emitted[p]) \in Nat /\ Len(emitted'[p]) = Len(emitted[p]) + 1
        /\ emitted'[p][Len(emitted[p]) + 1][1] = t /\ emitted'[p][Len(emitted[p]) + 1][2] = o
        /\ \A i \in 1..Len(emitted[p]) : emitted'[p][i] = emitted[p][i]
    BY <1>1, <2>1, Reported
  <2>5. pc'[p] = "waiters" => cursor'[p] = cursor[p] + 1
    BY <1>2, <1>3, <2>1 DEF Put
  <2>6. TypeOK'
    BY <1>1, <1>2, <1>4, <2>4 DEF TypeOK
  <2>7. EmittedOK(p)'
    <3>1. ASSUME NEW i \in 1..Len(emitted[p]), NEW u \in Tasks, u = emitted'[p][i][1]
          PROVE  /\ u[1] = p
                 /\ waitsOn[u] = None => claim[u] = emitted'[p][i][2]
                 /\ waitsOn[u] # None => claim[waitsOn[u]] = emitted'[p][i][2]
                 /\ waitsOn[u] # None /\ pc'[p] = "waiters" => u[2] < cursor'[p]
      <4>1. /\ u[1] = p
            /\ waitsOn[u] = None => claim[u] = emitted'[p][i][2]
            /\ waitsOn[u] # None => claim[waitsOn[u]] = emitted'[p][i][2] /\ u[2] < cursor[p]
        BY <1>1, <1>2, <2>4, <3>1 DEF Local, EmittedOK
      <4>2. u[2] \in Nat
        BY TasksKnown
      <4> QED  BY <1>3, <2>5, <4>1, <4>2
    <3>2. \A i \in 1..Len(emitted'[p]) : i \in 1..Len(emitted[p]) \/ i = Len(emitted[p]) + 1
      BY <2>4
    <3>3. \A i \in 1..Len(emitted'[p]) : emitted'[p][i][1] \in Tasks
      BY <2>4, <3>2, <1>1, ItemTypes
    <3>4. waitsOn[t] # None /\ (pc'[p] = "waiters" => t[2] < cursor'[p])
      BY <1>3, <2>1, <2>3, <2>5
    <3> QED  BY <1>2, <1>4, <2>3, <2>4, <3>1, <3>2, <3>3, <3>4 DEF EmittedOK
  <2>8. FlowOK(p)'
    <3>1. pc'[p] \in {"waiters", "raised"}
      BY <1>2, <1>3, <2>1 DEF Put
    <3> QED  BY <1>2, <1>4, <3>1 DEF FlowOK, Drained
  <2>9. LimitsOK(p)'
    BY <1>1, <1>2, <1>4 DEF Local, LimitsOK
  <2> QED  BY <1>2, <1>4, <2>4, <2>6, <2>7, <2>8, <2>9, ControlStep
<1> QED  BY <1>5, <1>6

LEMMA LeaveDrainStep ==
  ASSUME IInv, NEW p \in Pipelines, LeaveDrain(p)
  PROVE  IInv'
<1>1. TypeOK /\ Local(p)
  BY DEF IInv
<1>2. UNCHANGED <<claims, memo, claim, waitsOn, pending, current, storeQueue, stored, results,
                  batches, owed, emitting, pc, cursor, emitted, future, rows, durable>>
  BY DEF LeaveDrain, claimVars, taskVars, storeVars, mapVars, controlVars, indexVars
<1>3. /\ mapGoal \in [Pipelines -> {"none", "ready", "one", "rest", "all",
                                      "one_then_all", "ready_then_all"}]
      /\ storeGoal \in [Pipelines -> {"none", "ready", "one", "all"}]
  BY <1>1 DEF TypeOK
<1>4. /\ mapGoal' \in [Pipelines -> {"none", "ready", "one", "rest", "all",
                                      "one_then_all", "ready_then_all"}]
      /\ storeGoal' \in [Pipelines -> {"none", "ready", "one", "all"}]
      /\ \A q \in Pipelines \ {p} : mapGoal'[q] = mapGoal[q] /\ storeGoal'[q] = storeGoal[q]
      /\ \/ /\ mapGoal[p] = "ready" /\ mapGoal'[p] = "none" /\ batches[p] # <<>>
            /\ storeGoal'[p] = storeGoal[p]
         \/ /\ mapGoal[p] = "ready_then_all" /\ mapGoal'[p] = "all"
            /\ storeGoal'[p] = storeGoal[p]
         \/ /\ mapGoal[p] = "ready_then_all" /\ mapGoal'[p] = "none" /\ batches[p] = <<>>
            /\ storeGoal'[p] = storeGoal[p]
         \/ /\ storeGoal[p] = "ready" /\ storeGoal'[p] = "none"
            /\ mapGoal'[p] = mapGoal[p]
  BY <1>3 DEF LeaveDrain, Put
<1>5. TypeOK'
  BY <1>1, <1>2, <1>4 DEF TypeOK
<1>6. EmittedOK(p)'
  BY <1>1, <1>2 DEF Local, EmittedOK
<1>7. FlowOK(p)'
  BY <1>1, <1>2, <1>4 DEF Local, FlowOK, Drained
<1>8. LimitsOK(p)'
  BY <1>1, <1>2, <1>4 DEF Local, LimitsOK
<1> QED  BY <1>1, <1>2, <1>4, <1>5, <1>6, <1>7, <1>8, ControlStep DEF Local, OpenOK

\* The types of what a step of a pipeline does to its control and its places.
ControlTyped ==
  /\ pc \in [Pipelines -> PcStates] /\ current \in [Pipelines -> Tasks \union {None}]
  /\ owed \in [Pipelines -> Tasks \union {None}] /\ emitting \in [Pipelines -> BOOLEAN]
  /\ mapGoal \in [Pipelines -> {"none", "ready", "one", "rest", "all",
                                 "one_then_all", "ready_then_all"}]
  /\ storeGoal \in [Pipelines -> {"none", "ready", "one", "all"}]

PlacesTyped ==
  /\ pending \in [Pipelines -> SUBSET Tasks] /\ storeQueue \in [Pipelines -> Seq(Tasks)]
  /\ results \in [Pipelines -> Seq(Tasks)] /\ batches \in [Pipelines -> Seq(Batch)]

\* Nothing of the control and the places of another pipeline changes.
OthersStay(p) ==
  \A q \in Pipelines \ {p} :
    /\ pc'[q] = pc[q] /\ current'[q] = current[q] /\ owed'[q] = owed[q]
    /\ mapGoal'[q] = mapGoal[q] /\ storeGoal'[q] = storeGoal[q]
    /\ pending'[q] = pending[q] /\ storeQueue'[q] = storeQueue[q]
    /\ results'[q] = results[q] /\ batches'[q] = batches[q]

LEMMA ReleaseReports ==
  ASSUME IInv, NEW p \in Pipelines, NEW t \in Tasks, NEW o \in {"ok", "failed", "error"},
         t[1] = p, claim[t] = "open", claim' = [claim EXCEPT ![t] = o], UNCHANGED waitsOn,
         pc[p] \notin {"waiters", "done", "raised"},
         UNCHANGED emitted \/ (o # "error" /\ Emit(p, t, o))
  PROVE  /\ EmittedOK(p)' /\ emitted' \in [Pipelines -> Seq(Tasks \X {"ok", "failed"})]
         /\ \A q \in Pipelines \ {p} : emitted'[q] = emitted[q]
<1>1. TypeOK /\ WaitsOK /\ EmittedOK(p)
  BY DEF IInv, Local
<1>2. waitsOn[t] = None
  BY <1>1 DEF WaitsOK
<1>3. claim'[t] = o /\ \A u \in Tasks : u # t => claim'[u] = claim[u]
  BY <1>1 DEF TypeOK
<1>4. \A i \in 1..Len(emitted[p]) :
        /\ emitted[p][i][1] \in Tasks /\ emitted[p][i][1] # t /\ emitted[p][i][1][1] = p
        /\ waitsOn[emitted[p][i][1]] = None /\ claim[emitted[p][i][1]] = emitted[p][i][2]
  BY <1>1, ItemTypes DEF EmittedOK
<1>5. CASE UNCHANGED emitted
  <2>1. EmittedOK(p)'
    BY <1>3, <1>4, <1>5 DEF EmittedOK
  <2> QED  BY <1>1, <1>5, <2>1 DEF TypeOK
<1>6. CASE o # "error" /\ Emit(p, t, o)
  <2>1. o \in {"ok", "failed"}
    BY <1>6
  <2>2. /\ emitted' \in [Pipelines -> Seq(Tasks \X {"ok", "failed"})]
        /\ \A q \in Pipelines \ {p} : emitted'[q] = emitted[q]
        /\ Len(emitted[p]) \in Nat /\ Len(emitted'[p]) = Len(emitted[p]) + 1
        /\ emitted'[p][Len(emitted[p]) + 1][1] = t /\ emitted'[p][Len(emitted[p]) + 1][2] = o
        /\ \A i \in 1..Len(emitted[p]) : emitted'[p][i] = emitted[p][i]
    BY <1>1, <1>6, <2>1, Reported
  <2>3. \A i \in 1..Len(emitted'[p]) : i \in 1..Len(emitted[p]) \/ i = Len(emitted[p]) + 1
    BY <2>2
  <2>4. \A i \in 1..Len(emitted[p]) :
          /\ emitted'[p][i][1][1] = p /\ waitsOn[emitted'[p][i][1]] = None
          /\ claim'[emitted'[p][i][1]] = emitted'[p][i][2]
    BY <1>3, <1>4, <2>2, SMTT(20)
  <2>5. \A i \in 1..Len(emitted'[p]) :
          /\ emitted'[p][i][1][1] = p /\ waitsOn[emitted'[p][i][1]] = None
          /\ claim'[emitted'[p][i][1]] = emitted'[p][i][2]
    BY <1>2, <1>3, <2>2, <2>3, <2>4
  <2>6. EmittedOK(p)'
    BY <2>5 DEF EmittedOK
  <2> QED  BY <2>2, <2>6
<1> QED  BY <1>5, <1>6

\* A step of p that releases the claim of a task it holds.
LEMMA ReleaseStep ==
  ASSUME IInv, NEW p \in Pipelines, NEW t \in Tasks, NEW o \in {"ok", "failed", "error"},
         Holds(p, t), Release(t, o), o = "ok" => Durable(KeyOf[t]),
         UNCHANGED emitted \/ (o # "error" /\ Emit(p, t, o)),
         UNCHANGED <<waitsOn, stored, cursor, future, rows, durable>>,
         pc[p] \notin {"waiters", "done", "raised"},
         ControlTyped', PlacesTyped', OthersStay(p),
         PlacesApart(pending'[p], storeQueue'[p], results'[p], batches'[p], owed'[p]),
         \A u \in Tasks : Holds(p, u)' => Holds(p, u) /\ u # t,
         BatchesOK(p)', FlowOK(p)', LimitsOK(p)',
         owed'[p] # None => "store" \in Faults, mapGoal'[p] = "rest" => "callback" \in Faults,
         \A u \in Tasks : Holds(p, u) /\ u # t =>
           Holds(p, u)' \/ (Leaky /\ pc'[p] \in {"abort", "aborting", "raised"}),
         pc[p] \in {"abort", "aborting"} => pc'[p] \in {"abort", "aborting", "raised"},
         pc'[p] = "raised" /\ ~Leaky => Drained(p)' /\ pending'[p] = {}
  PROVE  IInv'
<1>1. TypeOK /\ WorkOK /\ Local(p)
  BY DEF IInv
<1>2. t[1] = p /\ claim[t] = "open"
  BY <1>1 DEF Local, HeldOK
<1>3. /\ claims' \in [Keys -> Tasks \union {None}] /\ memo' \subseteq Keys
      /\ claim' \in [Tasks -> ClaimStates] /\ claim' = [claim EXCEPT ![t] = o]
      /\ ClaimsOK' /\ WaitsOK' /\ DurableOK'
  BY <1>2, Released
<1>4. claim'[t] = o /\ \A u \in Tasks : u # t => claim'[u] = claim[u]
  BY <1>1, <1>3 DEF TypeOK
<1>5. /\ EmittedOK(p)' /\ emitted' \in [Pipelines -> Seq(Tasks \X {"ok", "failed"})]
      /\ \A q \in Pipelines \ {p} : emitted'[q] = emitted[q]
  BY <1>2, <1>3, ReleaseReports, ZenonT(30)
<1>6. TypeOK'
  BY <1>1, <1>3, <1>5 DEF TypeOK, ControlTyped, PlacesTyped
<1>7. WorkOK'
  BY <1>1 DEF WorkOK
<1>8. HeldOK(p)'
  BY <1>1, <1>4 DEF Local, HeldOK
<1>9. OpenOK(p)'
  BY <1>1, <1>4 DEF Local, OpenOK
<1>10. \A q \in Pipelines \ {p} : Undisturbed(q)
  BY <1>2, <1>4, <1>5 DEF Undisturbed, OthersStay
<1> QED  BY <1>3, <1>5, <1>6, <1>7, <1>8, <1>9, <1>10, Elsewhere DEF IInv, Local

LEMMA ReleaseRestStep ==
  ASSUME IInv, NEW p \in Pipelines, ReleaseRest(p)
  PROVE  IInv'
<1>1. TypeOK /\ Local(p)
  BY DEF IInv
<1>2. /\ pc[p] = "aborting" /\ MapsIdle(p) /\ owed[p] = None
      /\ UNCHANGED <<waitsOn, current, storeQueue, stored, results, batches, mapGoal, storeGoal,
                     owed, emitting, cursor, emitted, future, rows, durable>>
  BY DEF ReleaseRest, Settled, storeVars, mapVars, goalVars, indexVars
<1>3. Drained(p)
  BY <1>1, <1>2 DEF Local, FlowOK, MapsIdle, Drained
<1>4. CASE pending[p] = {}
  <2>1. Goto(p, "raised") /\ UNCHANGED <<claims, memo, claim, pending>>
    BY <1>4 DEF ReleaseRest, Unreleased, claimVars
  <2>2. /\ pc' \in [Pipelines -> PcStates] /\ pc'[p] = "raised"
        /\ \A q \in Pipelines \ {p} : pc'[q] = pc[q]
    BY <1>1, <2>1 DEF TypeOK, Goto, Put, PcStates
  <2>3. TypeOK'
    BY <1>1, <1>2, <2>1, <2>2 DEF TypeOK
  <2>4. EmittedOK(p)' /\ FlowOK(p)' /\ LimitsOK(p)'
    BY <1>1, <1>2, <1>3, <2>1, <2>2 DEF Local, EmittedOK, FlowOK, LimitsOK, Drained
  <2> QED  BY <1>2, <1>3, <1>4, <2>1, <2>2, <2>3, <2>4, ControlStep
<1>5. CASE pending[p] # {}
  <2>1. PICK t \in pending[p] :
          /\ Release(t, "error") /\ pending' = Put(pending, p, pending[p] \ {t}) /\ UNCHANGED pc
    BY <1>5 DEF ReleaseRest, Unreleased
  <2>2. t \in Tasks /\ Holds(p, t)
    BY <1>1, Types DEF Holds, Places
  <2>3. /\ pending' \in [Pipelines -> SUBSET Tasks] /\ pending'[p] = pending[p] \ {t}
        /\ \A q \in Pipelines \ {p} : pending'[q] = pending[q]
    BY <1>1, <2>1 DEF TypeOK, Put
  <2>4. ControlTyped' /\ PlacesTyped' /\ OthersStay(p)
    BY <1>1, <1>2, <2>1, <2>3 DEF TypeOK, ControlTyped, PlacesTyped, OthersStay
  <2>5. PlacesApart(pending[p], storeQueue[p], results[p], batches[p], owed[p])
    BY <1>1 DEF Local, HeldOK
  <2>6. /\ PlacesApart(pending[p] \ {t}, storeQueue[p], results[p], batches[p], owed[p])
        /\ \A u \in Tasks : Places(u, pending[p] \ {t}, storeQueue[p], results[p], batches[p], owed[p])
             <=> Places(u, pending[p], storeQueue[p], results[p], batches[p], owed[p]) /\ u # t
    BY <2>1, <2>2, <2>5, PlaceDropped
  <2>7. \A u \in Tasks : Holds(p, u)' <=> Holds(p, u) /\ u # t
    BY <1>2, <2>3, <2>6 DEF Holds
  <2>8. PlacesApart(pending'[p], storeQueue'[p], results'[p], batches'[p], owed'[p])
    BY <1>2, <2>3, <2>6
  <2>9. BatchesOK(p)' /\ FlowOK(p)' /\ LimitsOK(p)'
    BY <1>1, <1>2, <2>1, <2>3 DEF Local, BatchesOK, FlowOK, LimitsOK, Drained
  <2> QED
    BY <1>1, <1>2, <2>1, <2>2, <2>4, <2>7, <2>8, <2>9, ReleaseStep DEF Local, OpenOK
<1> QED  BY <1>4, <1>5

LEMMA ReleaseFailedStep ==
  ASSUME IInv, NEW p \in Pipelines, ReleaseFailed(p)
  PROVE  IInv'
<1>1. TypeOK /\ Local(p)
  BY DEF IInv
<1>2. /\ pc[p] = "failed" /\ MapsIdle(p) /\ owed[p] = None
      /\ UNCHANGED <<waitsOn, storeQueue, stored, results, batches, cursor, future, rows, durable>>
      /\ Release(current[p], "failed") /\ Emit(p, current[p], "failed")
      /\ pending' = Put(pending, p, pending[p] \ {current[p]})
      /\ \/ /\ Goto(p, "download") /\ Goal(p, "none", "none")
            /\ current' = Put(current, p, None) /\ UNCHANGED <<owed, emitting>>
         \/ Abort(p)
  BY DEF ReleaseFailed, Settled, storeVars, mapVars, indexVars
<1>3. PICK t \in Tasks : t = current[p] /\ t \in pending[p]
  BY <1>1, <1>2, Types DEF Local, FlowOK
<1>4. Holds(p, t)
  BY <1>3 DEF Holds, Places
<1>5. /\ pending' \in [Pipelines -> SUBSET Tasks] /\ pending'[p] = pending[p] \ {t}
      /\ \A q \in Pipelines \ {p} : pending'[q] = pending[q]
  BY <1>1, <1>2, <1>3 DEF TypeOK, Put
<1>6. /\ ControlTyped' /\ pc'[p] \in {"download", "abort"} /\ mapGoal'[p] = "none" /\ owed'[p] = None
      /\ pc'[p] = "abort" => storeGoal'[p] = "all"
      /\ \A q \in Pipelines \ {p} :
           /\ pc'[q] = pc[q] /\ current'[q] = current[q] /\ owed'[q] = owed[q]
           /\ mapGoal'[q] = mapGoal[q] /\ storeGoal'[q] = storeGoal[q]
  <2>1. CASE /\ Goto(p, "download") /\ Goal(p, "none", "none")
             /\ current' = Put(current, p, None) /\ UNCHANGED <<owed, emitting>>
    <3>1. pc' = Put(pc, p, "download") /\ mapGoal' = Put(mapGoal, p, "none") /\ storeGoal' = Put(storeGoal, p, "none")
      BY <2>1 DEF Goto, Goal
    <3> QED  BY <1>1, <1>2, <2>1, <3>1 DEF TypeOK, ControlTyped, Put, PcStates
  <2>2. CASE Abort(p)
    BY <1>1, <2>2, Aborted DEF ControlTyped
  <2> QED  BY <1>2, <2>1, <2>2
<1>7. PlacesTyped' /\ OthersStay(p)
  BY <1>1, <1>2, <1>5, <1>6 DEF TypeOK, PlacesTyped, OthersStay
<1>8. /\ PlacesApart(pending[p] \ {t}, storeQueue[p], results[p], batches[p], owed[p])
      /\ \A u \in Tasks : Places(u, pending[p] \ {t}, storeQueue[p], results[p], batches[p], owed[p])
           <=> Places(u, pending[p], storeQueue[p], results[p], batches[p], owed[p]) /\ u # t
  BY <1>1, <1>3, PlaceDropped DEF Local, HeldOK
<1>9. \A u \in Tasks : Holds(p, u)' <=> Holds(p, u) /\ u # t
  BY <1>2, <1>5, <1>6, <1>8 DEF Holds
<1>10. PlacesApart(pending'[p], storeQueue'[p], results'[p], batches'[p], owed'[p])
  BY <1>2, <1>5, <1>6, <1>8
<1>11. BatchesOK(p)' /\ FlowOK(p)'
  BY <1>1, <1>2, <1>6 DEF Local, BatchesOK, FlowOK, Drained
<1>12. LimitsOK(p)'
  BY <1>1, <1>2, <1>6, IdleFits DEF Local, LimitsOK
<1> QED
  BY <1>2, <1>3, <1>4, <1>6, <1>7, <1>9, <1>10, <1>11, <1>12, ReleaseStep

LEMMA FinishOwedStep ==
  ASSUME IInv, NEW p \in Pipelines, FinishOwed(p)
  PROVE  IInv'
<1>1. TypeOK /\ Local(p)
  BY DEF IInv
<1>2. PICK t \in Tasks : t = owed[p]
  BY <1>1, Types DEF FinishOwed
<1>3. PICK o \in {"ok", "failed", "error"} : o # "ok" /\ Release(t, o)
                                             /\ (UNCHANGED emitted \/ (o # "error" /\ Emit(p, t, o)))
  BY <1>2 DEF FinishOwed
<1>4. /\ MapsIdle(p) /\ owed[p] # None
      /\ UNCHANGED <<waitsOn, pending, storeQueue, stored, results, batches, cursor, future, rows, durable>>
      /\ \/ /\ owed' = Put(owed, p, None) /\ mapGoal' = Put(mapGoal, p, "none")
            /\ UNCHANGED <<pc, storeGoal, emitting, current>>
         \/ Abort(p)
  BY DEF FinishOwed, storeVars, mapVars, indexVars
<1>5. Holds(p, t) /\ pc[p] \notin {"claim", "waiters", "done", "raised", "flushed", "aborting"}
  BY <1>1, <1>2, <1>4 DEF Holds, Places, Local, FlowOK, Drained
<1>6. /\ ControlTyped' /\ mapGoal'[p] = "none" /\ owed'[p] = None
      /\ \/ pc'[p] = pc[p] /\ storeGoal'[p] = storeGoal[p] /\ current'[p] = current[p]
         \/ pc'[p] = "abort" /\ storeGoal'[p] = "all"
      /\ \A q \in Pipelines \ {p} :
           /\ pc'[q] = pc[q] /\ current'[q] = current[q] /\ owed'[q] = owed[q]
           /\ mapGoal'[q] = mapGoal[q] /\ storeGoal'[q] = storeGoal[q]
  <2>1. CASE /\ owed' = Put(owed, p, None) /\ mapGoal' = Put(mapGoal, p, "none")
             /\ UNCHANGED <<pc, storeGoal, emitting, current>>
    BY <1>1, <2>1 DEF TypeOK, ControlTyped, Put
  <2>2. CASE Abort(p)
    BY <1>1, <2>2, Aborted DEF ControlTyped
  <2> QED  BY <1>4, <2>1, <2>2
<1>7. PlacesTyped' /\ OthersStay(p)
  BY <1>1, <1>4, <1>6 DEF TypeOK, PlacesTyped, OthersStay
<1>8. /\ PlacesApart(pending[p], storeQueue[p], results[p], batches[p], None)
      /\ \A u \in Tasks : Places(u, pending[p], storeQueue[p], results[p], batches[p], None)
           <=> Places(u, pending[p], storeQueue[p], results[p], batches[p], owed[p]) /\ u # owed[p]
  BY <1>1, PlaceSettled DEF Local, HeldOK
<1>9. \A u \in Tasks : Holds(p, u)' <=> Holds(p, u) /\ u # t
  BY <1>2, <1>4, <1>6, <1>8 DEF Holds
<1>10. PlacesApart(pending'[p], storeQueue'[p], results'[p], batches'[p], owed'[p])
  BY <1>4, <1>6, <1>8
<1>11. BatchesOK(p)'
  BY <1>1, <1>4 DEF Local, BatchesOK
<1>12. FlowOK(p)'
  BY <1>1, <1>4, <1>5, <1>6 DEF Local, FlowOK, Drained
<1>13. LimitsOK(p)'
  BY <1>1, <1>4, <1>6, IdleFits DEF Local, LimitsOK
<1> QED
  BY <1>3, <1>4, <1>5, <1>6, <1>7, <1>9, <1>10, <1>11, <1>12, <1>13, ReleaseStep

\* The control after an item of a batch: it goes on, the callback has raised, or
\* the error of the batch is raised.
LEMMA ItemControl ==
  ASSUME IInv, NEW p \in Pipelines, FinishMapping(p)
  PROVE  LET last == Len(Head(batches[p]).items) = 1 IN
         /\ ControlTyped'
         /\ \A q \in Pipelines \ {p} :
              /\ pc'[q] = pc[q] /\ current'[q] = current[q] /\ owed'[q] = owed[q]
              /\ mapGoal'[q] = mapGoal[q] /\ storeGoal'[q] = storeGoal[q]
         /\ \/ /\ pc'[p] = pc[p] /\ storeGoal'[p] = storeGoal[p] /\ owed'[p] = owed[p]
               /\ current'[p] = current[p]
               /\ \/ last /\ mapGoal[p] # "rest" /\ mapGoal'[p] = AfterBatch(mapGoal[p])
                  \/ ~last /\ mapGoal'[p] = mapGoal[p]
                  \/ ~last /\ mapGoal'[p] = "rest" /\ "callback" \in Faults
            \/ /\ pc'[p] = "raised" /\ mapGoal'[p] = "none" /\ storeGoal'[p] = "none"
               /\ owed'[p] = None /\ "mapping" \in Faults /\ last
            \/ /\ pc'[p] = "abort" /\ mapGoal'[p] = "none" /\ storeGoal'[p] = "all"
               /\ owed'[p] = None /\ "callback" \in Faults /\ last
<1> DEFINE last == Len(Head(batches[p]).items) = 1
           id == Head(batches[p]).id
           Goes == UNCHANGED <<pc, storeGoal, owed, emitting, current>>
<1>1. TypeOK /\ WorkOK /\ Local(p)
  BY DEF IInv
<1>2. mapGoal[p] \in {"none", "ready", "one", "rest", "all", "one_then_all", "ready_then_all"}
  BY <1>1, Types
<1>3. CASE /\ ~(last /\ mapGoal[p] = "rest") /\ Goes
           /\ mapGoal' = Put(mapGoal, p, IF last THEN AfterBatch(mapGoal[p]) ELSE mapGoal[p])
  <2>1. AfterBatch(mapGoal[p]) \in
          {"none", "ready", "one", "rest", "all", "one_then_all", "ready_then_all"}
    BY <1>2 DEF AfterBatch
  <2> HIDE DEF last
  <2> DEFINE g == IF last THEN AfterBatch(mapGoal[p]) ELSE mapGoal[p]
  <2>2. g \in {"none", "ready", "one", "rest", "all", "one_then_all", "ready_then_all"}
    BY <1>2, <2>1
  <2>3. \/ last /\ mapGoal[p] # "rest" /\ g = AfterBatch(mapGoal[p])
        \/ ~last /\ g = mapGoal[p]
    BY <1>3
  <2> HIDE DEF g
  <2>4. mapGoal' = Put(mapGoal, p, g)
    BY <1>3 DEF g
  <2>5. mapGoal'[p] = g
    BY <1>1, <2>4 DEF TypeOK, Put
  <2>6. /\ mapGoal' \in [Pipelines -> {"none", "ready", "one", "rest", "all",
                                        "one_then_all", "ready_then_all"}]
        /\ \A q \in Pipelines \ {p} : mapGoal'[q] = mapGoal[q]
    <3>1. mapGoal \in [Pipelines -> {"none", "ready", "one", "rest", "all",
                                      "one_then_all", "ready_then_all"}]
      BY <1>1 DEF TypeOK
    <3> QED  BY <2>2, <2>4, <3>1 DEF Put
  <2>7. ControlTyped'
    BY <1>1, <1>3, <2>6 DEF TypeOK, ControlTyped
  <2> QED  BY <1>3, <2>3, <2>5, <2>6, <2>7 DEF last
<1>4. CASE last /\ future[id] = "failed" /\ GiveUp(p)
  <2>1. id \in Tasks /\ "mapping" \in Faults
    <3>1. batches[p] # <<>> /\ batches[p] \in Seq(Batch)
      BY <1>1, Types DEF FinishMapping
    <3>2. Head(batches[p]) \in Batch
      BY <3>1
    <3>3. id \in Tasks
      BY <3>2 DEF Batch
    <3> QED  BY <1>1, <1>4, <3>3 DEF WorkOK
  <2>2. /\ pc' = Put(pc, p, "raised") /\ mapGoal' = Put(mapGoal, p, "none")
        /\ storeGoal' = Put(storeGoal, p, "none") /\ owed' = Put(owed, p, None)
        /\ UNCHANGED <<emitting, current>>
    BY <1>4 DEF GiveUp, Goto, Goal
  <2>3. ControlTyped'
    BY <1>1, <2>2 DEF TypeOK, ControlTyped, Put, PcStates
  <2>4. /\ pc'[p] = "raised" /\ mapGoal'[p] = "none" /\ storeGoal'[p] = "none" /\ owed'[p] = None
        /\ \A q \in Pipelines \ {p} :
             /\ pc'[q] = pc[q] /\ current'[q] = current[q] /\ owed'[q] = owed[q]
             /\ mapGoal'[q] = mapGoal[q] /\ storeGoal'[q] = storeGoal[q]
    BY <1>1, <2>2 DEF TypeOK, Put
  <2> QED  BY <1>4, <2>1, <2>3, <2>4
<1>5. CASE last /\ (mapGoal[p] = "rest" \/ MayRaise(p)) /\ Abort(p)
  <2>1. "callback" \in Faults
    BY <1>1, <1>5 DEF Local, OpenOK, MayRaise
  <2> QED  BY <1>1, <1>5, <2>1, Aborted DEF ControlTyped
<1>6. CASE ~last /\ MayRaise(p) /\ mapGoal' = Put(mapGoal, p, "rest") /\ Goes
  <2> HIDE DEF last
  <2>1. ControlTyped'
    BY <1>1, <1>6 DEF TypeOK, ControlTyped, Put
  <2>2. mapGoal'[p] = "rest" /\ \A q \in Pipelines \ {p} : mapGoal'[q] = mapGoal[q]
    BY <1>1, <1>6 DEF TypeOK, Put
  <2> QED  BY <1>6, <2>1, <2>2 DEF MayRaise, last
<1>7. \/ /\ ~(last /\ mapGoal[p] = "rest") /\ Goes
         /\ mapGoal' = Put(mapGoal, p, IF last THEN AfterBatch(mapGoal[p]) ELSE mapGoal[p])
      \/ last /\ future[id] = "failed" /\ GiveUp(p)
      \/ last /\ (mapGoal[p] = "rest" \/ MayRaise(p)) /\ Abort(p)
      \/ ~last /\ MayRaise(p) /\ mapGoal' = Put(mapGoal, p, "rest") /\ Goes
  <2>1. Outcome(p, id) = "error" => future[id] # "done"
    BY DEF Outcome
  <2>2. future[id] \in {"done", "failed"}
    BY DEF FinishMapping
  <2> QED  BY <2>1, <2>2 DEF FinishMapping
<1> QED  BY <1>3, <1>4, <1>5, <1>6, <1>7

LEMMA FinishMappingStep ==
  ASSUME IInv, NEW p \in Pipelines, FinishMapping(p)
  PROVE  IInv'
<1>1. TypeOK /\ WorkOK /\ Local(p)
  BY DEF IInv
<1>2. /\ mapGoal[p] # "none" /\ batches[p] # <<>> /\ batches[p] \in Seq(Batch)
      /\ future[Head(batches[p]).id] \in {"done", "failed"}
      /\ batches' = Put(batches, p, AfterItem(batches[p]))
      /\ UNCHANGED <<waitsOn, cursor, pending, storeQueue, stored, results, future, rows, durable>>
  BY <1>1, Types DEF FinishMapping, AfterItem, storeVars, indexVars
<1>3. PlacesApart(pending[p], storeQueue[p], results[p], batches[p], owed[p]) /\ BatchesApart(batches[p])
  BY <1>1 DEF Local, HeldOK, PlacesApart
<1>4. PICK B \in Seq(Batch) : B = batches[p]
  BY <1>2
<1>5. PICK t \in Tasks : t = Head(Head(B).items)
  BY <1>2, <1>3, <1>4, ItemLeavesFrom
<1>6. /\ In(t, B[1].items) /\ Head(B) = B[1] /\ Len(B) \in Nat /\ Len(B) >= 1 /\ B[1].id \in Tasks
  BY <1>1, <1>2, <1>3, <1>4, <1>5, ItemLeavesFrom, ItemTypes
<1>7. PICK C \in Seq(Batch) :
        /\ C = AfterItem(B) /\ Len(C) \in Nat
        /\ Len(Head(B).items) = 1 => Len(C) = Len(B) - 1
        /\ Len(Head(B).items) # 1 => Len(C) = Len(B)
        /\ \A i \in 1..Len(C) : \E j \in 1..Len(B) :
             C[i].id = B[j].id /\ \A u \in Tasks : In(u, C[i].items) => In(u, B[j].items)
        /\ \A j \in 1..Len(B) : \A u \in Tasks :
             In(u, B[j].items) /\ u # t => \E i \in 1..Len(C) : C[i].id = B[j].id /\ In(u, C[i].items)
  <2>1. BatchesApart(B) /\ B # <<>>
    BY <1>2, <1>3, <1>4
  <2> QED  BY <1>5, <2>1, ItemLeavesFrom
<1>8. /\ batches' \in [Pipelines -> Seq(Batch)] /\ batches'[p] = C
      /\ \A q \in Pipelines \ {p} : batches'[q] = batches[q]
  BY <1>1, <1>2, <1>4, <1>7 DEF TypeOK, Put
<1>9. /\ ControlTyped'
      /\ \A q \in Pipelines \ {p} :
           /\ pc'[q] = pc[q] /\ current'[q] = current[q] /\ owed'[q] = owed[q]
           /\ mapGoal'[q] = mapGoal[q] /\ storeGoal'[q] = storeGoal[q]
  BY ItemControl
<1> DEFINE last == Len(Head(B).items) = 1
           Goes == /\ pc'[p] = pc[p] /\ storeGoal'[p] = storeGoal[p] /\ owed'[p] = owed[p]
                   /\ current'[p] = current[p]
                   /\ \/ last /\ mapGoal[p] # "rest" /\ mapGoal'[p] = AfterBatch(mapGoal[p])
                      \/ ~last /\ mapGoal'[p] = mapGoal[p]
                      \/ ~last /\ mapGoal'[p] = "rest" /\ "callback" \in Faults
           GivesUp == /\ pc'[p] = "raised" /\ mapGoal'[p] = "none" /\ storeGoal'[p] = "none"
                      /\ owed'[p] = None /\ "mapping" \in Faults /\ last
           Aborts == /\ pc'[p] = "abort" /\ mapGoal'[p] = "none" /\ storeGoal'[p] = "all"
                     /\ owed'[p] = None /\ "callback" \in Faults /\ last
<1>10. Goes \/ GivesUp \/ Aborts
  BY <1>4, ItemControl
<1>11. pc[p] \notin {"claim", "waiters", "done", "raised"}
  BY <1>1, <1>2 DEF Local, FlowOK, Drained
<1>12. PlacesTyped' /\ OthersStay(p)
  BY <1>1, <1>2, <1>8, <1>9 DEF TypeOK, PlacesTyped, OthersStay
<1>13. /\ Holds(p, t)
       /\ PlacesApart(pending[p], storeQueue[p], results[p], C, owed[p])
       /\ \A u \in Tasks : Places(u, pending[p], storeQueue[p], results[p], C, owed[p])
            <=> Holds(p, u) /\ u # t
  <2>1. PlacesApart(pending[p], storeQueue[p], results[p], B, owed[p]) /\ B # <<>>
    BY <1>2, <1>3, <1>4
  <2>2. /\ Places(t, pending[p], storeQueue[p], results[p], B, owed[p])
        /\ PlacesApart(pending[p], storeQueue[p], results[p], AfterItem(B), owed[p])
        /\ \A u \in Tasks : Places(u, pending[p], storeQueue[p], results[p], AfterItem(B), owed[p])
             <=> Places(u, pending[p], storeQueue[p], results[p], B, owed[p]) /\ u # t
    BY <1>5, <2>1, PlaceLeft
  <2> QED  BY <1>4, <1>7, <2>2 DEF Holds
<1>14. /\ PlacesApart(pending[p], storeQueue[p], results[p], C, None)
       /\ \A u \in Tasks : Places(u, pending[p], storeQueue[p], results[p], C, None)
            <=> Holds(p, u) /\ u # t /\ u # owed[p]
  BY <1>13, PlaceSettled
<1>15. PlacesApart(pending'[p], storeQueue'[p], results'[p], batches'[p], owed'[p])
  BY <1>2, <1>8, <1>10, <1>13, <1>14
<1>16. /\ \A u \in Tasks : Holds(p, u)' => Holds(p, u) /\ u # t
       /\ \A u \in Tasks : Holds(p, u) /\ u # t /\ ~Holds(p, u)' => u = owed[p] /\ owed'[p] = None
       /\ Goes => \A u \in Tasks : Holds(p, u) /\ u # t => Holds(p, u)'
  BY <1>2, <1>8, <1>10, <1>13, <1>14 DEF Holds
<1>17. BatchesOK(p)'
  <2>1. \A i \in 1..Len(C) :
          /\ future[C[i].id] # "none"
          /\ \A u \in Tasks : In(u, C[i].items) => u \in rows[C[i].id]
    <3> TAKE i \in 1..Len(C)
    <3>1. PICK j \in 1..Len(B) :
            C[i].id = B[j].id /\ \A u \in Tasks : In(u, C[i].items) => In(u, B[j].items)
      BY <1>7
    <3>2. /\ future[B[j].id] # "none"
          /\ \A u \in Tasks : In(u, B[j].items) => u \in rows[B[j].id]
      BY <1>1, <1>4 DEF Local, BatchesOK
    <3> QED  BY <3>1, <3>2
  <2>2. ASSUME NEW r \in Tasks, future[r] = "pending", NEW u \in rows[r], u[1] = p
        PROVE  \E i \in 1..Len(C) : C[i].id = r /\ In(u, C[i].items)
    <3>1. PICK j \in 1..Len(B) : B[j].id = r /\ In(u, B[j].items)
      BY <1>1, <1>4, <2>2 DEF Local, BatchesOK
    <3>2. u \in Tasks
      BY <1>1, <2>2, Types
    <3>3. u # t
      <4>1. SUFFICES ASSUME u = t  PROVE FALSE
        OBVIOUS
      <4>2. 1 \in 1..Len(B) /\ In(t, B[j].items) /\ In(t, B[1].items)
        BY <1>6, <3>1, <4>1
      <4>3. j = 1
        BY <1>3, <1>4, <4>2 DEF BatchesApart
      <4> QED  BY <1>2, <1>4, <1>6, <2>2, <3>1, <4>3
    <3> QED  BY <1>7, <3>1, <3>2, <3>3
  <2> QED  BY <1>2, <1>8, <2>1, <2>2 DEF BatchesOK
<1>18. FlowOK(p)'
  <2>1. CASE Goes
    <3>1. pc[p] \in {"flushed", "aborting"} =>
            mapGoal'[p] \in {"all", "one_then_all", "ready_then_all", "rest"}
      BY <1>1, <1>2, <2>1 DEF Local, FlowOK, AfterBatch
    <3> HIDE DEF last
    <3> QED  BY <1>1, <1>2, <1>11, <2>1, <3>1 DEF Local, FlowOK, Drained
  <2>2. CASE GivesUp \/ Aborts
    BY <1>1, <1>2, <1>11, <2>2 DEF Local, FlowOK, Drained
  <2> QED  BY <1>10, <2>1, <2>2
<1>19. LimitsOK(p)'
  <2>1. Len(B) <= BatchLimit /\ (mapGoal[p] \in {"none", "ready", "ready_then_all"} => Len(B) < BatchLimit)
    BY <1>1, <1>4 DEF Local, LimitsOK
  <2>2. Len(C) <= BatchLimit /\ (mapGoal'[p] \in {"none", "ready", "ready_then_all"} => Len(C) < BatchLimit)
    <3>1. CASE last
      <4>1. Len(C) = Len(B) - 1
        BY <1>7, <3>1
      <4>2. PICK m \in Nat : m = Len(B)
        BY <1>6
      <4>3. PICK n \in Nat : n = Len(C)
        BY <1>7
      <4>4. n = m - 1 /\ m <= BatchLimit
        BY <2>1, <4>1, <4>2, <4>3
      <4>5. n <= BatchLimit /\ n < BatchLimit
        BY <4>4, LimitsKnown
      <4> QED  BY <4>3, <4>5
    <3>2. CASE ~last
      BY <1>6, <1>7, <1>10, <2>1, <3>2, LimitsKnown
    <3> QED  BY <3>1, <3>2
  <2>3. pc'[p] = "success" => pc[p] = "success" /\ storeGoal'[p] = storeGoal[p]
    BY <1>10
  <2> QED  BY <1>1, <1>2, <1>8, <2>2, <2>3 DEF Local, LimitsOK
<1> PICK o \in {"ok", "failed", "error"} : o = Outcome(p, Head(B).id)
  BY DEF Outcome
<1>20. Release(t, o) /\ (UNCHANGED emitted \/ (o # "error" /\ Emit(p, t, o)))
  <2>1. emitting[p] => o # "error"
    BY DEF Outcome
  <2> QED  BY <1>4, <1>5, <2>1 DEF FinishMapping
<1>21. o = "ok" => Durable(KeyOf[t])
  <2>1. SUFFICES ASSUME o = "ok"  PROVE t \in durable
    BY DEF Durable
  <2>2. future[B[1].id] = "done" /\ 1 \in 1..Len(batches[p])
    BY <1>4, <1>6, <2>1 DEF Outcome
  <2>3. t \in rows[B[1].id]
    BY <1>1, <1>4, <1>6, <2>2 DEF Local, BatchesOK
  <2> QED  BY <1>1, <1>6, <2>2, <2>3 DEF WorkOK
<1>22. /\ owed'[p] # None => "store" \in Faults
       /\ mapGoal'[p] = "rest" => "callback" \in Faults
  <2>1. \A g : AfterBatch(g) = "rest" => g = "rest"
    BY DEF AfterBatch
  <2> QED  BY <1>1, <1>10, <2>1 DEF Local, OpenOK
<1>23. \A u \in Tasks : Holds(p, u) /\ u # t =>
         Holds(p, u)' \/ (Leaky /\ pc'[p] \in {"abort", "aborting", "raised"})
  <2>1. owed[p] \in Tasks => "store" \in Faults
    BY <1>1, PipelineAssumption DEF Local, OpenOK
  <2>2. CASE Goes
    BY <1>16, <2>2
  <2>3. CASE GivesUp
    BY <2>3 DEF Leaky
  <2>4. CASE Aborts
    BY <1>16, <2>1, <2>4 DEF Leaky
  <2> QED  BY <1>10, <2>2, <2>3, <2>4
<1>24. /\ pc[p] \in {"abort", "aborting"} => pc'[p] \in {"abort", "aborting", "raised"}
       /\ ~(pc'[p] = "raised" /\ ~Leaky)
  BY <1>10, <1>11 DEF Leaky
<1> HIDE DEF Goes, GivesUp, Aborts, last
<1> QED
  BY <1>2, <1>9, <1>11, <1>12, <1>13, <1>15, <1>16, <1>17, <1>18, <1>19, <1>20, <1>21,
     <1>22, <1>23, <1>24, ReleaseStep

\* The goal a submitted batch sets: it waits as soon as the limit is reached.
LEMMA SubmitGoal ==
  ASSUME IInv, NEW p \in Pipelines, NEW R \in Seq(Tasks), NEW flush \in BOOLEAN,
         MapsIdle(p), SubmitResults(p, R, flush)
  PROVE  /\ mapGoal' \in [Pipelines -> {"none", "ready", "one", "rest", "all",
                                         "one_then_all", "ready_then_all"}]
         /\ \A q \in Pipelines \ {p} : mapGoal'[q] = mapGoal[q]
         /\ mapGoal'[p] # "rest"
         /\ flush => mapGoal'[p] \in {"all", "one_then_all", "ready_then_all"}
         /\ R # <<>> /\ mapGoal'[p] \in {"none", "ready", "ready_then_all"} =>
              Len(batches[p]) + 1 < BatchLimit
<1> DEFINE full == Len(batches[p]) + 1 >= BatchLimit
<1>1. mapGoal \in [Pipelines -> {"none", "ready", "one", "rest", "all",
                                  "one_then_all", "ready_then_all"}]
      /\ emitting[p] \in BOOLEAN
  BY DEF IInv, TypeOK
<1>2. full \/ Len(batches[p]) + 1 < BatchLimit
  BY IdleFits, LimitsKnown
<1> HIDE DEF full
<1>3. PICK g \in {"none", "ready", "one", "all", "one_then_all", "ready_then_all"} :
        /\ mapGoal' = Put(mapGoal, p, g)
        /\ flush => g \in {"all", "one_then_all", "ready_then_all"}
        /\ R # <<>> /\ g \in {"none", "ready", "ready_then_all"} => ~full
  <2>1. CASE R = <<>>
    <3>1. mapGoal' = Put(mapGoal, p, IF flush THEN "all" ELSE "none")
      BY <2>1 DEF SubmitResults
    <3>2. CASE flush
      BY <2>1, <3>1, <3>2
    <3>3. CASE ~flush
      BY <2>1, <3>1, <3>3
    <3> QED  BY <3>2, <3>3
  <2>2. CASE R # <<>>
    <3>1. mapGoal' = Put(mapGoal, p,
                CASE flush /\ emitting[p]         -> "all"
                  [] flush /\ ~emitting[p] /\ full  -> "one_then_all"
                  [] flush /\ ~emitting[p] /\ ~full -> "ready_then_all"
                  [] ~flush /\ full                -> "one"
                  [] ~flush /\ ~full               -> "ready")
      BY <2>2 DEF SubmitResults, full
    <3>2. CASE flush /\ emitting[p]
      <4>1. mapGoal' = Put(mapGoal, p, "all")
        BY <3>1, <3>2
      <4> QED  BY <3>2, <4>1
    <3>3. CASE flush /\ ~emitting[p] /\ full
      <4>1. mapGoal' = Put(mapGoal, p, "one_then_all")
        BY <3>1, <3>3
      <4> QED  BY <3>3, <4>1
    <3>4. CASE flush /\ ~emitting[p] /\ ~full
      <4>1. mapGoal' = Put(mapGoal, p, "ready_then_all")
        BY <3>1, <3>4
      <4> QED  BY <3>4, <4>1
    <3>5. CASE ~flush /\ full
      <4>1. mapGoal' = Put(mapGoal, p, "one")
        BY <3>1, <3>5
      <4> QED  BY <3>5, <4>1
    <3>6. CASE ~flush /\ ~full
      <4>1. mapGoal' = Put(mapGoal, p, "ready")
        BY <3>1, <3>6
      <4> QED  BY <3>6, <4>1
    <3> QED  BY <3>2, <3>3, <3>4, <3>5, <3>6
  <2> QED  BY <2>1, <2>2
<1>4. mapGoal'[p] = g
  BY <1>1, <1>3 DEF Put
<1>5. mapGoal' \in [Pipelines -> {"none", "ready", "one", "rest", "all",
                                   "one_then_all", "ready_then_all"}]
      /\ \A q \in Pipelines \ {p} : mapGoal'[q] = mapGoal[q]
  BY <1>1, <1>3 DEF Put
<1> QED  BY <1>2, <1>3, <1>4, <1>5

\* The results R of p become one batch, whose future has their rows; nothing
\* else changes its place.
BecomesBatch(p, P, S, R, w) ==
  /\ results' \in [Pipelines -> Seq(Tasks)] /\ batches' \in [Pipelines -> Seq(Batch)]
  /\ future' \in [Tasks -> {"none", "pending", "done", "failed"}]
  /\ rows' \in [Tasks -> SUBSET Tasks] /\ durable' = durable
  /\ \A q \in Pipelines \ {p} : results'[q] = results[q] /\ batches'[q] = batches[q]
  /\ results'[p] = <<>> /\ PlacesApart(P, S, <<>>, batches'[p], w)
  /\ \A u \in Tasks : Places(u, P, S, <<>>, batches'[p], w) <=> Places(u, P, S, R, batches[p], w)
  /\ BatchesOK(p)'
  /\ Len(batches'[p]) <= BatchLimit
  /\ mapGoal'[p] \in {"none", "ready", "ready_then_all"} => Len(batches'[p]) < BatchLimit
  /\ \A r \in Tasks : future[r] # "none" => future'[r] = future[r] /\ rows'[r] = rows[r]
  /\ \A r \in Tasks : future[r] = "none" =>
       /\ future'[r] \in {"none", "pending", "failed"}
       /\ future'[r] = "failed" => "mapping" \in Faults
       /\ future'[r] = "pending" => \A u \in rows'[r] : u[1] = p

LEMMA Submitted ==
  ASSUME IInv, NEW p \in Pipelines, NEW P, NEW S, NEW R \in Seq(Tasks), NEW w,
         NEW flush \in BOOLEAN, PlacesApart(P, S, R, batches[p], w),
         \A u \in Tasks : In(u, R) => u[1] = p,
         MapsIdle(p), SubmitResults(p, R, flush)
  PROVE  BecomesBatch(p, P, S, R, w)
<1>1. TypeOK /\ BatchesOK(p)
  BY DEF IInv, Local
<1>2. /\ results \in [Pipelines -> Seq(Tasks)] /\ batches \in [Pipelines -> Seq(Batch)]
      /\ future \in [Tasks -> {"none", "pending", "done", "failed"}]
      /\ rows \in [Tasks -> SUBSET Tasks]
  BY <1>1 DEF TypeOK
<1>3. PICK B \in Seq(Batch) : B = batches[p]
  BY <1>2
<1>4. Len(B) \in Nat /\ Len(B) < BatchLimit
  BY <1>3, IdleFits
<1>5. CASE R = <<>>
  <2>1. results' = Put(results, p, <<>>) /\ UNCHANGED <<batches, future, rows, durable>>
    BY <1>5 DEF SubmitResults, indexVars
  <2>2. /\ results' \in [Pipelines -> Seq(Tasks)] /\ results'[p] = <<>>
        /\ \A q \in Pipelines \ {p} : results'[q] = results[q]
    <3>1. <<>> \in Seq(Tasks)
      OBVIOUS
    <3> QED  BY <1>2, <2>1, <3>1 DEF Put
  <2>3. BatchesOK(p)'
    BY <1>1, <2>1 DEF BatchesOK
  <2>4. /\ PlacesApart(P, S, <<>>, batches'[p], w)
        /\ \A u \in Tasks : Places(u, P, S, <<>>, batches'[p], w) <=> Places(u, P, S, R, batches[p], w)
    BY <1>5, <2>1
  <2>5. Len(batches'[p]) <= BatchLimit /\ Len(batches'[p]) < BatchLimit
    <3>1. PICK n \in Nat : n = Len(B)
      BY <1>4
    <3>2. n <= BatchLimit /\ n < BatchLimit
      BY <1>4, <3>1, LimitsKnown
    <3> QED  BY <1>3, <2>1, <3>1, <3>2
  <2> QED  BY <1>2, <2>1, <2>2, <2>3, <2>4, <2>5 DEF BecomesBatch
<1>6. CASE R # <<>>
  <2>1. PICK h \in Tasks : h = Head(R)
    BY <1>6, TailOnce DEF PlacesApart
  <2>2. PICK C \in Seq(Batch) :
          /\ C = Append(B, [id |-> h, items |-> R]) /\ Len(C) = Len(B) + 1
          /\ C[Len(C)] = [id |-> h, items |-> R] /\ \A i \in 1..Len(B) : C[i] = B[i]
          /\ PlacesApart(P, S, <<>>, C, w)
          /\ \A u \in Tasks : Places(u, P, S, <<>>, C, w) <=> Places(u, P, S, R, B, w)
    <3>1. PlacesApart(P, S, R, B, w)
      BY <1>3
    <3> QED  BY <1>6, <2>1, <3>1, PlaceBatched
  <2>3. PICK a \in {"pending", "failed"} :
          Submit(h, {R[i] : i \in 1..Len(R)}, a) /\ (a = "failed" => "mapping" \in Faults)
    BY <1>6, <2>1 DEF SubmitResults
  <2>4. /\ results' = Put(results, p, <<>>)
        /\ batches' = Put(batches, p, C)
    BY <1>3, <1>6, <2>1, <2>2 DEF SubmitResults
  <2>5. /\ results' \in [Pipelines -> Seq(Tasks)] /\ results'[p] = <<>>
        /\ \A q \in Pipelines \ {p} : results'[q] = results[q]
    <3>1. <<>> \in Seq(Tasks)
      OBVIOUS
    <3> QED  BY <1>2, <2>4, <3>1 DEF Put
  <2>6. /\ batches' \in [Pipelines -> Seq(Batch)] /\ batches'[p] = C
        /\ \A q \in Pipelines \ {p} : batches'[q] = batches[q]
    BY <1>2, <2>4 DEF Put
  <2>7. /\ {R[i] : i \in 1..Len(R)} \subseteq Tasks
        /\ \A u \in Tasks : u \in {R[i] : i \in 1..Len(R)} <=> In(u, R)
    BY DEF In
  <2>8. /\ future' \in [Tasks -> {"none", "pending", "done", "failed"}]
        /\ rows' \in [Tasks -> SUBSET Tasks] /\ durable' = durable
        /\ future[h] = "none" /\ future'[h] = a /\ rows'[h] = {R[i] : i \in 1..Len(R)}
        /\ \A r \in Tasks : r # h => future'[r] = future[r] /\ rows'[r] = rows[r]
    BY <1>2, <2>3, <2>7 DEF Submit
  <2>9. BatchesOK(p)'
    <3>1. ASSUME NEW i \in 1..Len(C)
          PROVE  /\ future'[C[i].id] # "none"
                 /\ \A u \in Tasks : In(u, C[i].items) => u \in rows'[C[i].id]
      <4>1. CASE i \in 1..Len(B)
        <5>1. /\ future[B[i].id] # "none" /\ B[i].id \in Tasks
              /\ \A u \in Tasks : In(u, B[i].items) => u \in rows[B[i].id]
          BY <1>1, <1>3, <4>1, ItemTypes DEF BatchesOK
        <5> QED  BY <2>2, <2>8, <4>1, <5>1
      <4>2. CASE i = Len(C)
        BY <2>2, <2>7, <2>8, <4>2
      <4> QED  BY <1>4, <2>2, <4>1, <4>2
    <3>2. ASSUME NEW r \in Tasks, future'[r] = "pending", NEW u \in rows'[r], u[1] = p
          PROVE  \E i \in 1..Len(C) : C[i].id = r /\ In(u, C[i].items)
      <4>1. CASE r = h
        <5>1. In(u, R) /\ Len(C) \in 1..Len(C)
          BY <1>4, <2>2, <2>7, <2>8, <3>2, <4>1
        <5> QED  BY <2>2, <4>1, <5>1
      <4>2. CASE r # h
        <5>1. PICK i \in 1..Len(B) : B[i].id = r /\ In(u, B[i].items)
          BY <1>1, <1>3, <2>8, <3>2, <4>2, SMTT(20) DEF BatchesOK
        <5>2. i \in 1..Len(C) /\ C[i] = B[i]
          BY <1>4, <2>2
        <5> QED  BY <5>1, <5>2
      <4> QED  BY <4>1, <4>2
    <3> QED  BY <2>6, <3>1, <3>2 DEF BatchesOK
  <2>10. /\ Len(C) <= BatchLimit
         /\ mapGoal'[p] \in {"none", "ready", "ready_then_all"} => Len(C) < BatchLimit
    <3>1. mapGoal'[p] \in {"none", "ready", "ready_then_all"} => Len(B) + 1 < BatchLimit
      BY <1>3, <1>6, SubmitGoal
    <3>2. PICK n \in Nat : n = Len(B)
      BY <1>4
    <3>3. n < BatchLimit /\ Len(C) = n + 1
      BY <1>4, <2>2, <3>2
    <3>4. n + 1 <= BatchLimit
      BY <3>3, LimitsKnown
    <3> QED  BY <3>1, <3>2, <3>3, <3>4
  <2>11. \A r \in Tasks : future[r] = "none" =>
              /\ future'[r] \in {"none", "pending", "failed"}
              /\ future'[r] = "failed" => "mapping" \in Faults
              /\ future'[r] = "pending" => \A u \in rows'[r] : u[1] = p
    BY <2>3, <2>7, <2>8
  <2> QED  BY <1>3, <2>2, <2>5, <2>6, <2>8, <2>9, <2>10, <2>11 DEF BecomesBatch
<1> QED  BY <1>5, <1>6

\* A submission leaves the futures, and so the promises made about them, alone.
LEMMA SubmittedWork ==
  ASSUME IInv, durable' = durable, UNCHANGED stored,
         \A r \in Tasks : future[r] # "none" => future'[r] = future[r] /\ rows'[r] = rows[r],
         \A r \in Tasks : future[r] = "none" =>
           /\ future'[r] \in {"none", "pending", "failed"}
           /\ future'[r] = "failed" => "mapping" \in Faults
  PROVE  WorkOK'
<1>1. WorkOK
  BY DEF IInv
<1> QED  BY <1>1 DEF WorkOK

LEMMA FlushStep ==
  ASSUME IInv, NEW p \in Pipelines, Flush(p)
  PROVE  IInv'
<1>1. TypeOK /\ Local(p) /\ ClaimsOK /\ WaitsOK /\ DurableOK
  BY DEF IInv
<1>2. /\ MapsIdle(p) /\ owed[p] = None /\ StoresIdle(p)
      /\ SubmitResults(p, results[p], TRUE)
      /\ storeGoal' = Put(storeGoal, p, "none")
      /\ UNCHANGED <<claims, memo, claim, waitsOn, pending, current, storeQueue, stored, owed,
                     emitting, cursor, emitted>>
      /\ \/ pc[p] = "failure" /\ pc' = Put(pc, p, "failed")
         \/ pc[p] = "tail" /\ pc' = Put(pc, p, "flushed")
         \/ pc[p] = "abort" /\ pc' = Put(pc, p, "aborting")
  BY DEF Flush, Settled, Goto, claimVars, taskVars, storeVars
<1>3. PICK R \in Seq(Tasks) : R = results[p]
  BY <1>1, Types
<1>4. /\ PlacesApart(pending[p], storeQueue[p], R, batches[p], owed[p])
      /\ \A u \in Tasks : In(u, R) => u[1] = p
      /\ SubmitResults(p, R, TRUE)
  BY <1>1, <1>2, <1>3 DEF Local, HeldOK, Holds, Places
<1>5. /\ results' \in [Pipelines -> Seq(Tasks)] /\ batches' \in [Pipelines -> Seq(Batch)]
      /\ future' \in [Tasks -> {"none", "pending", "done", "failed"}]
      /\ rows' \in [Tasks -> SUBSET Tasks] /\ durable' = durable
      /\ \A q \in Pipelines \ {p} : results'[q] = results[q] /\ batches'[q] = batches[q]
      /\ results'[p] = <<>> /\ PlacesApart(pending[p], storeQueue[p], <<>>, batches'[p], owed[p])
      /\ \A u \in Tasks : Places(u, pending[p], storeQueue[p], <<>>, batches'[p], owed[p])
                            <=> Places(u, pending[p], storeQueue[p], R, batches[p], owed[p])
      /\ BatchesOK(p)'
      /\ Len(batches'[p]) <= BatchLimit
      /\ mapGoal'[p] \in {"none", "ready", "ready_then_all"} => Len(batches'[p]) < BatchLimit
      /\ \A r \in Tasks : future[r] # "none" => future'[r] = future[r] /\ rows'[r] = rows[r]
      /\ \A r \in Tasks : future[r] = "none" =>
           /\ future'[r] \in {"none", "pending", "failed"}
           /\ future'[r] = "failed" => "mapping" \in Faults
           /\ future'[r] = "pending" => \A u \in rows'[r] : u[1] = p
  <2>1. BecomesBatch(p, pending[p], storeQueue[p], R, owed[p])
    BY <1>2, <1>4, Submitted
  <2> QED  BY <2>1 DEF BecomesBatch
<1>6. /\ mapGoal' \in [Pipelines -> {"none", "ready", "one", "rest", "all",
                                      "one_then_all", "ready_then_all"}]
      /\ \A q \in Pipelines \ {p} : mapGoal'[q] = mapGoal[q]
      /\ mapGoal'[p] \in {"all", "one_then_all", "ready_then_all"}
  BY <1>2, <1>4, SubmitGoal
<1>7. /\ pc' \in [Pipelines -> PcStates] /\ storeGoal' \in [Pipelines -> {"none", "ready", "one", "all"}]
      /\ storeGoal'[p] = "none"
      /\ \/ pc[p] = "failure" /\ pc'[p] = "failed"
         \/ pc[p] = "tail" /\ pc'[p] = "flushed"
         \/ pc[p] = "abort" /\ pc'[p] = "aborting"
      /\ \A q \in Pipelines \ {p} : pc'[q] = pc[q] /\ storeGoal'[q] = storeGoal[q]
  BY <1>1, <1>2, ZenonT(30) DEF TypeOK, Put, PcStates
<1>8. storeQueue[p] = <<>>
  BY <1>1, <1>2, <1>7 DEF Local, FlowOK, StoresIdle
<1>9. TypeOK'
  BY <1>1, <1>2, <1>5, <1>6, <1>7 DEF TypeOK
<1>10. ClaimsOK' /\ WaitsOK' /\ DurableOK'
  BY <1>1, <1>2, <1>5 DEF ClaimsOK, WaitsOK, DurableOK, Durable
<1>11. WorkOK'
  BY <1>2, <1>5, SubmittedWork
<1>12. \A u \in Tasks : Holds(p, u)' <=> Holds(p, u)
  BY <1>2, <1>3, <1>5 DEF Holds
<1>13. HeldOK(p)'
  BY <1>1, <1>2, <1>5, <1>12 DEF Local, HeldOK
<1>14. EmittedOK(p)'
  BY <1>1, <1>2, <1>7 DEF Local, EmittedOK
<1>15. FlowOK(p)'
  BY <1>1, <1>2, <1>5, <1>6, <1>7, <1>8 DEF Local, FlowOK, Drained
<1>16. LimitsOK(p)'
  <2>1. Len(<<>>) = 0
    OBVIOUS
  <2> QED  BY <1>1, <1>2, <1>5, <1>6, <1>7, <2>1, LimitsKnown DEF Local, LimitsOK
<1>17. OpenOK(p)'
  BY <1>1, <1>2, <1>6, <1>7, <1>12 DEF Local, OpenOK
<1>18. \A q \in Pipelines \ {p} : Undisturbed(q)
  BY <1>2, <1>5, <1>6, <1>7 DEF Undisturbed
<1> QED
  BY <1>5, <1>9, <1>10, <1>11, <1>13, <1>14, <1>15, <1>16, <1>17, <1>18, Elsewhere DEF IInv, Local

LEMMA SubmitStoreStep ==
  ASSUME IInv, NEW p \in Pipelines, SubmitStore(p)
  PROVE  IInv'
<1>1. TypeOK /\ Local(p) /\ ClaimsOK /\ WaitsOK /\ WorkOK /\ DurableOK
  BY DEF IInv
<1>2. /\ pc[p] = "success" /\ MapsIdle(p) /\ owed[p] = None /\ StoresIdle(p)
      /\ UNCHANGED <<claims, memo, claim, waitsOn, results, batches, owed, emitting, cursor,
                     emitted, future, rows, durable>>
      /\ pc' = Put(pc, p, "download") /\ mapGoal' = Put(mapGoal, p, "none")
      /\ storeGoal' = Put(storeGoal, p, "ready") /\ current' = Put(current, p, None)
  BY DEF SubmitStore, Settled, Goto, Goal, claimVars, mapVars, indexVars
<1>3. PICK t \in Tasks : t = current[p] /\ t \in pending[p]
  BY <1>1, <1>2, Types DEF Local, FlowOK
<1>4. PICK S \in Seq(Tasks) : S = storeQueue[p]
  BY <1>1, Types
<1>5. Append(S, t) \in Seq(Tasks) /\ Len(Append(S, t)) = Len(S) + 1 /\ Len(S) \in Nat
  OBVIOUS
<1>6. /\ stored' \in [Tasks -> {"none", "pending", "ok", "failed"}]
      /\ \A u \in Tasks : stored'[u] = "failed" => stored[u] = "failed"
  BY <1>1, <1>3 DEF SubmitStore, TypeOK, Put
<1>7. /\ storeQueue' \in [Pipelines -> Seq(Tasks)] /\ storeQueue'[p] = Append(S, t)
      /\ \A q \in Pipelines \ {p} : storeQueue'[q] = storeQueue[q]
  <2>1. storeQueue' = Put(storeQueue, p, Append(S, t)) /\ storeQueue \in [Pipelines -> Seq(Tasks)]
    BY <1>1, <1>3, <1>4 DEF SubmitStore, TypeOK
  <2> QED  BY <1>5, <2>1 DEF Put
<1>8. /\ pending' \in [Pipelines -> SUBSET Tasks] /\ pending'[p] = pending[p] \ {t}
      /\ \A q \in Pipelines \ {p} : pending'[q] = pending[q]
  BY <1>1, <1>3 DEF SubmitStore, Handed, TypeOK, Put
<1>9. /\ pc' \in [Pipelines -> PcStates] /\ current' \in [Pipelines -> Tasks \union {None}]
      /\ mapGoal' \in [Pipelines -> {"none", "ready", "one", "rest", "all",
                                      "one_then_all", "ready_then_all"}]
      /\ storeGoal' \in [Pipelines -> {"none", "ready", "one", "all"}]
      /\ pc'[p] = "download" /\ mapGoal'[p] = "none" /\ storeGoal'[p] = "ready"
      /\ \A q \in Pipelines \ {p} :
           /\ pc'[q] = pc[q] /\ current'[q] = current[q]
           /\ mapGoal'[q] = mapGoal[q] /\ storeGoal'[q] = storeGoal[q]
  BY <1>1, <1>2 DEF TypeOK, Put, PcStates
<1>10. TypeOK'
  BY <1>1, <1>2, <1>6, <1>7, <1>8, <1>9 DEF TypeOK
<1>11. ClaimsOK' /\ WaitsOK' /\ WorkOK' /\ DurableOK'
  BY <1>1, <1>2, <1>6 DEF ClaimsOK, WaitsOK, WorkOK, DurableOK, Durable
<1>12. /\ PlacesApart(pending[p] \ {t}, Append(S, t), results[p], batches[p], owed[p])
       /\ \A u \in Tasks : Places(u, pending[p] \ {t}, Append(S, t), results[p], batches[p], owed[p])
            <=> Places(u, pending[p], S, results[p], batches[p], owed[p])
  <2>1. PlacesApart(pending[p], S, results[p], batches[p], owed[p])
    BY <1>1, <1>4 DEF Local, HeldOK
  <2> QED  BY <1>3, <2>1, PlaceHanded
<1>13. \A u \in Tasks : Holds(p, u)' <=> Holds(p, u)
  BY <1>2, <1>4, <1>7, <1>8, <1>12 DEF Holds
<1>14. HeldOK(p)'
  BY <1>1, <1>2, <1>7, <1>8, <1>12, <1>13 DEF Local, HeldOK
<1>15. EmittedOK(p)' /\ BatchesOK(p)'
  BY <1>1, <1>2, <1>9 DEF Local, EmittedOK, BatchesOK
<1>16. FlowOK(p)'
  BY <1>1, <1>2, <1>9 DEF Local, FlowOK, Drained
<1>17. LimitsOK(p)'
  <2>1. Len(S) < StoreLimit
    <3>1. CASE S = <<>>
      BY <3>1, LimitsKnown
    <3>2. CASE S # <<>>
      BY <1>1, <1>2, <1>4, <3>2 DEF Local, LimitsOK, StoresIdle
    <3> QED  BY <3>1, <3>2
  <2>2. Len(Append(S, t)) <= StoreLimit
    BY <1>5, <2>1, LimitsKnown
  <2> QED  BY <1>1, <1>2, <1>7, <1>9, <2>2, IdleFits DEF Local, LimitsOK
<1>18. OpenOK(p)'
  BY <1>1, <1>2, <1>9, <1>13 DEF Local, OpenOK
<1>19. \A q \in Pipelines \ {p} : Undisturbed(q)
  BY <1>2, <1>7, <1>8, <1>9 DEF Undisturbed
<1> QED
  BY <1>10, <1>11, <1>14, <1>15, <1>16, <1>17, <1>18, <1>19, Elsewhere DEF IInv, Local

\* What a pipeline has after the oldest store work: the task moved on to the
\* results, to a batch, or to the failure that is owed.
StoreMovesOn(p) ==
  /\ results' \in [Pipelines -> Seq(Tasks)] /\ batches' \in [Pipelines -> Seq(Batch)]
  /\ owed' \in [Pipelines -> Tasks \union {None}]
  /\ mapGoal' \in [Pipelines -> {"none", "ready", "one", "rest", "all",
                                  "one_then_all", "ready_then_all"}]
  /\ future' \in [Tasks -> {"none", "pending", "done", "failed"}]
  /\ rows' \in [Tasks -> SUBSET Tasks] /\ durable' = durable
  /\ \A q \in Pipelines \ {p} :
       /\ results'[q] = results[q] /\ batches'[q] = batches[q]
       /\ owed'[q] = owed[q] /\ mapGoal'[q] = mapGoal[q]
  /\ PlacesApart(pending[p], Tail(storeQueue[p]), results'[p], batches'[p], owed'[p])
  /\ \A u \in Tasks :
       Places(u, pending[p], Tail(storeQueue[p]), results'[p], batches'[p], owed'[p])
         <=> Places(u, pending[p], storeQueue[p], results[p], batches[p], owed[p])
  /\ BatchesOK(p)'
  /\ Len(results'[p]) < ResultLimit /\ Len(batches'[p]) <= BatchLimit
  /\ mapGoal'[p] \in {"none", "ready", "ready_then_all"} => Len(batches'[p]) < BatchLimit
  /\ mapGoal'[p] # "rest" /\ (owed'[p] # None => "store" \in Faults)
  /\ \A r \in Tasks : future[r] # "none" => future'[r] = future[r] /\ rows'[r] = rows[r]
  /\ \A r \in Tasks : future[r] = "none" =>
       /\ future'[r] \in {"none", "pending", "failed"}
       /\ future'[r] = "failed" => "mapping" \in Faults
       /\ future'[r] = "pending" => \A u \in rows'[r] : u[1] = p

LEMMA StoreFinished ==
  ASSUME IInv, NEW p \in Pipelines, FinishStore(p)
  PROVE  StoreMovesOn(p)
<1>1. TypeOK /\ Local(p) /\ WorkOK
  BY DEF IInv
<1>2. /\ results \in [Pipelines -> Seq(Tasks)] /\ batches \in [Pipelines -> Seq(Batch)]
      /\ owed \in [Pipelines -> Tasks \union {None}]
      /\ mapGoal \in [Pipelines -> {"none", "ready", "one", "rest", "all",
                                     "one_then_all", "ready_then_all"}]
      /\ future \in [Tasks -> {"none", "pending", "done", "failed"}]
      /\ rows \in [Tasks -> SUBSET Tasks]
  BY <1>1 DEF TypeOK
<1>3. PICK S \in Seq(Tasks) : S = storeQueue[p] /\ S # <<>>
  BY <1>1, Types DEF FinishStore
<1>4. PICK Q \in Seq(Tasks) : Q = results[p]
  BY <1>2
<1>5. PICK P : P = pending[p]
  OBVIOUS
<1>6. MapsIdle(p) /\ owed[p] = None /\ stored[Head(S)] \in {"ok", "failed"}
  BY <1>3 DEF FinishStore
<1>7. /\ PlacesApart(P, S, Q, batches[p], None)
      /\ \A u \in Tasks : Places(u, P, S, Q, batches[p], None) => u[1] = p
  BY <1>1, <1>3, <1>4, <1>5, <1>6 DEF Local, HeldOK, Holds
<1>8. PICK t \in Tasks : t = Head(S) /\ In(t, S)
  BY <1>3, <1>7, TailOnce DEF PlacesApart
<1>9. LimitsOK(p) /\ Len(Q) \in Nat /\ Len(Q) < ResultLimit /\ Len(batches[p]) < BatchLimit
  BY <1>1, <1>4, <1>6, IdleFits DEF Local, LimitsOK
<1>10. CASE stored[t] = "ok"
  <2>1. PICK R \in Seq(Tasks) :
          /\ R = Append(Q, t) /\ Len(R) = Len(Q) + 1
          /\ PlacesApart(P, Tail(S), R, batches[p], None)
          /\ \A u \in Tasks : Places(u, P, Tail(S), R, batches[p], None)
                                <=> Places(u, P, S, Q, batches[p], None)
    BY <1>3, <1>7, <1>8, PlaceStored
  <2>2. /\ ResultsFull(R) => SubmitResults(p, R, FALSE)
        /\ ~ResultsFull(R) => /\ results' = Put(results, p, R)
                              /\ mapGoal' = Put(mapGoal, p, "none")
                              /\ UNCHANGED <<batches, future, rows, durable>>
        /\ owed' = owed
    BY <1>3, <1>4, <1>8, <1>10, <2>1 DEF FinishStore, indexVars
  <2>3. \A u \in Tasks : In(u, R) => u[1] = p
    BY <1>7, <2>1 DEF Places
  <2>4. CASE ResultsFull(R)
    <3>1. SubmitResults(p, R, FALSE) /\ FALSE \in BOOLEAN
      BY <2>2, <2>4
    <3>2. BecomesBatch(p, P, Tail(S), R, None)
      BY <1>6, <2>1, <2>3, <3>1, Submitted
    <3>3. /\ mapGoal' \in [Pipelines -> {"none", "ready", "one", "rest", "all",
                                          "one_then_all", "ready_then_all"}]
          /\ \A q \in Pipelines \ {p} : mapGoal'[q] = mapGoal[q]
          /\ mapGoal'[p] # "rest"
      BY <1>6, <3>1, SubmitGoal
    <3>4. Len(<<>>) = 0
      OBVIOUS
    <3> QED
      BY <1>2, <1>3, <1>4, <1>5, <1>6, <2>1, <2>2, <3>2, <3>3, <3>4, LimitsKnown
         DEF BecomesBatch, StoreMovesOn
  <2>5. CASE ~ResultsFull(R)
    <3>1. /\ results' \in [Pipelines -> Seq(Tasks)] /\ results'[p] = R
          /\ \A q \in Pipelines \ {p} : results'[q] = results[q]
      BY <1>2, <2>2, <2>5 DEF Put
    <3>2. /\ mapGoal' \in [Pipelines -> {"none", "ready", "one", "rest", "all",
                                          "one_then_all", "ready_then_all"}]
          /\ mapGoal'[p] = "none" /\ \A q \in Pipelines \ {p} : mapGoal'[q] = mapGoal[q]
      BY <1>2, <2>2, <2>5 DEF Put
    <3>3. Len(R) < ResultLimit
      BY <1>9, <2>1, <2>5, LimitsKnown DEF ResultsFull
    <3>4. BatchesOK(p)' /\ Len(batches[p]) <= BatchLimit
      BY <1>1, <1>9, <2>2, <2>5 DEF Local, BatchesOK, LimitsOK
    <3>5. UNCHANGED <<batches, future, rows, durable>>
      BY <2>2, <2>5
    <3> QED
      BY <1>2, <1>3, <1>4, <1>5, <1>6, <1>9, <2>1, <2>2, <3>1, <3>2, <3>3, <3>4, <3>5
         DEF StoreMovesOn
  <2> QED  BY <2>4, <2>5
<1>11. CASE stored[t] = "failed"
  <2>1. owed' = Put(owed, p, t) /\ SubmitResults(p, Q, TRUE) /\ TRUE \in BOOLEAN
    BY <1>3, <1>4, <1>8, <1>11 DEF FinishStore, FlushOnFailure
  <2>2. /\ owed' \in [Pipelines -> Tasks \union {None}] /\ owed'[p] = t
        /\ \A q \in Pipelines \ {p} : owed'[q] = owed[q]
    BY <1>2, <2>1 DEF Put
  <2>3. /\ PlacesApart(P, Tail(S), Q, batches[p], t)
        /\ \A u \in Tasks : Places(u, P, Tail(S), Q, batches[p], t)
                              <=> Places(u, P, S, Q, batches[p], None)
    BY <1>3, <1>7, <1>8, PlaceOwed
  <2>4. \A u \in Tasks : In(u, Q) => u[1] = p
    BY <1>7 DEF Places
  <2>5. BecomesBatch(p, P, Tail(S), Q, t)
    BY <1>6, <2>1, <2>3, <2>4, Submitted
  <2>6. /\ mapGoal' \in [Pipelines -> {"none", "ready", "one", "rest", "all",
                                        "one_then_all", "ready_then_all"}]
        /\ \A q \in Pipelines \ {p} : mapGoal'[q] = mapGoal[q]
        /\ mapGoal'[p] # "rest"
    BY <1>6, <2>1, SubmitGoal
  <2>7. Len(<<>>) = 0
    OBVIOUS
  <2>8. "store" \in Faults
    BY <1>1, <1>11 DEF WorkOK
  <2> QED
    BY <1>3, <1>4, <1>5, <1>6, <2>2, <2>3, <2>5, <2>6, <2>7, <2>8, LimitsKnown
       DEF BecomesBatch, StoreMovesOn
<1> QED  BY <1>6, <1>8, <1>10, <1>11

LEMMA FinishStoreStep ==
  ASSUME IInv, NEW p \in Pipelines, FinishStore(p)
  PROVE  IInv'
<1>1. TypeOK /\ Local(p) /\ ClaimsOK /\ WaitsOK /\ WorkOK /\ DurableOK
  BY DEF IInv
<1>2. StoreMovesOn(p)
  BY StoreFinished
<1>3. /\ MapsIdle(p) /\ owed[p] = None /\ storeGoal[p] # "none" /\ storeQueue[p] # <<>>
      /\ UNCHANGED <<claims, memo, claim, waitsOn, pending, current, stored, emitting, pc, cursor,
                     emitted>>
      /\ storeGoal' = Put(storeGoal, p, IF storeGoal[p] = "one" THEN "none" ELSE storeGoal[p])
      /\ storeQueue' = Put(storeQueue, p, Tail(storeQueue[p]))
  BY DEF FinishStore, claimVars, taskVars, controlVars
<1>4. PICK S \in Seq(Tasks) : S = storeQueue[p] /\ S # <<>>
  BY <1>1, <1>3, Types
<1>5. Tail(S) \in Seq(Tasks) /\ Len(Tail(S)) = Len(S) - 1 /\ Len(S) \in Nat /\ Len(S) # 0
  BY <1>4
<1>6. /\ storeQueue' \in [Pipelines -> Seq(Tasks)] /\ storeQueue'[p] = Tail(S)
      /\ \A q \in Pipelines \ {p} : storeQueue'[q] = storeQueue[q]
  <2>1. storeQueue' = Put(storeQueue, p, Tail(S)) /\ storeQueue \in [Pipelines -> Seq(Tasks)]
    BY <1>1, <1>3, <1>4 DEF TypeOK
  <2> QED  BY <1>5, <2>1 DEF Put
<1>7. /\ storeGoal' \in [Pipelines -> {"none", "ready", "one", "all"}]
      /\ storeGoal[p] = "all" => storeGoal'[p] = "all"
      /\ \A q \in Pipelines \ {p} : storeGoal'[q] = storeGoal[q]
  BY <1>1, <1>3 DEF TypeOK, Put
<1>8. TypeOK'
  BY <1>1, <1>2, <1>3, <1>6, <1>7 DEF TypeOK, StoreMovesOn
<1>9. ClaimsOK' /\ WaitsOK' /\ DurableOK'
  BY <1>1, <1>2, <1>3 DEF ClaimsOK, WaitsOK, DurableOK, Durable, StoreMovesOn
<1>10. WorkOK'
  BY <1>2, <1>3, SubmittedWork DEF StoreMovesOn
<1>11. \A u \in Tasks : Holds(p, u)' <=> Holds(p, u)
  BY <1>2, <1>3, <1>4, <1>6 DEF Holds, StoreMovesOn
<1>12. HeldOK(p)'
  BY <1>1, <1>2, <1>3, <1>4, <1>6, <1>11 DEF Local, HeldOK, StoreMovesOn
<1>13. EmittedOK(p)' /\ BatchesOK(p)'
  BY <1>1, <1>2, <1>3 DEF Local, EmittedOK, StoreMovesOn
<1>14. pc[p] \notin {"claim", "flushed", "aborting", "waiters", "done", "raised"}
  BY <1>1, <1>3 DEF Local, FlowOK, Drained
<1>15. FlowOK(p)'
  BY <1>1, <1>3, <1>7, <1>14 DEF Local, FlowOK
<1>16. LimitsOK(p)'
  <2>1. Len(S) <= StoreLimit
    BY <1>1, <1>4 DEF Local, LimitsOK
  <2>2. Len(Tail(S)) <= StoreLimit /\ Len(Tail(S)) < StoreLimit
    BY <1>5, <2>1, LimitsKnown
  <2> QED  BY <1>2, <1>6, <2>2 DEF LimitsOK, StoreMovesOn
<1>17. OpenOK(p)'
  BY <1>1, <1>2, <1>3, <1>11, <1>14 DEF Local, OpenOK, StoreMovesOn
<1>18. \A q \in Pipelines \ {p} : Undisturbed(q)
  BY <1>2, <1>3, <1>6, <1>7 DEF Undisturbed, StoreMovesOn
<1> QED
  BY <1>8, <1>9, <1>10, <1>12, <1>13, <1>15, <1>16, <1>17, <1>18, Elsewhere DEF IInv, Local

-----------------------------------------------------------------------------
(* The other threads leave every pipeline alone.                           *)

LEMMA StoreWorkStep ==
  ASSUME IInv, NEW t \in Tasks, StoreWork(t)
  PROVE  IInv'
<1>1. TypeOK /\ ClaimsOK /\ WaitsOK /\ WorkOK /\ DurableOK
  BY DEF IInv
<1>2. UNCHANGED <<claims, memo, claim, waitsOn, pending, current, storeQueue, results, batches,
                  mapGoal, storeGoal, owed, emitting, pc, cursor, emitted, future, rows, durable>>
  BY DEF StoreWork, claimVars, taskVars, mapVars, goalVars, controlVars, indexVars
<1>3. /\ stored' \in [Tasks -> {"none", "pending", "ok", "failed"}]
      /\ \A u \in Tasks : stored'[u] = "failed" => stored[u] = "failed" \/ "store" \in Faults
  BY <1>1 DEF StoreWork, TypeOK, Put
<1>4. TypeOK'
  BY <1>1, <1>2, <1>3 DEF TypeOK
<1>5. ClaimsOK' /\ WaitsOK' /\ WorkOK' /\ DurableOK'
  BY <1>1, <1>2, <1>3 DEF ClaimsOK, WaitsOK, WorkOK, DurableOK, Durable
<1>6. \A q \in Pipelines : Undisturbed(q)
  BY <1>2 DEF Undisturbed
<1> QED  BY <1>4, <1>5, <1>6, Elsewhere DEF IInv

\* The writer only adds rows, and ends a future once all of its rows are there.
LEMMA WriterWorkStep ==
  ASSUME IInv, NEW r \in Tasks, WriterWork(r)
  PROVE  IInv'
<1>1. TypeOK /\ ClaimsOK /\ WaitsOK /\ WorkOK /\ DurableOK
  BY DEF IInv
<1>2. UNCHANGED <<claims, memo, claim, waitsOn, pending, current, storeQueue, stored, results,
                  batches, mapGoal, storeGoal, owed, emitting, pc, cursor, emitted>>
  BY DEF WriterWork, claimVars, taskVars, storeVars, mapVars, goalVars, controlVars
<1>3. /\ future \in [Tasks -> {"none", "pending", "done", "failed"}]
      /\ rows \in [Tasks -> SUBSET Tasks] /\ durable \subseteq Tasks
  BY <1>1 DEF TypeOK
<1>4. /\ future' \in [Tasks -> {"none", "pending", "done", "failed"}]
      /\ rows' = rows /\ durable \subseteq durable' /\ durable' \subseteq Tasks
      /\ \A u \in Tasks : /\ future[u] # "none" => future'[u] # "none"
                          /\ future'[u] = "pending" => future[u] = "pending"
                          /\ future'[u] = "failed" => future[u] = "failed" \/ "mapping" \in Faults
                          /\ future'[u] = "done" =>
                               future[u] = "done" \/ rows[u] \subseteq durable'
  <2>1. CASE \E S \in SUBSET rows[r] : Commit(S)
    BY <1>3, <2>1 DEF Commit
  <2>2. CASE Succeed(r)
    BY <1>3, <2>2 DEF Succeed
  <2>3. CASE "mapping" \in Faults /\ Fail(r)
    BY <1>3, <2>3 DEF Fail
  <2> QED  BY <2>1, <2>2, <2>3 DEF WriterWork
<1>5. TypeOK'
  BY <1>1, <1>2, <1>3, <1>4 DEF TypeOK
<1>6. ClaimsOK' /\ WaitsOK'
  BY <1>1, <1>2 DEF ClaimsOK, WaitsOK
<1>7. WorkOK'
  BY <1>1, <1>2, <1>3, <1>4 DEF WorkOK
<1>8. DurableOK'
  BY <1>1, <1>2, <1>4, DurableKept, TasksKnown, Types DEF DurableOK
<1>9. \A q \in Pipelines : Undisturbed(q)
  BY <1>2, <1>4 DEF Undisturbed
<1> QED  BY <1>5, <1>6, <1>7, <1>8, <1>9, Elsewhere DEF IInv

-----------------------------------------------------------------------------
\* Every step keeps the inductive invariant.
THEOREM NextIInv ==
  IInv /\ [Next]_vars => IInv'
<1> SUFFICES ASSUME IInv, [Next]_vars  PROVE IInv'
  OBVIOUS
<1>1. CASE UNCHANGED vars
  <2>1. UNCHANGED <<claims, memo, claim, waitsOn, pending, current, storeQueue, stored, results,
                    batches, mapGoal, storeGoal, owed, emitting, pc, cursor, emitted, future,
                    rows, durable>>
    BY <1>1 DEF vars, claimVars, taskVars, storeVars, mapVars, goalVars, controlVars, indexVars
  <2>2. TypeOK /\ ClaimsOK /\ WaitsOK /\ WorkOK /\ DurableOK
    BY DEF IInv
  <2>3. TypeOK' /\ ClaimsOK' /\ WaitsOK' /\ WorkOK' /\ DurableOK'
    BY <2>1, <2>2 DEF TypeOK, ClaimsOK, WaitsOK, WorkOK, DurableOK, Durable
  <2>4. \A q \in Pipelines : Undisturbed(q)
    BY <2>1 DEF Undisturbed
  <2> QED  BY <2>3, <2>4, Elsewhere DEF IInv
<1>2. ASSUME NEW p \in Pipelines, PipelineNext(p)  PROVE IInv'
  <2>1. CASE Claim(p)
    BY <2>1, ClaimStep
  <2>2. CASE Start(p)
    BY <2>2, StartStep
  <2>3. ASSUME NEW ok \in BOOLEAN, Arrive(p, ok)  PROVE IInv'
    BY <2>3, ArriveStep
  <2>4. CASE SubmitStore(p)
    BY <2>4, SubmitStoreStep
  <2>5. CASE Flush(p)
    BY <2>5, FlushStep
  <2>6. CASE ReleaseFailed(p)
    BY <2>6, ReleaseFailedStep
  <2>7. CASE EndDownloads(p)
    BY <2>7, EndDownloadsStep
  <2>8. CASE ReleaseRest(p)
    BY <2>8, ReleaseRestStep
  <2>9. CASE BeginWaiters(p)
    BY <2>9, BeginWaitersStep
  <2>10. CASE FinishWaiter(p)
    BY <2>10, FinishWaiterStep
  <2>11. CASE LeaveDrain(p)
    BY <2>11, LeaveDrainStep
  <2>12. CASE FinishMapping(p)
    BY <2>12, FinishMappingStep
  <2>13. CASE FinishOwed(p)
    BY <2>13, FinishOwedStep
  <2>14. CASE FinishStore(p)
    BY <2>14, FinishStoreStep
  <2> QED
    BY <1>2, <2>1, <2>2, <2>3, <2>4, <2>5, <2>6, <2>7, <2>8, <2>9, <2>10, <2>11, <2>12, <2>13,
       <2>14 DEF PipelineNext
<1>3. ASSUME NEW t \in Tasks, StoreWork(t) \/ WriterWork(t)  PROVE IInv'
  BY <1>3, StoreWorkStep, WriterWorkStep
<1>4. Terminated => UNCHANGED vars
  BY DEF Terminated
<1> QED  BY <1>1, <1>2, <1>3, <1>4 DEF Next

\* The inductive invariant holds for any threads, tasks, limits and faults.
THEOREM Invariance == Spec => []IInv
BY InitIInv, NextIInv, PTL DEF Spec

-----------------------------------------------------------------------------
(* What the runs check, for every value of the constants.                  *)

\* Every variable keeps its type.
THEOREM TypeCorrect == Spec => []TypeOK
<1>1. IInv => TypeOK
  BY DEF IInv
<1> QED  BY <1>1, Invariance, PTL

\* A success that anyone is told of is in the index (the claims, the results
\* given to on_progress and the memo).
THEOREM SuccessesAreDurable == Spec => []SuccessIsDurable
<1>1. IInv => SuccessIsDurable
  <2> SUFFICES ASSUME IInv  PROVE SuccessIsDurable
    OBVIOUS
  <2>1. TypeOK /\ WaitsOK /\ DurableOK
    BY DEF IInv
  <2>2. ASSUME NEW p \in Pipelines, NEW i \in 1..Len(emitted[p]), emitted[p][i][2] = "ok"
        PROVE  Durable(KeyOf[emitted[p][i][1]])
    <3>1. PICK t \in Tasks : t = emitted[p][i][1]
      BY <2>1, ItemTypes
    <3>2. EmittedOK(p)
      BY DEF IInv, Local
    <3>3. CASE waitsOn[t] = None
      BY <2>1, <2>2, <3>1, <3>2, <3>3 DEF EmittedOK, DurableOK
    <3>4. CASE waitsOn[t] # None
      <4>1. PICK u \in Tasks : u = waitsOn[t]
        BY <2>1, <3>4, Types
      <4>2. claim[u] = "ok" /\ KeyOf[u] = KeyOf[t]
        BY <2>1, <2>2, <3>1, <3>2, <3>4, <4>1 DEF EmittedOK, WaitsOK
      <4> QED  BY <2>1, <3>1, <4>2 DEF DurableOK
    <3> QED  BY <3>3, <3>4
  <2> QED  BY <2>1, <2>2 DEF SuccessIsDurable, DurableOK
<1> QED  BY <1>1, Invariance, PTL

\* The work a pipeline has not finished stays within the three limits of the code.
THEOREM WorkIsBounded == Spec => []Bounded
<1>1. IInv => Bounded
  BY DEF IInv, Local, LimitsOK, Bounded
<1> QED  BY <1>1, Invariance, PTL

\* A task whose claim is open is held, when no fault can leak a claim.
LEMMA OpenIsHeld ==
  ASSUME IInv, NEW p \in Pipelines, NEW t \in TasksOf(p), claim[t] = "open"
  PROVE  Holds(p, t) \/ (Leaky /\ pc[p] \in {"abort", "aborting", "raised"})
BY DEF IInv, Local, OpenOK, TasksOf

LEMMA DrainedHoldsNothing ==
  ASSUME NEW p \in Pipelines, NEW t \in Tasks, Drained(p), pending[p] = {}
  PROVE  ~Holds(p, t)
BY PipelineAssumption, EmptyOnce DEF Drained, Holds, Places

\* _finish_waiters runs only after everything the pipeline owned is released,
\* whatever fails: no two pipelines wait for each other.
THEOREM WaitingOwnsNothing == Spec => []WaitersOwnNothing
<1>1. IInv => WaitersOwnNothing
  <2> SUFFICES ASSUME IInv, NEW p \in Pipelines, pc[p] = "waiters",
                      NEW t \in TasksOf(p), claim[t] = "open"
               PROVE  FALSE
    BY DEF WaitersOwnNothing
  <2>1. Drained(p) /\ pending[p] = {} /\ t \in Tasks
    BY DEF IInv, Local, FlowOK, TasksOf
  <2> QED  BY <2>1, OpenIsHeld, DrainedHoldsNothing
<1> QED  BY <1>1, Invariance, PTL

\* The assumption of the next theorem: none of the three ways in which this code
\* can end with an open claim is met.
NothingLeaks == ~Leaky

\* A pipeline that has returned or raised has released all its claims, on every
\* path that does not leak.
THEOREM ClaimsReleased ==
  ASSUME NothingLeaks
  PROVE  Spec => []ClaimsAreReleased
<1>1. IInv => ClaimsAreReleased
  <2> SUFFICES ASSUME IInv  PROVE ClaimsAreReleased
    OBVIOUS
  <2>1. ASSUME NEW p \in Pipelines, pc[p] \in {"done", "raised", "waiters"},
               NEW t \in TasksOf(p), claim[t] = "open"
        PROVE  FALSE
    <3>1. Drained(p) /\ pending[p] = {} /\ t \in Tasks
      BY <2>1, NothingLeaks DEF IInv, Local, FlowOK, OpenOK, TasksOf, NothingLeaks
    <3>2. Holds(p, t)
      BY <2>1, OpenIsHeld, NothingLeaks DEF NothingLeaks
    <3> QED  BY <3>1, <3>2, DrainedHoldsNothing
  <2> QED  BY <2>1 DEF ClaimsAreReleased, EndedOwnsNothing, WaitersOwnNothing, Ended
<1> QED  BY <1>1, Invariance, PTL

-----------------------------------------------------------------------------
(* The refinement of SharedDownloads: a claim made is a download begun, a   *)
(* release is its landing, a waiter is told what the claim he waits for     *)
(* says, a commit is a record, and nothing else shows.                      *)

\* The wait of task t raised.
RaisedAt(t) == pc[t[1]] = "raised" /\ cursor[t[1]] = t[2]

\* What concerns task t stays as it is; what p reports is not about a wait of t.
Unconcerned(t) ==
  /\ waitsOn'[t] = waitsOn[t] /\ claim'[t] = claim[t]
  /\ \/ emitted'[t[1]] = emitted[t[1]]
     \/ \E e \in Tasks \X {"ok", "failed"} :
          /\ emitted'[t[1]] = Append(emitted[t[1]], e)
          /\ e[1] = t => waitsOn[t] \in {None, t}
  /\ waitsOn[t] \in {None, t} \/ (RaisedAt(t)' <=> RaisedAt(t))

LEMMA ToldKept ==
  ASSUME TypeOK, NEW t \in Tasks, Unconcerned(t)
  PROVE  Told(t)' = Told(t)
<1>1. PICK p \in Pipelines : p = t[1]
  BY TasksKnown
<1>2. PICK E \in Seq(Tasks \X {"ok", "failed"}) : E = emitted[p]
  BY Types
<1>3. CASE waitsOn[t] \in {None, t}
  BY <1>3 DEF Told, Unconcerned
<1>4. CASE waitsOn[t] \notin {None, t}
  <2> DEFINE reports == {i \in 1..Len(emitted[p]) : emitted[p][i][1] = t}
             reports2 == {i \in 1..Len(emitted'[p]) : emitted'[p][i][1] = t}
  <2>1. reports2 = reports /\ \A i \in reports : emitted'[p][i] = emitted[p][i]
    <3>1. CASE emitted'[p] = emitted[p]
      BY <3>1
    <3>2. CASE \E e \in Tasks \X {"ok", "failed"} :
                 emitted'[p] = Append(emitted[p], e) /\ e[1] # t
      <4>1. PICK e \in Tasks \X {"ok", "failed"} : emitted'[p] = Append(E, e) /\ e[1] # t
        BY <1>2, <3>2
      <4>2. PICK F : F = Append(E, e)
        OBVIOUS
      <4>3. /\ Len(F) = Len(E) + 1 /\ Len(E) \in Nat
            /\ F[Len(F)] = e /\ \A i \in 1..Len(E) : F[i] = E[i]
        BY <4>2
      <4>4. \A i \in 1..Len(F) : F[i][1] = t <=> i \in 1..Len(E) /\ E[i][1] = t
        BY <4>1, <4>3
      <4>5. \A i \in 1..Len(E) : i \in 1..Len(F)
        BY <4>3
      <4> QED  BY <1>2, <4>1, <4>2, <4>3, <4>4, <4>5
    <3> QED  BY <1>1, <1>4, <3>1, <3>2 DEF Unconcerned
  <2>2. Told(t) = IF reports # {} THEN emitted[p][CHOOSE i \in reports : TRUE][2]
                  ELSE IF RaisedAt(t) THEN "error" ELSE "none"
    BY <1>1, <1>4 DEF Told, RaisedAt
  <2>3. Told(t)' = IF reports2 # {} THEN emitted'[p][CHOOSE i \in reports2 : TRUE][2]
                   ELSE IF RaisedAt(t)' THEN "error" ELSE "none"
    BY <1>1, <1>4 DEF Told, RaisedAt, Unconcerned
  <2>4. RaisedAt(t)' <=> RaisedAt(t)
    BY <1>4 DEF Unconcerned
  <2> HIDE DEF reports, reports2
  <2>5. CASE reports # {}
    <3>1. (CHOOSE i \in reports : TRUE) \in reports
      BY <2>5
    <3> QED  BY <2>1, <2>2, <2>3, <2>5, <3>1
  <2>6. CASE reports = {}
    BY <2>1, <2>2, <2>3, <2>4, <2>6
  <2> QED  BY <2>5, <2>6
<1> QED  BY <1>3, <1>4

\* What is told of a task whose own claim speaks.
LEMMA ToldByClaim ==
  ASSUME NEW t \in Tasks, waitsOn[t] \in {None, t}
  PROVE  Told(t) = IF claim[t] = "open" THEN "none" ELSE claim[t]
BY DEF Told

LEMMA ClosedSpeaks ==
  ASSUME IInv, NEW t \in Tasks, claim[t] # "none"
  PROVE  /\ waitsOn[t] \in {None, t}
         /\ claim[t] = "open" => waitsOn[t] = None
BY DEF IInv, WaitsOK

\* The view of SharedDownloads.
Answer == [t \in Tasks |-> Told(t)]
Known == {k \in Keys : Durable(k)}
SharedStep == [Shared!SharedNext]_(Shared!sharedVars)

LEMMA NothingShows ==
  ASSUME TypeOK, UNCHANGED <<claims, durable>>, \A t \in Tasks : Told(t)' = Told(t)
  PROVE  SharedStep
<1>1. Answer' = Answer /\ Known' = Known
  BY DEF Answer, Known, Durable
<1> QED  BY <1>1 DEF SharedStep, Shared!sharedVars, Answer, Known

LEMMA OneIsAnswered ==
  ASSUME NEW t \in Tasks, NEW o, Told(t)' = o,
         \A u \in Tasks : u # t => Told(u)' = Told(u)
  PROVE  Answer' = [Answer EXCEPT ![t] = o]
BY DEF Answer

\* No wait is cut short: p does not raise, or has no task under its cursor.
NobodyRaises == \A t \in Tasks : RaisedAt(t)' <=> RaisedAt(t)

LEMMA PastItsTasks ==
  ASSUME NEW p \in Pipelines,
         \A q \in Pipelines \ {p} : pc'[q] = pc[q] /\ cursor'[q] = cursor[q],
         \/ pc'[p] = pc[p] /\ cursor'[p] = cursor[p]
         \/ /\ pc[p] # "raised"
            /\ pc'[p] = "raised" => cursor'[p] \in Nat /\ cursor'[p] > NTasks[p]
  PROVE  NobodyRaises
<1> SUFFICES ASSUME NEW t \in Tasks  PROVE RaisedAt(t)' <=> RaisedAt(t)
  BY DEF NobodyRaises
<1>1. t[1] \in Pipelines /\ t[2] \in 1..NTasks[t[1]]
  BY TasksKnown
<1>2. CASE t[1] # p
  BY <1>1, <1>2 DEF RaisedAt
<1>3. CASE t[1] = p /\ pc'[p] = pc[p] /\ cursor'[p] = cursor[p]
  BY <1>3 DEF RaisedAt
<1>4. CASE t[1] = p /\ pc[p] # "raised" /\ pc'[p] = "raised"
  <2>1. NTasks[p] \in Nat /\ cursor'[p] \in Nat /\ cursor'[p] > NTasks[p]
    BY <1>4, TasksAssumption
  <2>2. cursor'[p] # t[2]
    BY <1>1, <1>4, <2>1
  <2> QED  BY <1>4, <2>2 DEF RaisedAt
<1>5. CASE t[1] = p /\ pc[p] # "raised" /\ pc'[p] # "raised"
  BY <1>5 DEF RaisedAt
<1> QED  BY <1>2, <1>3, <1>4, <1>5

\* A release of a held task is a landing.
LEMMA ReleaseLands ==
  ASSUME IInv, NEW p \in Pipelines, NEW t \in Tasks, NEW o \in {"ok", "failed", "error"},
         Holds(p, t), Release(t, o), o = "ok" => Durable(KeyOf[t]),
         UNCHANGED <<waitsOn, durable>>, NobodyRaises,
         UNCHANGED emitted \/ (o # "error" /\ Emit(p, t, o))
  PROVE  SharedStep
<1>1. TypeOK /\ HeldOK(p) /\ ClaimsOK /\ WaitsOK
  BY DEF IInv, Local
<1>2. t[1] = p /\ claim[t] = "open" /\ claims[KeyOf[t]] = t /\ KeyOf[t] \in Keys
  BY <1>1, TasksKnown DEF HeldOK, ClaimsOK
<1>3. claim' = [claim EXCEPT ![t] = o] /\ claims' = [claims EXCEPT ![KeyOf[t]] = None]
  BY <1>2, Released
<1>4. waitsOn[t] = None /\ waitsOn'[t] = None /\ claim'[t] = o
  BY <1>1, <1>2, <1>3, ClosedSpeaks DEF TypeOK
<1>5. Told(t) = "none"
  BY <1>2, <1>4, ToldByClaim
<1>6. Told(t)' = o
  BY <1>4 DEF Told
<1>7. ASSUME NEW u \in Tasks, u # t  PROVE Told(u)' = Told(u)
  <2>1. claim'[u] = claim[u] /\ waitsOn'[u] = waitsOn[u] /\ (RaisedAt(u)' <=> RaisedAt(u))
    BY <1>1, <1>3, <1>7 DEF TypeOK, NobodyRaises
  <2>2. \/ emitted'[u[1]] = emitted[u[1]]
        \/ \E e \in Tasks \X {"ok", "failed"} :
             emitted'[u[1]] = Append(emitted[u[1]], e) /\ e[1] # u
    <3>1. CASE UNCHANGED emitted
      BY <3>1
    <3>2. CASE o # "error" /\ Emit(p, t, o)
      <4>1. <<t, o>> \in Tasks \X {"ok", "failed"} /\ <<t, o>>[1] # u
        BY <1>7, <3>2
      <4>2. emitted \in [Pipelines -> Seq(Tasks \X {"ok", "failed"})]
            /\ emitted' = Put(emitted, p, Append(emitted[p], <<t, o>>))
        BY <1>1, <3>2 DEF TypeOK, Emit
      <4>3. u[1] = p => emitted'[u[1]] = Append(emitted[u[1]], <<t, o>>)
        BY <4>2 DEF Put
      <4>4. u[1] # p => emitted'[u[1]] = emitted[u[1]]
        BY <4>2, TasksKnown DEF Put
      <4> QED  BY <4>1, <4>3, <4>4
    <3> QED  BY <3>1, <3>2
  <2>3. Unconcerned(u)
    BY <2>1, <2>2 DEF Unconcerned
  <2> QED  BY <1>1, <2>3, ToldKept
<1>8. Answer' = [Answer EXCEPT ![t] = o] /\ Answer[t] = "none"
  BY <1>5, <1>6, <1>7, OneIsAnswered DEF Answer
<1>9. Known' = Known /\ (o = "ok" => KeyOf[t] \in Known)
  BY <1>2 DEF Known, Durable
<1>10. o \in Shared!Answers
  BY DEF Shared!Answers
<1>11. Shared!Land(t, o)
  BY <1>2, <1>3, <1>8, <1>9 DEF Shared!Land, Answer, Known
<1> QED  BY <1>10, <1>11 DEF SharedStep, Shared!SharedNext

\* A step that makes no claim, releases none and reports nothing does not show.
LEMMA ControlShowsNothing ==
  ASSUME IInv, UNCHANGED <<claims, claim, waitsOn, emitted, durable>>, NobodyRaises
  PROVE  SharedStep
<1>1. TypeOK
  BY DEF IInv
<1>2. \A t \in Tasks : Unconcerned(t)
  BY DEF Unconcerned, NobodyRaises
<1> QED  BY <1>1, <1>2, ToldKept, NothingShows

LEMMA ClaimShows ==
  ASSUME IInv, NEW p \in Pipelines, Claim(p)
  PROVE  SharedStep
<1>1. TypeOK /\ FlowOK(p) /\ ClaimsOK /\ WaitsOK /\ DurableOK
  BY DEF IInv, Local
<1>2. PICK t \in Tasks : t = <<p, cursor[p]>> /\ t[1] = p /\ t[2] = cursor[p]
  <2>1. cursor[p] \in 1..NTasks[p]
    BY <1>1, Types, TasksAssumption DEF Claim, FlowOK
  <2>2. <<p, cursor[p]>> \in Tasks
    BY <2>1, TasksKnown
  <2> QED  BY <2>2
<1>3. PICK k \in Keys : k = KeyOf[t]
  BY TasksKnown
<1>4. /\ pc[p] = "claim" /\ emitted[p] = <<>> /\ claim[t] = "none" /\ waitsOn[t] = None
  BY <1>1, <1>2, Types DEF Claim, FlowOK
<1>5. /\ UNCHANGED <<pc, emitted, durable>>
      /\ cursor' = Put(cursor, p, cursor[p] + 1)
  BY DEF Claim, indexVars
<1>6. NobodyRaises
  <2>1. \A q \in Pipelines \ {p} : pc'[q] = pc[q] /\ cursor'[q] = cursor[q]
    BY <1>1, <1>5 DEF TypeOK, Put
  <2> QED  BY <1>4, <1>5, <2>1, PastItsTasks
<1>7. Told(t) = "none"
  BY <1>4, ToldByClaim
<1>8. ASSUME NEW u \in Tasks, u # t, claim'[u] = claim[u], waitsOn'[u] = waitsOn[u]
      PROVE  Told(u)' = Told(u)
  BY <1>1, <1>5, <1>6, <1>8, ToldKept DEF Unconcerned, NobodyRaises
<1>9. CASE /\ OpenClaim(k) /\ waitsOn' = Put(waitsOn, t, claims[k])
           /\ UNCHANGED <<claims, memo, claim>>
  <2>1. PICK v \in Tasks : v = claims[k] /\ claim[v] = "open" /\ v # t
    BY <1>1, <1>4, <1>9, Types DEF OpenClaim, ClaimsOK
  <2>2. waitsOn'[t] = v /\ v # None /\ \A u \in Tasks : u # t => waitsOn'[u] = waitsOn[u]
    BY <1>1, <1>9, <2>1, PipelineAssumption DEF TypeOK, Put
  <2>3. Told(t)' = "none"
    <3>1. Len(<<>>) = 0
      OBVIOUS
    <3>2. {i \in 1..Len(emitted'[p]) : emitted'[p][i][1] = t} = {}
      BY <1>4, <1>5, <3>1
    <3> QED  BY <1>2, <1>4, <1>5, <2>1, <2>2, <3>2 DEF Told
  <2>4. \A u \in Tasks : Told(u)' = Told(u)
    BY <1>7, <1>8, <1>9, <2>2, <2>3
  <2> QED  BY <1>1, <1>5, <1>9, <2>4, NothingShows
<1>10. CASE /\ ~OpenClaim(k) /\ k \in memo
            /\ claim' = Put(claim, t, "ok") /\ waitsOn' = Put(waitsOn, t, t)
            /\ UNCHANGED <<claims, memo>>
  <2>1. /\ claim'[t] = "ok" /\ waitsOn'[t] = t
        /\ \A u \in Tasks : u # t => claim'[u] = claim[u] /\ waitsOn'[u] = waitsOn[u]
    BY <1>1, <1>10 DEF TypeOK, Put
  <2>2. Told(t)' = "ok"
    BY <2>1 DEF Told
  <2>3. Answer' = [Answer EXCEPT ![t] = "ok"] /\ Answer[t] = "none"
    BY <1>7, <1>8, <2>1, <2>2, OneIsAnswered DEF Answer
  <2>4. Known' = Known /\ KeyOf[t] \in Known
    BY <1>1, <1>3, <1>5, <1>10 DEF Known, Durable, DurableOK
  <2>5. claims[KeyOf[t]] # t
    BY <1>3, <1>10, PipelineAssumption DEF OpenClaim
  <2>6. Shared!Follow(t, "ok")
    BY <1>10, <2>3, <2>4, <2>5 DEF Shared!Follow, Answer, Known
  <2> QED  BY <2>6 DEF SharedStep, Shared!SharedNext, Shared!Answers
<1>11. CASE /\ ~OpenClaim(k) /\ claims' = Put(claims, k, t)
            /\ claim' = Put(claim, t, "open") /\ UNCHANGED waitsOn
  <2>1. claim'[t] = "open" /\ \A u \in Tasks : u # t => claim'[u] = claim[u]
    BY <1>1, <1>11 DEF TypeOK, Put
  <2>2. Told(t)' = "none"
    BY <1>4, <1>11, <2>1 DEF Told
  <2>3. Answer' = Answer /\ Answer[t] = "none"
    BY <1>7, <1>8, <1>11, <2>1, <2>2 DEF Answer
  <2>4. Known' = Known
    BY <1>5 DEF Known, Durable
  <2>5. Shared!Lead(t)
    BY <1>3, <1>11, <2>3, <2>4 DEF Shared!Lead, Answer, Known, OpenClaim, Put
  <2> QED  BY <2>5 DEF SharedStep, Shared!SharedNext
<1> QED  BY <1>2, <1>3, <1>9, <1>10, <1>11 DEF Claim, claimVars

\* A waiter is told what the claim it waits for says.
LEMMA FinishWaiterShows ==
  ASSUME IInv, NEW p \in Pipelines, FinishWaiter(p)
  PROVE  SharedStep
<1>1. TypeOK /\ FlowOK(p) /\ EmittedOK(p) /\ ClaimsOK /\ WaitsOK
  BY DEF IInv, Local
<1>2. /\ pc[p] = "waiters" /\ UNCHANGED <<claims, claim, waitsOn, durable>>
      /\ \A q \in Pipelines \ {p} : pc'[q] = pc[q] /\ cursor'[q] = cursor[q]
  BY <1>1 DEF FinishWaiter, claimVars, taskVars, indexVars, TypeOK, Goto, Put
<1>3. CASE UNCHANGED emitted /\ pc'[p] # "raised"
  BY <1>2, <1>3, PastItsTasks, ControlShowsNothing
<1>4. CASE cursor[p] <= NTasks[p] /\ waitsOn[<<p, cursor[p]>>] # None
  <2>1. PICK t \in Tasks : t = <<p, cursor[p]>> /\ t[1] = p /\ t[2] = cursor[p]
    <3>1. cursor[p] \in 1..NTasks[p]
      BY <1>1, <1>4, Types, TasksAssumption DEF FlowOK
    <3>2. <<p, cursor[p]>> \in Tasks
      BY <3>1, TasksKnown
    <3> QED  BY <3>2
  <2>2. PICK v \in Tasks : v = waitsOn[t]
    BY <1>1, <1>4, <2>1, Types
  <2>3. PICK o : o = claim[v] /\ o \in {"ok", "failed", "error"}
    <3>1. ~(cursor[p] > NTasks[p])
      BY <1>1, <1>4, Types, TasksAssumption
    <3>2. Answered(t)
      BY <1>4, <2>1, <3>1 DEF FinishWaiter
    <3> QED  BY <2>2, <3>2 DEF Answered
  <2>4. /\ o = "error" => UNCHANGED emitted /\ pc'[p] = "raised" /\ cursor'[p] = cursor[p]
        /\ o # "error" => Emit(p, t, o)
        /\ pc'[p] = "raised" => cursor'[p] = cursor[p]
    BY <1>1, <1>2, <1>4, <2>1, <2>2, <2>3, TasksAssumption DEF FinishWaiter, Goto, Put, TypeOK
  <2>5. KeyOf[v] = KeyOf[t] /\ (v = t => o = "ok") /\ (v # t => claim[t] = "none")
    BY <1>1, <1>2, <1>4, <2>1, <2>2, <2>3 DEF WaitsOK
  <2>6. Told(v) = o
    BY <2>3, ClosedSpeaks, ToldByClaim
  <2>7. emitted \in [Pipelines -> Seq(Tasks \X {"ok", "failed"})]
    BY <1>1 DEF TypeOK
  <2>8. ASSUME NEW u \in Tasks, u # t  PROVE Told(u)' = Told(u)
    <3>1. RaisedAt(u)' <=> RaisedAt(u)
      <4>1. u[1] \in Pipelines /\ u = <<u[1], u[2]>>
        BY TasksKnown
      <4>2. CASE u[1] # p
        BY <1>2, <4>1, <4>2 DEF RaisedAt
      <4>3. CASE u[1] = p
        <5>1. u[2] # cursor[p]
          BY <2>1, <2>8, <4>1, <4>3
        <5> QED  BY <1>2, <2>4, <4>3, <5>1 DEF RaisedAt
      <4> QED  BY <4>2, <4>3
    <3>2. \/ emitted'[u[1]] = emitted[u[1]]
          \/ \E e \in Tasks \X {"ok", "failed"} :
               emitted'[u[1]] = Append(emitted[u[1]], e) /\ e[1] # u
      <4>1. CASE o = "error"
        BY <2>4, <4>1
      <4>2. CASE o # "error"
        <5>1. <<t, o>> \in Tasks \X {"ok", "failed"} /\ <<t, o>>[1] # u
          BY <2>3, <2>8, <4>2
        <5>2. emitted' = Put(emitted, p, Append(emitted[p], <<t, o>>))
          BY <2>4, <4>2 DEF Emit
        <5>3. u[1] = p => emitted'[u[1]] = Append(emitted[u[1]], <<t, o>>)
          BY <2>7, <5>2 DEF Put
        <5>4. u[1] # p => emitted'[u[1]] = emitted[u[1]]
          BY <2>7, <5>2, TasksKnown DEF Put
        <5> QED  BY <5>1, <5>3, <5>4
      <4> QED  BY <4>1, <4>2
    <3> QED  BY <1>1, <1>2, <3>1, <3>2, ToldKept DEF Unconcerned
  <2>9. CASE v = t
    <3>1. Told(t)' = Told(t)
      BY <1>2, <2>2, <2>9 DEF Told
    <3>2. \A u \in Tasks : Told(u)' = Told(u)
      BY <2>8, <3>1
    <3> QED  BY <1>1, <1>2, <3>2, NothingShows
  <2>10. CASE v # t
    <3>1. v # None /\ waitsOn'[t] = v /\ waitsOn[t] = v
      BY <1>2, <2>2, PipelineAssumption
    <3>2. \A i \in 1..Len(emitted[p]) : emitted[p][i][1] # t
      <4> SUFFICES ASSUME NEW i \in 1..Len(emitted[p]), emitted[p][i][1] = t  PROVE FALSE
        OBVIOUS
      <4>1. t[2] < cursor[p]
        BY <1>1, <1>2, <3>1 DEF EmittedOK
      <4>2. cursor[p] \in Nat
        BY <1>1, Types
      <4> QED  BY <2>1, <4>1, <4>2
    <3>3. Told(t) = "none"
      <4>1. {i \in 1..Len(emitted[p]) : emitted[p][i][1] = t} = {}
        BY <3>2
      <4> QED  BY <1>2, <2>1, <2>10, <3>1, <4>1 DEF Told
    <3>4. Told(t)' = o
      <4>1. CASE o = "error"
        <5>1. {i \in 1..Len(emitted'[p]) : emitted'[p][i][1] = t} = {}
          BY <2>4, <3>2, <4>1
        <5> QED  BY <2>1, <2>4, <2>10, <3>1, <4>1, <5>1 DEF Told
      <4>2. CASE o # "error"
        <5> DEFINE reports == {i \in 1..Len(emitted'[p]) : emitted'[p][i][1] = t}
        <5>1. PICK n \in Nat : n = Len(emitted[p]) /\ n + 1 \in 1..(n + 1)
          BY <1>1, Types
        <5>2. /\ Len(emitted'[p]) = n + 1 /\ emitted'[p][n + 1][1] = t
              /\ emitted'[p][n + 1][2] = o /\ \A i \in 1..n : emitted'[p][i] = emitted[p][i]
          BY <1>1, <2>3, <2>4, <4>2, <5>1, Reported
        <5>3. \A i \in 1..(n + 1) : i \in 1..n \/ i = n + 1
          OBVIOUS
        <5>4. reports # {} /\ \A i \in reports : emitted'[p][i][2] = o
          BY <3>2, <5>1, <5>2, <5>3
        <5>5. (CHOOSE i \in reports : TRUE) \in reports
          BY <5>4
        <5>6. Told(t)' = emitted'[p][CHOOSE i \in reports : TRUE][2]
          BY <2>1, <2>10, <3>1, <5>4 DEF Told
        <5> QED  BY <5>4, <5>5, <5>6
      <4> QED  BY <4>1, <4>2
    <3>5. Answer' = [Answer EXCEPT ![t] = o] /\ Answer[t] = "none" /\ Answer[v] = o
      BY <2>6, <2>8, <3>3, <3>4, OneIsAnswered DEF Answer
    <3>6. claims' = claims /\ claims[KeyOf[t]] # t
      BY <1>1, <1>2, <2>5, <2>10, TasksKnown, PipelineAssumption DEF ClaimsOK
    <3>7. Known' = Known
      BY <1>2 DEF Known, Durable
    <3>8. Shared!Follow(t, o)
      BY <2>5, <3>5, <3>6, <3>7 DEF Shared!Follow, Answer, Known
    <3>9. o \in Shared!Answers
      BY <2>3 DEF Shared!Answers
    <3> QED  BY <3>8, <3>9 DEF SharedStep, Shared!SharedNext
  <2> QED  BY <2>9, <2>10
<1> QED  BY <1>1, <1>2, <1>3, <1>4, TasksAssumption DEF FinishWaiter, Goto, Put, TypeOK

\* The steps that release a claim.
LEMMA ReleaseFailedShows ==
  ASSUME IInv, NEW p \in Pipelines, ReleaseFailed(p)
  PROVE  SharedStep
<1>1. TypeOK /\ FlowOK(p)
  BY DEF IInv, Local
<1>2. PICK t \in Tasks : t = current[p] /\ t \in pending[p]
  BY <1>1, Types DEF ReleaseFailed, FlowOK
<1>3. /\ Release(t, "failed") /\ Emit(p, t, "failed") /\ UNCHANGED <<waitsOn, durable, cursor>>
      /\ pc[p] = "failed" /\ (pc' = Put(pc, p, "download") \/ pc' = Put(pc, p, "abort"))
  BY <1>2 DEF ReleaseFailed, Goto, Abort, indexVars
<1>4. NobodyRaises
  BY <1>1, <1>3, PastItsTasks DEF TypeOK, Put
<1>5. Holds(p, t)
  BY <1>2 DEF Holds, Places
<1> QED  BY <1>3, <1>4, <1>5, ReleaseLands

LEMMA ReleaseRestShows ==
  ASSUME IInv, NEW p \in Pipelines, ReleaseRest(p)
  PROVE  SharedStep
<1>1. TypeOK /\ FlowOK(p)
  BY DEF IInv, Local
<1>2. /\ pc[p] = "aborting" /\ UNCHANGED <<waitsOn, durable, cursor, emitted>>
      /\ pc' = pc \/ pc' = Put(pc, p, "raised")
  BY DEF ReleaseRest, Goto, indexVars
<1>3. cursor[p] > NTasks[p] /\ cursor[p] \in Nat
  BY <1>1, <1>2, Types DEF FlowOK
<1>4. NobodyRaises
  BY <1>1, <1>2, <1>3, PastItsTasks DEF TypeOK, Put
<1>5. CASE Unreleased(p) = {}
  BY <1>2, <1>4, <1>5, ControlShowsNothing DEF ReleaseRest, claimVars
<1>6. CASE Unreleased(p) # {}
  <2>1. PICK t \in pending[p] : Release(t, "error")
    BY <1>6 DEF ReleaseRest, Unreleased
  <2>2. t \in Tasks /\ Holds(p, t)
    BY <1>1, <2>1, Types DEF Holds, Places
  <2> QED  BY <1>2, <1>4, <2>1, <2>2, ReleaseLands
<1> QED  BY <1>5, <1>6

LEMMA FinishOwedShows ==
  ASSUME IInv, NEW p \in Pipelines, FinishOwed(p)
  PROVE  SharedStep
<1>1. TypeOK /\ FlowOK(p)
  BY DEF IInv, Local
<1>2. PICK t \in Tasks : t = owed[p]
  BY <1>1, Types DEF FinishOwed
<1>3. PICK o \in {"failed", "error"} :
        Release(t, o) /\ (UNCHANGED emitted \/ (o # "error" /\ Emit(p, t, o)))
  BY <1>2 DEF FinishOwed
<1>4. /\ UNCHANGED <<waitsOn, durable, cursor>>
      /\ pc' = pc \/ pc' = Put(pc, p, "abort")
  BY DEF FinishOwed, Abort, Goto, indexVars
<1>5. NobodyRaises
  <2>1. pc[p] # "raised"
    BY <1>1, <1>2, PipelineAssumption DEF FlowOK
  <2> QED  BY <1>1, <1>4, <2>1, PastItsTasks DEF TypeOK, Put
<1>6. Holds(p, t)
  BY <1>2 DEF Holds, Places
<1> QED  BY <1>3, <1>4, <1>5, <1>6, ReleaseLands

LEMMA FinishMappingShows ==
  ASSUME IInv, NEW p \in Pipelines, FinishMapping(p)
  PROVE  SharedStep
<1>1. TypeOK /\ FlowOK(p) /\ HeldOK(p) /\ BatchesOK(p) /\ WorkOK
  BY DEF IInv, Local
<1>2. PICK B \in Seq(Batch) : B = batches[p] /\ B # <<>>
  BY <1>1, Types DEF FinishMapping
<1>3. PICK t \in Tasks : t = Head(Head(B).items) /\ Holds(p, t) /\ In(t, B[1].items)
  <2>1. PlacesApart(pending[p], storeQueue[p], results[p], B, owed[p]) /\ BatchesApart(B)
    BY <1>1, <1>2 DEF HeldOK, PlacesApart
  <2>2. results[p] \in Seq(Tasks)
    BY <1>1, Types
  <2>3. /\ Head(Head(B).items) \in Tasks
        /\ Places(Head(Head(B).items), pending[p], storeQueue[p], results[p], B, owed[p])
    BY <1>2, <2>1, <2>2, PlaceLeft
  <2>4. In(Head(Head(B).items), B[1].items)
    BY <1>2, <2>1, ItemLeavesFrom
  <2> QED  BY <1>2, <2>3, <2>4 DEF Holds
<1>4. PICK o \in {"ok", "failed", "error"} : o = Outcome(p, Head(B).id)
  BY DEF Outcome
<1>5. /\ Release(t, o) /\ (UNCHANGED emitted \/ (o # "error" /\ Emit(p, t, o)))
      /\ UNCHANGED <<waitsOn, durable, cursor>> /\ mapGoal[p] # "none"
      /\ future[Head(B).id] \in {"done", "failed"}
  <2>1. emitting[p] => o # "error"
    BY <1>4 DEF Outcome
  <2> QED  BY <1>2, <1>3, <1>4, <2>1 DEF FinishMapping, indexVars
<1>6. o = "ok" => Durable(KeyOf[t])
  <2>1. Head(B) = B[1] /\ 1 \in 1..Len(B)
    BY <1>2
  <2>2. B[1].id \in Tasks
    BY <1>1, <1>2, <2>1, ItemTypes
  <2>3. o = "ok" => future[B[1].id] = "done"
    BY <1>4, <2>1 DEF Outcome
  <2>4. t \in rows[B[1].id]
    BY <1>1, <1>2, <1>3, <2>1 DEF BatchesOK
  <2> QED  BY <1>1, <2>2, <2>3, <2>4 DEF Durable, WorkOK
<1>7. NobodyRaises
  <2>1. pc[p] \notin {"claim", "waiters", "done", "raised"}
    BY <1>1, <1>2, <1>5 DEF FlowOK, Drained
  <2>2. cursor[p] > NTasks[p] /\ cursor[p] \in Nat
    BY <1>1, <2>1, Types DEF FlowOK
  <2>3. pc' = pc \/ pc' = Put(pc, p, "raised") \/ pc' = Put(pc, p, "abort")
    BY DEF FinishMapping, GiveUp, Abort, Goto
  <2> QED  BY <1>1, <1>5, <2>1, <2>2, <2>3, PastItsTasks DEF TypeOK, Put
<1> QED  BY <1>3, <1>5, <1>6, <1>7, ReleaseLands

\* The steps that show nothing.
LEMMA ControlShows ==
  ASSUME IInv, NEW p \in Pipelines,
         \/ Start(p) \/ (\E ok \in BOOLEAN : Arrive(p, ok)) \/ SubmitStore(p) \/ Flush(p)
         \/ EndDownloads(p) \/ BeginWaiters(p) \/ LeaveDrain(p) \/ FinishStore(p)
  PROVE  SharedStep
<1>1. TypeOK
  BY DEF IInv
<1>2. UNCHANGED <<claims, claim, waitsOn, emitted>>
  BY DEF Start, Arrive, SubmitStore, Flush, EndDownloads, BeginWaiters, LeaveDrain, FinishStore,
         claimVars, taskVars
<1>3. UNCHANGED durable
  <2>1. ASSUME NEW R, NEW flush, SubmitResults(p, R, flush)  PROVE UNCHANGED durable
    BY <2>1 DEF SubmitResults, Submit, indexVars
  <2>2. Flush(p) \/ FinishStore(p) => UNCHANGED durable
    BY <2>1 DEF Flush, FinishStore, indexVars
  <2> QED
    BY <2>2 DEF Start, Arrive, SubmitStore, EndDownloads, BeginWaiters, LeaveDrain, indexVars
<1>4. \/ pc' = pc /\ cursor' = cursor
      \/ /\ pc[p] # "raised" /\ \A q \in Pipelines \ {p} : pc'[q] = pc[q] /\ cursor'[q] = cursor[q]
         /\ pc'[p] = "raised" => cursor'[p] \in Nat /\ cursor'[p] > NTasks[p]
  <2>1. ASSUME NEW l \in PcStates
        PROVE  /\ Put(pc, p, l)[p] = l
               /\ \A q \in Pipelines \ {p} : Put(pc, p, l)[q] = pc[q]
               /\ \A q \in Pipelines \ {p} : Put(cursor, p, 1)[q] = cursor[q]
    BY <1>1 DEF TypeOK, Put
  <2>2. cursor[p] \in Nat
    BY <1>1, Types
  <2>3. CASE Start(p)
    BY <2>1, <2>2, <2>3 DEF Start, Goto, PcStates
  <2>4. CASE \E ok \in BOOLEAN : Arrive(p, ok)
    BY <2>1, <2>4 DEF Arrive, Goto, PcStates
  <2>5. CASE SubmitStore(p)
    BY <2>1, <2>5 DEF SubmitStore, Goto, PcStates
  <2>6. CASE Flush(p)
    BY <2>1, <2>6 DEF Flush, Goto, PcStates
  <2>7. CASE EndDownloads(p)
    <3>1. /\ pc[p] = "download" /\ cursor' = cursor
          /\ pc' = Put(pc, p, "tail") \/ pc' = Put(pc, p, "abort")
      BY <2>7 DEF EndDownloads, Abort, Goto
    <3>2. "tail" \in PcStates /\ "abort" \in PcStates
      BY DEF PcStates
    <3> QED  BY <2>1, <3>1, <3>2
  <2>8. CASE BeginWaiters(p)
    BY <2>1, <2>8 DEF BeginWaiters, Goto, PcStates
  <2>9. CASE LeaveDrain(p) \/ FinishStore(p)
    BY <2>9 DEF LeaveDrain, FinishStore, controlVars
  <2> QED  BY <2>3, <2>4, <2>5, <2>6, <2>7, <2>8, <2>9
<1>5. NobodyRaises
  BY <1>4, PastItsTasks
<1> QED  BY <1>2, <1>3, <1>5, ControlShowsNothing

\* The index learns of an attachment only while its claim is open: a commit is
\* for a future that is pending, whose rows are still held.
LEMMA WriterShows ==
  ASSUME IInv, NEW r \in Tasks, WriterWork(r)
  PROVE  SharedStep
<1>1. TypeOK /\ ClaimsOK
  BY DEF IInv
<1>2. UNCHANGED <<claims, claim, waitsOn, emitted, pc, cursor>>
  BY DEF WriterWork, claimVars, taskVars, controlVars
<1>3. NobodyRaises
  BY <1>2 DEF NobodyRaises, RaisedAt
<1>4. CASE UNCHANGED durable
  BY <1>2, <1>3, <1>4, ControlShowsNothing
<1>5. CASE \E S \in SUBSET rows[r] : Commit(S)
  <2>1. PICK S \in SUBSET rows[r] : Commit(S)
    BY <1>5
  <2>2. S \subseteq Tasks /\ durable' = durable \union S
    BY <1>1, <2>1, Types DEF Commit
  <2> DEFINE K == {KeyOf[t] : t \in S}
  <2>3. \A k \in K : claims[k] # None
    <3> SUFFICES ASSUME NEW t \in S  PROVE claims[KeyOf[t]] # None
      OBVIOUS
    <3>1. PICK s \in Tasks : future[s] = "pending" /\ t \in rows[s]
      BY <2>1 DEF Commit, PendingRows
    <3>2. PICK p \in Pipelines : p = t[1] /\ t \in Tasks
      BY <2>2, TasksKnown
    <3>3. HeldOK(p) /\ BatchesOK(p)
      BY DEF IInv, Local
    <3>4. InBatches(t, batches[p])
      BY <3>1, <3>2, <3>3 DEF BatchesOK, InBatches
    <3>5. claim[t] = "open"
      BY <3>2, <3>3, <3>4 DEF HeldOK, Holds, Places
    <3> QED  BY <1>1, <3>2, <3>5, PipelineAssumption DEF ClaimsOK
  <2>4. K \subseteq Keys
    BY <2>2, TasksKnown
  <2>5. Known' = Known \union K
    BY <2>2, <2>4 DEF Known, Durable
  <2>6. Answer' = Answer
    <3>1. \A t \in Tasks : Told(t)' = Told(t)
      BY <1>1, <1>2, <1>3, ToldKept DEF Unconcerned, NobodyRaises
    <3> QED  BY <3>1 DEF Answer
  <2> HIDE DEF K
  <2>7. Shared!Record(K)
    BY <1>2, <2>3, <2>5, <2>6 DEF Shared!Record, Answer, Known
  <2> QED  BY <2>4, <2>7 DEF SharedStep, Shared!SharedNext
<1> QED  BY <1>4, <1>5 DEF WriterWork, Succeed, Fail

\* The batching, draining and aborting of the pipelines, with any fault, is one
\* shared download per attachment.
THEOREM PipelinesShareDownloads == Spec => ImplementsSharedDownloads
<1>1. Init => Shared!SharedInit
  <2> SUFFICES ASSUME Init  PROVE Shared!SharedInit
    OBVIOUS
  <2>1. /\ claims = [k \in Keys |-> None] /\ claim = [t \in Tasks |-> "none"]
        /\ waitsOn = [t \in Tasks |-> None] /\ durable = {}
    BY DEF Init, WriterInit
  <2>2. \A t \in Tasks : Told(t) = "none"
    BY <2>1 DEF Told
  <2> QED  BY <2>1, <2>2 DEF Shared!SharedInit, Durable
<1>2. IInv /\ [Next]_vars => SharedStep
  <2> SUFFICES ASSUME IInv, [Next]_vars  PROVE SharedStep
    OBVIOUS
  <2>1. CASE UNCHANGED vars
    <3>1. UNCHANGED <<claims, claim, waitsOn, emitted, durable, pc, cursor>>
      BY <2>1 DEF vars, claimVars, taskVars, controlVars, indexVars
    <3>2. NobodyRaises
      BY <3>1 DEF NobodyRaises, RaisedAt
    <3> QED  BY <3>1, <3>2, ControlShowsNothing
  <2>2. ASSUME NEW p \in Pipelines, PipelineNext(p)  PROVE SharedStep
    BY <2>2, ClaimShows, FinishWaiterShows, ReleaseFailedShows, ReleaseRestShows,
       FinishOwedShows, FinishMappingShows, ControlShows DEF PipelineNext
  <2>3. ASSUME NEW t \in Tasks, StoreWork(t)  PROVE SharedStep
    <3>1. UNCHANGED <<claims, claim, waitsOn, emitted, durable, pc, cursor>>
      BY <2>3 DEF StoreWork, claimVars, taskVars, controlVars, indexVars
    <3>2. NobodyRaises
      BY <3>1 DEF NobodyRaises, RaisedAt
    <3> QED  BY <3>1, <3>2, ControlShowsNothing
  <2>4. ASSUME NEW t \in Tasks, WriterWork(t)  PROVE SharedStep
    BY <2>4, WriterShows
  <2>5. Terminated => UNCHANGED vars
    BY DEF Terminated
  <2> QED  BY <2>1, <2>2, <2>3, <2>4, <2>5 DEF Next
<1> QED
  BY <1>1, <1>2, Invariance, PTL
     DEF Spec, ImplementsSharedDownloads, Shared!SharedSpec, SharedStep

-----------------------------------------------------------------------------
(* The order of the reports.  What has arrived at a pipeline and is not yet *)
(* reported stands in line, in the order of arrival: first the batches, then *)
(* the results, the failure that is owed, the store queue, and last the     *)
(* result that is being handled.  Every step moves the line on, and a report *)
(* takes its first task; only an exception breaks it up, after which the    *)
(* pipeline reports nothing more.                                           *)

\* The line: a is what has arrived, its first n results are reported.  f gives each
\* batch, and what stands behind the batches, its place.
InLine(s, a, n) == \A i \in 1..Len(s) : s[i] = a[n + i]
After(x, n) == IF x = None THEN n ELSE n + 1

LineAt(f, a, n, B, R, w, S, c) ==
  LET r == f[Len(B) + 1]
      o == r + Len(R)
      e == After(w, o) + Len(S)
  IN  /\ f \in [1..(Len(B) + 1) -> Nat] /\ f[1] = n
      /\ \A j \in 1..Len(B) : /\ f[j + 1] = f[j] + Len(B[j].items) /\ f[j + 1] <= r
                              /\ InLine(B[j].items, a, f[j])
      /\ InLine(R, a, r) /\ (w # None => w = a[o + 1])
      /\ InLine(S, a, After(w, o)) /\ (c # None => c = a[e + 1])
      /\ Len(a) = After(c, e)

Line(a, n, B, R, w, S, c) == \E f : LineAt(f, a, n, B, R, w, S, c)

LEMMA AfterNat == \A x : \A n \in Nat : After(x, n) \in Nat /\ n <= After(x, n)
BY DEF After

\* What stands in line does not move when others arrive.
LEMMA InLineKept ==
  ASSUME NEW s, Len(s) \in Nat, NEW a, NEW b, NEW m \in Nat, NEW n \in Nat, n + Len(s) <= m,
         \A i \in 1..m : b[i] = a[i], InLine(s, a, n)
  PROVE  InLine(s, b, n)
<1>1. ASSUME NEW i \in 1..Len(s)  PROVE s[i] = b[n + i]
  <2>1. n + i \in 1..m
    OBVIOUS
  <2> QED  BY <2>1 DEF InLine
<1> QED  BY <1>1 DEF InLine

LEMMA LineArrives ==
  ASSUME NEW a \in Seq(Tasks), NEW n \in Nat, NEW B \in Seq(Batch), NEW R \in Seq(Tasks), NEW w,
         NEW S \in Seq(Tasks), NEW t \in Tasks, Line(a, n, B, R, w, S, None)
  PROVE  Line(Append(a, t), n, B, R, w, S, t)
<1> DEFINE b == Append(a, t)
<1>1. PICK f : LineAt(f, a, n, B, R, w, S, None)
  BY DEF Line
<1> DEFINE r == f[Len(B) + 1]
           o == r + Len(R)
           e == After(w, o) + Len(S)
<1>2. /\ Len(B) \in Nat /\ Len(R) \in Nat /\ Len(S) \in Nat /\ f \in [1..(Len(B) + 1) -> Nat]
      /\ Len(a) = e /\ b \in Seq(Tasks) /\ b[Len(a) + 1] = t /\ Len(b) = Len(a) + 1
      /\ \A i \in 1..Len(a) : b[i] = a[i]
  BY <1>1 DEF LineAt, After
<1>3. r \in Nat /\ o \in Nat /\ After(w, o) \in Nat /\ o <= After(w, o) /\ e \in Nat
  BY <1>2, AfterNat
<1>4. t # None
  BY PipelineAssumption
<1>9. r <= Len(a)
  <2>1. r <= o
    BY <1>2, <1>3
  <2>2. After(w, o) <= e
    BY <1>2, <1>3
  <2> HIDE DEF r, o, e
  <2> QED  BY <1>2, <1>3, <2>1, <2>2
<1> HIDE DEF b
<1>5. \A j \in 1..Len(B) : f[j + 1] = f[j] + Len(B[j].items) /\ f[j + 1] <= r /\ InLine(B[j].items, a, f[j])
  BY <1>1 DEF LineAt
<1>6. \A j \in 1..Len(B) : InLine(B[j].items, b, f[j])
  <2> TAKE j \in 1..Len(B)
  <2>1. B[j] \in Batch
    OBVIOUS
  <2>4. B[j].items \in Seq(Tasks)
    BY <2>1 DEF Batch
  <2>5. Len(B[j].items) \in Nat /\ f[j] \in Nat /\ f[j + 1] <= Len(a)
    <3>1. j \in 1..(Len(B) + 1) /\ j + 1 \in 1..(Len(B) + 1)
      BY <1>2
    <3>3. \A k \in 1..(Len(B) + 1) : f[k] \in Nat
      BY <1>2
    <3>2. f[j] \in Nat /\ f[j + 1] \in Nat /\ f[j + 1] <= r /\ Len(B[j].items) \in Nat
      BY <1>5, <2>4, <3>1, <3>3
    <3> HIDE DEF r, o, e
    <3> QED  BY <1>2, <1>3, <1>9, <3>2
  <2>2. Len(B[j].items) \in Nat /\ f[j] \in Nat /\ f[j] + Len(B[j].items) <= Len(a)
    BY <1>5, <2>5
  <2>3. InLine(B[j].items, a, f[j]) /\ Len(a) \in Nat
    BY <1>2, <1>3, <1>5
  <2> QED  BY <1>2, <2>2, <2>3, InLineKept
<1>7. InLine(R, b, r) /\ InLine(S, b, After(w, o)) /\ (w # None => w = b[o + 1])
  <2>1. InLine(R, a, r) /\ InLine(S, a, After(w, o)) /\ (w # None => w = a[o + 1] /\ After(w, o) = o + 1)
    BY <1>1 DEF LineAt, After
  <2> HIDE DEF r, o, e
  <2>2. o = r + Len(R) /\ e = After(w, o) + Len(S)
    BY DEF o, e
  <2>3. r + Len(R) <= Len(a) /\ After(w, o) + Len(S) <= Len(a) /\ Len(a) \in Nat
    BY <1>2, <1>3, <2>2, SMTT(20)
  <2>4. InLine(R, b, r) /\ InLine(S, b, After(w, o))
    BY <1>2, <1>3, <2>1, <2>3, InLineKept
  <2>5. w # None => o + 1 \in 1..Len(a)
    <3>1. w # None => After(w, o) = o + 1
      BY <2>1
    <3>2. o \in Nat /\ Len(S) \in Nat /\ Len(a) = After(w, o) + Len(S)
      BY <1>2, <1>3, <2>2
    <3> QED  BY <3>1, <3>2
  <2> QED  BY <1>2, <2>1, <2>4, <2>5
<1>8. LineAt(f, b, n, B, R, w, S, t)
  BY <1>1, <1>2, <1>3, <1>4, <1>5, <1>6, <1>7 DEF LineAt, After
<1> QED  BY <1>8 DEF Line, b

LEMMA LineKnown ==
  ASSUME NEW a \in Seq(Tasks), NEW n \in Nat, NEW B \in Seq(Batch), NEW R \in Seq(Tasks), NEW w,
         NEW S \in Seq(Tasks), NEW c, NEW f, LineAt(f, a, n, B, R, w, S, c)
  PROVE  LET r == f[Len(B) + 1]
             o == r + Len(R)
         IN  /\ Len(B) \in Nat /\ Len(R) \in Nat /\ Len(S) \in Nat /\ Len(a) \in Nat
             /\ \A k \in 1..(Len(B) + 1) : f[k] \in Nat
             /\ r \in Nat /\ n <= r /\ o \in Nat /\ After(w, o) \in Nat
             /\ f[1] = n /\ f \in [1..(Len(B) + 1) -> Nat]
             /\ \A j \in 1..Len(B) : /\ f[j + 1] = f[j] + Len(B[j].items) /\ f[j + 1] <= r
                                     /\ InLine(B[j].items, a, f[j]) /\ B[j].items \in Seq(Tasks)
             /\ InLine(R, a, r) /\ (w # None => w = a[o + 1])
             /\ InLine(S, a, After(w, o)) /\ (c # None => c = a[After(w, o) + Len(S) + 1])
             /\ Len(a) = After(c, After(w, o) + Len(S))
<1> DEFINE r == f[Len(B) + 1]
           o == r + Len(R)
<1>1. Len(B) \in Nat /\ Len(R) \in Nat /\ Len(S) \in Nat /\ Len(a) \in Nat
  OBVIOUS
<1>2. f \in [1..(Len(B) + 1) -> Nat] /\ f[1] = n
  BY DEF LineAt
<1>3. \A k \in 1..(Len(B) + 1) : f[k] \in Nat
  BY <1>2
<1>4. r \in Nat
  BY <1>1, <1>3
<1>5. \A j \in 1..Len(B) : f[j + 1] = f[j] + Len(B[j].items) /\ f[j + 1] <= r /\ InLine(B[j].items, a, f[j])
  BY DEF LineAt
<1>6. \A j \in 1..Len(B) : B[j].items \in Seq(Tasks)
  <2> TAKE j \in 1..Len(B)
  <2>1. B[j] \in Batch
    OBVIOUS
  <2> QED  BY <2>1 DEF Batch
<1>7. n <= r
  <2>1. CASE Len(B) = 0
    BY <1>2, <1>4, <2>1
  <2>2. CASE Len(B) # 0
    <3>1. 1 \in 1..Len(B) /\ 1 \in 1..(Len(B) + 1) /\ 1 + 1 \in 1..(Len(B) + 1)
      BY <1>1, <2>2
    <3>2. f[1 + 1] = f[1] + Len(B[1].items) /\ f[1 + 1] <= r /\ Len(B[1].items) \in Nat
      BY <1>5, <1>6, <3>1
    <3>3. f[1 + 1] \in Nat
      BY <1>3, <3>1
    <3> HIDE DEF r
    <3> QED  BY <1>2, <1>4, <3>2, <3>3
  <2> QED  BY <2>1, <2>2
<1>8. o \in Nat /\ After(w, o) \in Nat
  BY <1>1, <1>4, AfterNat
<1>9. /\ InLine(R, a, r) /\ (w # None => w = a[o + 1])
      /\ InLine(S, a, After(w, o)) /\ (c # None => c = a[After(w, o) + Len(S) + 1])
      /\ Len(a) = After(c, After(w, o) + Len(S))
  BY DEF LineAt
<1> QED  BY <1>1, <1>2, <1>3, <1>4, <1>5, <1>6, <1>7, <1>8, <1>9

\* The task that is being handled is handed to the store.
LEMMA LineHanded ==
  ASSUME NEW a \in Seq(Tasks), NEW n \in Nat, NEW B \in Seq(Batch), NEW R \in Seq(Tasks), NEW w,
         NEW S \in Seq(Tasks), NEW t \in Tasks, Line(a, n, B, R, w, S, t)
  PROVE  Line(a, n, B, R, w, Append(S, t), None)
<1>1. PICK f : LineAt(f, a, n, B, R, w, S, t)
  BY DEF Line
<1> DEFINE o == f[Len(B) + 1] + Len(R)
           s == Append(S, t)
<1>2. /\ t # None /\ Len(S) \in Nat /\ o \in Nat /\ After(w, o) \in Nat
      /\ InLine(S, a, After(w, o)) /\ t = a[After(w, o) + Len(S) + 1]
      /\ Len(a) = After(t, After(w, o) + Len(S))
  BY <1>1, LineKnown, PipelineAssumption
<1>3. Len(s) = Len(S) + 1 /\ s[Len(S) + 1] = t /\ \A i \in 1..Len(S) : s[i] = S[i]
  OBVIOUS
<1> HIDE DEF s
<1>4. InLine(s, a, After(w, o))
  <2> SUFFICES ASSUME NEW i \in 1..Len(s)  PROVE s[i] = a[After(w, o) + i]
    BY DEF InLine
  <2>1. CASE i \in 1..Len(S)
    BY <1>2, <1>3, <2>1 DEF InLine
  <2>2. CASE i = Len(S) + 1
    <3>1. After(w, o) + i = After(w, o) + Len(S) + 1
      BY <1>2, <2>2
    <3> QED  BY <1>2, <1>3, <2>2, <3>1
  <2> QED  BY <1>2, <1>3, <2>1, <2>2
<1>5. Len(a) = After(w, o) + Len(s)
  <2>1. Len(a) = After(w, o) + Len(S) + 1
    BY <1>2 DEF After
  <2> QED  BY <1>2, <1>3, <2>1
<1>6. LineAt(f, a, n, B, R, w, s, None)
  BY <1>1, <1>4, <1>5 DEF LineAt, After
<1> QED  BY <1>6 DEF Line, s

\* The oldest work of the store is finished; its task waits for a batch.
LEMMA LineStored ==
  ASSUME NEW a \in Seq(Tasks), NEW n \in Nat, NEW B \in Seq(Batch), NEW R \in Seq(Tasks),
         NEW S \in Seq(Tasks), NEW c, S # <<>>, Line(a, n, B, R, None, S, c)
  PROVE  Line(a, n, B, Append(R, Head(S)), None, Tail(S), c)
<1>1. PICK f : LineAt(f, a, n, B, R, None, S, c)
  BY DEF Line
<1> DEFINE r == f[Len(B) + 1]
           o == r + Len(R)
           Q == Append(R, Head(S))
           T == Tail(S)
<1>2. /\ Len(S) \in Nat /\ Len(R) \in Nat /\ r \in Nat /\ InLine(R, a, r)
      /\ InLine(S, a, o) /\ (c # None => c = a[o + Len(S) + 1]) /\ Len(a) = After(c, o + Len(S))
  BY <1>1, LineKnown DEF After
<1>3. /\ Len(Q) = Len(R) + 1 /\ Q[Len(R) + 1] = S[1] /\ \A i \in 1..Len(R) : Q[i] = R[i]
      /\ Len(T) = Len(S) - 1 /\ Len(S) >= 1 /\ \A i \in 1..Len(T) : T[i] = S[i + 1]
  OBVIOUS
<1> HIDE DEF Q, T, r
<1>4. InLine(Q, a, r)
  <2> SUFFICES ASSUME NEW i \in 1..Len(Q)  PROVE Q[i] = a[r + i]
    BY DEF InLine
  <2>1. CASE i \in 1..Len(R)
    BY <1>2, <1>3, <2>1 DEF InLine
  <2>2. CASE i = Len(R) + 1
    <3>1. 1 \in 1..Len(S) /\ o + 1 = r + i
      BY <1>2, <1>3, <2>2
    <3>2. S[1] = a[o + 1]
      BY <1>2, <3>1 DEF InLine
    <3> QED  BY <1>3, <2>2, <3>1, <3>2
  <2> QED  BY <1>2, <1>3, <2>1, <2>2
<1>5. InLine(T, a, r + Len(Q))
  <2> SUFFICES ASSUME NEW i \in 1..Len(T)  PROVE T[i] = a[r + Len(Q) + i]
    BY DEF InLine
  <2>1. i + 1 \in 1..Len(S) /\ r + Len(Q) + i = o + (i + 1)
    BY <1>2, <1>3
  <2>2. S[i + 1] = a[o + (i + 1)]
    BY <1>2, <2>1 DEF InLine
  <2> QED  BY <1>3, <2>1, <2>2
<1>6. r + Len(Q) + Len(T) = o + Len(S)
  BY <1>2, <1>3
<1>7. LineAt(f, a, n, B, Q, None, T, c)
  <2>1. After(None, r + Len(Q)) = r + Len(Q)
    BY DEF After
  <2> QED  BY <1>1, <1>2, <1>4, <1>5, <1>6, <2>1 DEF LineAt, r
<1> QED  BY <1>7 DEF Line, Q, T

\* The oldest work of the store has failed; its release is owed.
LEMMA LineOwes ==
  ASSUME NEW a \in Seq(Tasks), NEW n \in Nat, NEW B \in Seq(Batch), NEW R \in Seq(Tasks),
         NEW S \in Seq(Tasks), NEW c, S # <<>>, Line(a, n, B, R, None, S, c)
  PROVE  Line(a, n, B, R, Head(S), Tail(S), c)
<1>1. PICK f : LineAt(f, a, n, B, R, None, S, c)
  BY DEF Line
<1> DEFINE r == f[Len(B) + 1]
           o == r + Len(R)
           T == Tail(S)
           w == Head(S)
<1>2. /\ Len(S) \in Nat /\ Len(R) \in Nat /\ r \in Nat
      /\ InLine(S, a, o) /\ (c # None => c = a[o + Len(S) + 1]) /\ Len(a) = After(c, o + Len(S))
  BY <1>1, LineKnown DEF After
<1>3. /\ w = S[1] /\ w \in Tasks
      /\ Len(T) = Len(S) - 1 /\ Len(S) >= 1 /\ \A i \in 1..Len(T) : T[i] = S[i + 1]
  OBVIOUS
<1> HIDE DEF w, T, r
<1>4. w = a[o + 1]
  <2>1. 1 \in 1..Len(S)
    BY <1>2, <1>3
  <2> QED  BY <1>2, <1>3, <2>1 DEF InLine
<1>5. After(w, o) = o + 1 /\ o \in Nat
  BY <1>2, <1>3, PipelineAssumption DEF After
<1>6. InLine(T, a, o + 1)
  <2> SUFFICES ASSUME NEW i \in 1..Len(T)  PROVE T[i] = a[o + 1 + i]
    BY DEF InLine
  <2>1. i + 1 \in 1..Len(S) /\ o + 1 + i = o + (i + 1)
    BY <1>2, <1>3
  <2>2. S[i + 1] = a[o + (i + 1)]
    BY <1>2, <2>1 DEF InLine
  <2> QED  BY <1>3, <2>1, <2>2
<1>7. o + 1 + Len(T) = o + Len(S)
  BY <1>2, <1>3
<1>8. LineAt(f, a, n, B, R, w, T, c)
  BY <1>1, <1>2, <1>4, <1>5, <1>6, <1>7 DEF LineAt, r
<1> QED  BY <1>8 DEF Line, w, T

\* The results become the youngest batch.
LEMMA LineBatched ==
  ASSUME NEW a \in Seq(Tasks), NEW n \in Nat, NEW B \in Seq(Batch), NEW R \in Seq(Tasks), NEW w,
         NEW S \in Seq(Tasks), NEW c, NEW b \in Batch, b.items = R, Line(a, n, B, R, w, S, c)
  PROVE  Line(a, n, Append(B, b), <<>>, w, S, c)
<1>1. PICK f : LineAt(f, a, n, B, R, w, S, c)
  BY DEF Line
<1> DEFINE r == f[Len(B) + 1]
           o == r + Len(R)
           C == Append(B, b)
           g == [k \in 1..(Len(C) + 1) |-> IF k \in 1..(Len(B) + 1) THEN f[k] ELSE o]
<1>2. /\ Len(B) \in Nat /\ Len(R) \in Nat /\ r \in Nat /\ o \in Nat
      /\ \A k \in 1..(Len(B) + 1) : f[k] \in Nat
      /\ f[1] = n /\ InLine(R, a, r)
      /\ \A j \in 1..Len(B) : /\ f[j + 1] = f[j] + Len(B[j].items) /\ f[j + 1] <= r
                              /\ InLine(B[j].items, a, f[j])
  <2>1. /\ Len(B) \in Nat /\ Len(R) \in Nat /\ r \in Nat /\ o \in Nat
        /\ \A k \in 1..(Len(B) + 1) : f[k] \in Nat
    BY <1>1, LineKnown
  <2>2. /\ f[1] = n /\ InLine(R, a, r)
        /\ \A j \in 1..Len(B) : /\ f[j + 1] = f[j] + Len(B[j].items) /\ f[j + 1] <= r
                                /\ InLine(B[j].items, a, f[j])
    BY <1>1 DEF LineAt
  <2> QED  BY <2>1, <2>2
<1>3. /\ C \in Seq(Batch) /\ Len(C) = Len(B) + 1 /\ C[Len(B) + 1] = b
      /\ \A i \in 1..Len(B) : C[i] = B[i]
  OBVIOUS
<1> HIDE DEF C
<1>4. /\ g \in [1..(Len(C) + 1) -> Nat] /\ \A k \in 1..(Len(B) + 1) : g[k] = f[k]
      /\ g[Len(C) + 1] = o
  BY <1>2, <1>3
<1>5. g[1] = n
  BY <1>2, <1>4
<1> HIDE DEF g
<1>6. ASSUME NEW j \in 1..Len(C)
      PROVE  g[j + 1] = g[j] + Len(C[j].items) /\ g[j + 1] <= o /\ InLine(C[j].items, a, g[j])
  <2>1. CASE j \in 1..Len(B)
    <3>1. j \in 1..(Len(B) + 1) /\ j + 1 \in 1..(Len(B) + 1)
      BY <1>2, <2>1
    <3>2. g[j] = f[j] /\ g[j + 1] = f[j + 1] /\ C[j] = B[j] /\ f[j + 1] \in Nat
      BY <1>2, <1>3, <1>4, <2>1, <3>1
    <3>3. f[j + 1] = f[j] + Len(B[j].items) /\ f[j + 1] <= r /\ InLine(B[j].items, a, f[j])
      BY <1>2, <2>1
    <3> HIDE DEF r
    <3>4. f[j + 1] <= o
      BY <1>2, <3>2, <3>3
    <3> QED  BY <3>2, <3>3, <3>4
  <2>2. CASE j = Len(B) + 1
    <3>1. Len(B) + 1 \in 1..(Len(B) + 1) /\ j + 1 = Len(C) + 1
      BY <1>2, <1>3, <2>2
    <3>2. g[j] = r /\ g[j + 1] = o /\ C[j].items = R
      BY <1>3, <1>4, <2>2, <3>1
    <3> HIDE DEF r
    <3> QED  BY <1>2, <3>2
  <2> QED  BY <1>2, <1>3, <2>1, <2>2
<1>7. o + Len(<<>>) = o /\ InLine(<<>>, a, o)
  BY <1>2 DEF InLine
<1>8. LineAt(g, a, n, C, <<>>, w, S, c)
  <2>1. /\ w # None => w = a[o + 1]
        /\ InLine(S, a, After(w, o)) /\ (c # None => c = a[After(w, o) + Len(S) + 1])
        /\ Len(a) = After(c, After(w, o) + Len(S))
    BY <1>1 DEF LineAt
  <2> HIDE DEF o
  <2> QED  BY <1>4, <1>5, <1>6, <1>7, <2>1 DEF LineAt
<1> QED  BY <1>8 DEF Line, C

LEMMA TailTasks ==
  ASSUME NEW X, NEW s \in Seq(X), s # <<>>
  PROVE  Len(Tail(s)) = Len(s) - 1 /\ Tail(s) \in Seq(X) /\ \A i \in 1..Len(Tail(s)) : Tail(s)[i] = s[i + 1]
OBVIOUS

LEMMA AfterItemKept ==
  ASSUME NEW B \in Seq(Batch), BatchesApart(B), B # <<>>, Len(Head(B).items) # 1
  PROVE  /\ Len(AfterItem(B)) = Len(B) /\ AfterItem(B)[1].items = Tail(Head(B).items)
         /\ \A k \in 1..Len(B) : k # 1 => AfterItem(B)[k] = B[k]
<1> DEFINE b == Head(B)
           d == [b EXCEPT !.items = Tail(@)]
           C == AfterItem(B)
<1>1. /\ b = B[1] /\ Len(B) \in Nat /\ Len(B) >= 1 /\ 1 \in 1..Len(B) /\ b \in Batch
      /\ Tail(B) \in Seq(Batch) /\ Len(Tail(B)) = Len(B) - 1
      /\ \A i \in 1..(Len(B) - 1) : Tail(B)[i] = B[i + 1]
  OBVIOUS
<1>2. b.items \in Seq(Tasks) /\ b.items # <<>>
  BY <1>1 DEF BatchesApart, Batch
<1>3. d \in Batch /\ d.items = Tail(b.items)
  <2>1. Tail(b.items) \in Seq(Tasks)
    BY <1>2
  <2> QED  BY <1>1, <2>1 DEF Batch
<1>4. C = <<d>> \o Tail(B)
  BY DEF AfterItem
<1> HIDE DEF d
<1>5. Len(C) = Len(B) /\ C[1] = d /\ \A i \in 1..Len(B) : i # 1 => C[i] = B[i]
  BY <1>1, <1>3, <1>4
<1> QED  BY <1>3, <1>5

\* The oldest item of the oldest batch is the first in line.
LEMMA LineItem ==
  ASSUME NEW a \in Seq(Tasks), NEW n \in Nat, NEW B \in Seq(Batch), NEW R \in Seq(Tasks), NEW w,
         NEW S \in Seq(Tasks), NEW c, BatchesApart(B), B # <<>>, Line(a, n, B, R, w, S, c)
  PROVE  /\ n + 1 <= Len(a) /\ Head(Head(B).items) = a[n + 1]
         /\ Line(a, n + 1, AfterItem(B), R, w, S, c)
<1> DEFINE L == Head(B).items
           C == AfterItem(B)
<1>1. PICK f : LineAt(f, a, n, B, R, w, S, c)
  BY DEF Line
<1> DEFINE r == f[Len(B) + 1]
           o == r + Len(R)
           rest == /\ InLine(R, a, r) /\ (w # None => w = a[o + 1])
                   /\ InLine(S, a, After(w, o)) /\ (c # None => c = a[After(w, o) + Len(S) + 1])
                   /\ Len(a) = After(c, After(w, o) + Len(S))
<1>2. /\ Len(B) \in Nat /\ Len(R) \in Nat /\ Len(S) \in Nat /\ r \in Nat /\ o \in Nat
      /\ After(w, o) \in Nat /\ Len(a) \in Nat
      /\ \A k \in 1..(Len(B) + 1) : f[k] \in Nat
  BY <1>1, LineKnown
<1>3. rest /\ f[1] = n
  BY <1>1 DEF LineAt
<1>4. \A j \in 1..Len(B) : f[j + 1] = f[j] + Len(B[j].items) /\ f[j + 1] <= r /\ InLine(B[j].items, a, f[j])
  BY <1>1 DEF LineAt
<1>5. /\ Len(B) >= 1 /\ Head(B) = B[1] /\ B[1] \in Batch /\ L \in Seq(Tasks) /\ Len(L) \in Nat
      /\ L # <<>> /\ L = B[1].items
  <2>1. Len(B) >= 1 /\ Head(B) = B[1] /\ 1 \in 1..Len(B) /\ B[1] \in Batch
    OBVIOUS
  <2>2. L = B[1].items /\ L \in Seq(Tasks) /\ L # <<>>
    BY <2>1 DEF Batch, BatchesApart
  <2> HIDE DEF L
  <2> QED  BY <2>1, <2>2
<1> HIDE DEF L
<1>6. Len(L) >= 1 /\ Head(L) = L[1] /\ 1 \in 1..Len(L)
  BY <1>5
<1>7. f[2] = n + Len(L) /\ f[2] <= r /\ f[2] \in Nat /\ InLine(L, a, n)
  <2>1. 1 \in 1..Len(B) /\ 2 \in 1..(Len(B) + 1) /\ 1 + 1 = 2
    BY <1>2, <1>5
  <2> HIDE DEF r
  <2> QED  BY <1>2, <1>3, <1>4, <1>5, <2>1
<1>8. n + 1 <= Len(a) /\ Head(L) = a[n + 1]
  <2>1. L[1] = a[n + 1]
    BY <1>6, <1>7 DEF InLine
  <2>2. After(w, o) >= o /\ After(c, After(w, o) + Len(S)) >= After(w, o) + Len(S)
    BY <1>2, AfterNat
  <2>3. r <= o /\ Len(a) = After(c, After(w, o) + Len(S))
    <3>1. r <= o
      <4>1. r \in Nat /\ Len(R) \in Nat
        BY <1>2
      <4> HIDE DEF r
      <4> QED  BY <4>1
    <3> QED  BY <1>3, <3>1
  <2> HIDE DEF r, o, rest
  <2>4. n + 1 <= f[2] /\ f[2] <= r /\ r \in Nat /\ o \in Nat /\ f[2] \in Nat
    BY <1>2, <1>5, <1>6, <1>7
  <2>5. o <= Len(a)
    <3> DEFINE x == After(w, o)
               y == After(c, x + Len(S))
    <3>1. x \in Nat /\ Len(S) \in Nat /\ x >= o /\ o \in Nat
      BY <1>2, <2>2, <2>4
    <3>2. y >= x + Len(S) /\ Len(a) = y /\ y \in Nat
      BY <1>2, <2>2, <2>3
    <3> HIDE DEF x, y
    <3>3. o <= y
      BY <3>1, <3>2
    <3> QED  BY <3>2, <3>3
  <2> QED  BY <1>2, <1>6, <2>1, <2>3, <2>4, <2>5
<1>9. CASE Len(L) = 1
  <2> DEFINE g == [k \in 1..Len(B) |-> f[k + 1]]
  <2>1. C = Tail(B)
    BY <1>9 DEF AfterItem, L
  <2>2. Len(C) = Len(B) - 1 /\ C \in Seq(Batch) /\ \A k \in 1..Len(C) : C[k] = B[k + 1]
    BY <1>5, <2>1, TailTasks
  <2> HIDE DEF C
  <2>3. g \in [1..(Len(C) + 1) -> Nat] /\ \A k \in 1..Len(B) : g[k] = f[k + 1]
    BY <1>2, <1>5, <2>2, SMTT(20)
  <2> HIDE DEF g
  <2>4. g[1] = n + 1 /\ g[Len(C) + 1] = r
    <3>1. 1 \in 1..Len(B) /\ Len(C) + 1 \in 1..Len(B) /\ 1 + 1 = 2 /\ Len(C) + 1 = Len(B)
      BY <1>2, <1>5, <2>2
    <3> QED  BY <1>7, <1>9, <2>3, <3>1
  <2>5. ASSUME NEW j \in 1..Len(C)
        PROVE  g[j + 1] = g[j] + Len(C[j].items) /\ g[j + 1] <= r /\ InLine(C[j].items, a, g[j])
    <3>1. j \in 1..Len(B) /\ j + 1 \in 1..Len(B)
      BY <1>2, <2>2
    <3>2. g[j] = f[j + 1] /\ g[j + 1] = f[(j + 1) + 1] /\ C[j] = B[j + 1]
      BY <2>2, <2>3, <3>1
    <3> QED  BY <1>4, <3>1, <3>2
  <2>6. LineAt(g, a, n + 1, C, R, w, S, c)
    <3> HIDE DEF r
    <3>1. rest /\ g[Len(C) + 1] = r
      BY <1>3, <2>4
    <3> QED  BY <2>3, <2>4, <2>5, <3>1 DEF LineAt
  <2> QED  BY <1>8, <2>6 DEF Line, C, L
<1>10. CASE Len(L) # 1
  <2> DEFINE g == [k \in 1..(Len(B) + 1) |-> IF k = 1 THEN n + 1 ELSE f[k]]
  <2>1. C = <<[Head(B) EXCEPT !.items = Tail(@)]>> \o Tail(B)
    BY <1>10 DEF AfterItem, L
  <2>2. /\ Len(C) = Len(B) /\ C[1].items = Tail(L)
        /\ \A k \in 1..Len(C) : k # 1 => C[k] = B[k]
    BY <1>5, <1>10, AfterItemKept
  <2>3. Len(Tail(L)) = Len(L) - 1 /\ \A i \in 1..Len(Tail(L)) : Tail(L)[i] = L[i + 1]
    BY <1>5, TailTasks
  <2> HIDE DEF C
  <2>4. /\ g \in [1..(Len(C) + 1) -> Nat] /\ g[1] = n + 1
        /\ \A k \in 1..(Len(B) + 1) : k # 1 => g[k] = f[k]
    BY <1>2, <2>2
  <2> HIDE DEF g
  <2>5. g[Len(C) + 1] = r
    <3>1. Len(C) + 1 \in 1..(Len(B) + 1) /\ Len(C) + 1 # 1 /\ Len(C) + 1 = Len(B) + 1
      BY <1>2, <1>5, <2>2
    <3> QED  BY <2>4, <3>1
  <2>6. ASSUME NEW j \in 1..Len(C)
        PROVE  g[j + 1] = g[j] + Len(C[j].items) /\ g[j + 1] <= r /\ InLine(C[j].items, a, g[j])
    <3>1. j \in 1..Len(B) /\ j \in 1..(Len(B) + 1) /\ j + 1 \in 1..(Len(B) + 1) /\ j + 1 # 1 /\ j \in Nat
      <4>1. Len(C) = Len(B) /\ Len(B) \in Nat
        BY <1>2, <2>2
      <4> HIDE DEF r, o
      <4> QED  BY <4>1
    <3>2. g[j + 1] = f[j + 1]
      BY <2>4, <3>1
    <3>3. CASE j # 1
      BY <1>4, <2>2, <2>4, <3>1, <3>2, <3>3
    <3>4. CASE j = 1
      <4>1. g[j + 1] = f[2] /\ g[j] = n + 1 /\ C[j].items = Tail(L)
        BY <2>2, <2>4, <3>2, <3>4
      <4>2. InLine(Tail(L), a, n + 1)
        <5> SUFFICES ASSUME NEW i \in 1..Len(Tail(L))  PROVE Tail(L)[i] = a[n + 1 + i]
          BY DEF InLine
        <5>1. i + 1 \in 1..Len(L) /\ n + 1 + i = n + (i + 1)
          BY <1>5, <1>6, <2>3
        <5>2. L[i + 1] = a[n + (i + 1)]
          BY <1>7, <5>1 DEF InLine
        <5> QED  BY <2>3, <5>1, <5>2
      <4>3. f[2] = n + 1 + Len(Tail(L))
        <5> DEFINE T == Tail(L)
        <5>1. f[2] = n + Len(L) /\ Len(T) = Len(L) - 1 /\ Len(L) \in Nat
          BY <1>5, <1>7, <2>3
        <5> HIDE DEF r, o, T
        <5>2. f[2] = n + 1 + Len(T)
          BY <5>1
        <5> QED  BY <5>2 DEF T
      <4> QED  BY <1>7, <4>1, <4>2, <4>3
    <3> QED  BY <3>3, <3>4
  <2>7. LineAt(g, a, n + 1, C, R, w, S, c)
    <3> HIDE DEF r
    <3>1. rest /\ g[Len(C) + 1] = r
      BY <1>3, <2>5
    <3> QED  BY <2>2, <2>4, <2>6, <3>1 DEF LineAt
  <2> QED  BY <1>8, <2>7 DEF Line, C, L
<1> QED  BY <1>9, <1>10

\* Without batches and results, the failure that is owed is the first in line.
LEMMA LineOwedTold ==
  ASSUME NEW a \in Seq(Tasks), NEW n \in Nat, NEW w, w # None,
         NEW S \in Seq(Tasks), NEW c, Line(a, n, <<>>, <<>>, w, S, c)
  PROVE  n + 1 <= Len(a) /\ w = a[n + 1] /\ Line(a, n + 1, <<>>, <<>>, None, S, c)
<1>1. PICK f : LineAt(f, a, n, <<>>, <<>>, w, S, c)
  BY DEF Line
<1>2. Len(S) \in Nat /\ Len(a) \in Nat /\ f[1] = n
  BY <1>1 DEF LineAt
<1>3. /\ w = a[n + 1] /\ InLine(S, a, n + 1) /\ (c # None => c = a[n + 1 + Len(S) + 1])
      /\ Len(a) = After(c, n + 1 + Len(S))
  <2>1. f[Len(<<>>) + 1] = n /\ n + Len(<<>>) = n /\ After(w, n) = n + 1
    BY <1>2 DEF After
  <2> QED  BY <1>1, <2>1 DEF LineAt
<1>4. n + 1 <= Len(a)
  BY <1>2, <1>3, AfterNat DEF After
<1> DEFINE g == [k \in 1..1 |-> n + 1]
<1>5. LineAt(g, a, n + 1, <<>>, <<>>, None, S, c)
  BY <1>2, <1>3 DEF LineAt, After, InLine
<1> QED  BY <1>3, <1>4, <1>5 DEF Line

\* With nothing before it, the task that is being handled is the first in line.
LEMMA LineLastTold ==
  ASSUME NEW a \in Seq(Tasks), NEW n \in Nat, NEW c, c # None,
         Line(a, n, <<>>, <<>>, None, <<>>, c)
  PROVE  n + 1 <= Len(a) /\ c = a[n + 1] /\ Line(a, n + 1, <<>>, <<>>, None, <<>>, None)
<1>1. PICK f : LineAt(f, a, n, <<>>, <<>>, None, <<>>, c)
  BY DEF Line
<1>2. Len(a) \in Nat /\ f[1] = n
  BY <1>1 DEF LineAt
<1>3. c = a[n + 1] /\ Len(a) = n + 1
  BY <1>1, <1>2 DEF LineAt, After
<1> DEFINE g == [k \in 1..1 |-> n + 1]
<1>4. LineAt(g, a, n + 1, <<>>, <<>>, None, <<>>, None)
  BY <1>2, <1>3 DEF LineAt, After, InLine
<1> QED  BY <1>3, <1>4 DEF Line

-----------------------------------------------------------------------------
(* The reports: e are those of a pipeline, W says who waits, a what arrived. *)

Owned(e, W) == {i \in 1..Len(e) : W[e[i][1]] = None}
OwnedTo(e, W, i) == {j \in Owned(e, W) : j <= i}
Count(e, W) == Cardinality(Owned(e, W))
Ordered(e, W, a) ==
  \A i \in Owned(e, W) :
    LET n == Cardinality(OwnedTo(e, W, i)) IN n <= Len(a) /\ e[i][1] = a[n]
Distinct(e) == \A i, j \in 1..Len(e) : e[i][1] = e[j][1] => i = j

LEMMA OwnedFinite ==
  ASSUME NEW X, NEW e \in Seq(X), NEW W
  PROVE  /\ IsFiniteSet(Owned(e, W)) /\ Count(e, W) \in Nat
         /\ \A i : Cardinality(OwnedTo(e, W, i)) \in Nat
<1>1. Len(e) \in Nat /\ IsFiniteSet(1..Len(e))
  BY FS_Interval
<1>2. Owned(e, W) \subseteq 1..Len(e) /\ \A i : OwnedTo(e, W, i) \subseteq Owned(e, W)
  BY DEF Owned, OwnedTo
<1>3. IsFiniteSet(Owned(e, W))
  BY <1>1, <1>2, FS_Subset
<1>4. \A i : IsFiniteSet(OwnedTo(e, W, i))
  BY <1>2, <1>3, FS_Subset
<1> QED  BY <1>3, <1>4, FS_CardinalityType DEF Count

\* The order of the reports stays when others arrive.
LEMMA OrderArrived ==
  ASSUME NEW X, NEW e \in Seq(X), NEW W, NEW a \in Seq(Tasks), NEW t \in Tasks, Ordered(e, W, a)
  PROVE  Ordered(e, W, Append(a, t))
<1> DEFINE b == Append(a, t)
<1>1. Len(a) \in Nat /\ Len(b) = Len(a) + 1 /\ \A i \in 1..Len(a) : b[i] = a[i]
  OBVIOUS
<1> HIDE DEF b
<1>2. ASSUME NEW i \in Owned(e, W)
      PROVE  LET n == Cardinality(OwnedTo(e, W, i)) IN n <= Len(b) /\ e[i][1] = b[n]
  <2> DEFINE n == Cardinality(OwnedTo(e, W, i))
  <2>1. n <= Len(a) /\ e[i][1] = a[n] /\ n \in Nat
    BY OwnedFinite DEF Ordered
  <2>2. n # 0
    <3>1. i \in OwnedTo(e, W, i) /\ IsFiniteSet(OwnedTo(e, W, i))
      <4>1. i \in Nat /\ OwnedTo(e, W, i) \subseteq Owned(e, W) /\ IsFiniteSet(Owned(e, W))
        BY OwnedFinite DEF Owned, OwnedTo
      <4> QED  BY <4>1, FS_Subset DEF OwnedTo
    <3> QED  BY <3>1, FS_EmptySet
  <2> HIDE DEF n
  <2>3. n \in 1..Len(a)
    BY <1>1, <2>1, <2>2
  <2>4. n <= Len(b) /\ e[i][1] = b[n]
    BY <1>1, <2>1, <2>3
  <2> QED  BY <2>4 DEF n
<1> QED  BY <1>2 DEF Ordered, b

\* A report x is added: it counts when the task is owned, and is then next.
LEMMA OrderAppended ==
  ASSUME NEW X, NEW e \in Seq(X), NEW W, NEW a \in Seq(Tasks), NEW x \in X, Ordered(e, W, a),
         W[x[1]] = None => Count(e, W) + 1 <= Len(a) /\ x[1] = a[Count(e, W) + 1]
  PROVE  LET d == Append(e, x)
         IN  /\ Ordered(d, W, a) /\ d \in Seq(X)
             /\ W[x[1]] = None => Count(d, W) = Count(e, W) + 1
             /\ W[x[1]] # None => Count(d, W) = Count(e, W)
<1> DEFINE d == Append(e, x)
           m == Len(e) + 1
<1>1. /\ Len(e) \in Nat /\ d \in Seq(X) /\ Len(d) = m /\ d[m] = x /\ m \in Nat
      /\ m \notin 1..Len(e) /\ \A i \in 1..Len(e) : d[i] = e[i]
  OBVIOUS
<1>2. 1..m = 1..Len(e) \union {m}
  BY <1>1
<1> HIDE DEF d
<1>3. Owned(d, W) = IF W[x[1]] = None THEN Owned(e, W) \union {m} ELSE Owned(e, W)
  <2>1. \A i \in 1..Len(e) : i \in Owned(d, W) <=> i \in Owned(e, W)
    BY <1>1, <1>2 DEF Owned
  <2>2. m \in Owned(d, W) <=> W[x[1]] = None
    BY <1>1, <1>2 DEF Owned
  <2>3. Owned(d, W) \subseteq 1..Len(e) \union {m} /\ Owned(e, W) \subseteq 1..Len(e)
    BY <1>1, <1>2 DEF Owned
  <2>4. CASE W[x[1]] = None
    BY <1>1, <2>1, <2>2, <2>3, <2>4
  <2>5. CASE W[x[1]] # None
    <3>1. \A j : j \in Owned(d, W) <=> j \in Owned(e, W)
      BY <2>1, <2>2, <2>3, <2>5
    <3> QED  BY <2>5, <3>1
  <2> QED  BY <2>4, <2>5
<1>4. m \notin Owned(e, W) /\ IsFiniteSet(Owned(e, W))
  BY <1>1, OwnedFinite DEF Owned
<1>5. /\ W[x[1]] = None => Count(d, W) = Count(e, W) + 1
      /\ W[x[1]] # None => Count(d, W) = Count(e, W)
  BY <1>3, <1>4, FS_AddElement DEF Count
<1>6. ASSUME NEW i \in Owned(d, W)
      PROVE  LET n == Cardinality(OwnedTo(d, W, i)) IN n <= Len(a) /\ d[i][1] = a[n]
  <2>1. CASE i \in Owned(e, W)
    <3>1. i \in 1..Len(e) /\ ~(m <= i)
      BY <1>1, <2>1 DEF Owned
    <3>2. OwnedTo(d, W, i) = OwnedTo(e, W, i)
      BY <1>3, <3>1 DEF OwnedTo
    <3> QED  BY <1>1, <2>1, <3>1, <3>2 DEF Ordered
  <2>2. CASE i \notin Owned(e, W)
    <3>1. i = m /\ W[x[1]] = None
      BY <1>3, <2>2
    <3>2. OwnedTo(d, W, i) = Owned(d, W)
      <4>1. \A j \in Owned(d, W) : j <= m
        BY <1>1 DEF Owned
      <4> QED  BY <3>1, <4>1 DEF OwnedTo
    <3>3. Cardinality(OwnedTo(d, W, i)) = Count(e, W) + 1
      BY <1>5, <3>1, <3>2 DEF Count
    <3> QED  BY <1>1, <3>1, <3>3
  <2> QED  BY <2>1, <2>2
<1> QED  BY <1>1, <1>5, <1>6 DEF Ordered, d

LEMMA OrderFramed ==
  ASSUME NEW X, NEW e \in Seq(X), NEW V, NEW W, NEW a,
         \A i \in 1..Len(e) : V[e[i][1]] = W[e[i][1]]
  PROVE  Owned(e, V) = Owned(e, W) /\ Count(e, V) = Count(e, W) /\ (Ordered(e, V, a) <=> Ordered(e, W, a))
<1>1. Owned(e, V) = Owned(e, W)
  BY DEF Owned
<1>2. \A i : OwnedTo(e, V, i) = OwnedTo(e, W, i)
  BY <1>1 DEF OwnedTo
<1> QED  BY <1>1, <1>2 DEF Count, Ordered

LEMMA DistinctAppended ==
  ASSUME NEW X, NEW e \in Seq(X), NEW x \in X, Distinct(e), \A i \in 1..Len(e) : e[i][1] # x[1]
  PROVE  Distinct(Append(e, x))
<1> DEFINE d == Append(e, x)
           m == Len(e) + 1
<1>1. /\ Len(e) \in Nat /\ d \in Seq(X) /\ Len(d) = m /\ d[m] = x
      /\ \A i \in 1..Len(e) : d[i] = e[i]
      /\ \A i \in 1..m : i # m => i \in 1..Len(e)
  OBVIOUS
<1> HIDE DEF d
<1>2. \A i, j \in 1..m : d[i][1] = d[j][1] => i = j
  BY <1>1 DEF Distinct
<1> QED  BY <1>1, <1>2 DEF Distinct, d

-----------------------------------------------------------------------------
(* The inductive invariant of the reports.                                 *)

\* Nothing has gone wrong with the progress of p: what has arrived is still in line.
Clean(p) == emitting[p] /\ mapGoal[p] # "rest"

ToldOK(p) ==
  /\ Distinct(emitted[p])
  /\ Ordered(emitted[p], waitsOn, arrived[p])

\* Only a result that is being handled is current, progress stops for good when
\* the pipeline aborts, and only a batch that is not empty is finished without it.
HandlingOK(p) ==
  /\ current[p] # None <=> pc[p] \in {"success", "failure", "failed"}
  /\ pc[p] \in {"abort", "aborting"} => ~emitting[p]
  /\ ~emitting[p] => pc[p] \in {"abort", "aborting", "raised"}
  /\ mapGoal[p] = "rest" => batches[p] # <<>>

\* The waiters before the cursor have been told.
WaitersOK(p) ==
  \A t \in TasksOf(p) :
    waitsOn[t] # None /\ (pc[p] = "done" \/ (pc[p] = "waiters" /\ t[2] < cursor[p])) =>
      t \in EmittedTasks(p)

\* A task that was claimed has a place in the pipeline or has been reported.
CoverOK(p) ==
  pc[p] # "raised" => \A t \in TasksOf(p) :
    waitsOn[t] = None /\ (pc[p] = "claim" => t[2] < cursor[p]) => Holds(p, t) \/ t \in EmittedTasks(p)

\* The places of the pipeline are the line of what arrived and is not reported; a
\* failure that is owed, or that is being released, is the first in line once the
\* batches are finished.
LineOK(p) ==
  /\ Line(arrived[p], Count(emitted[p], waitsOn), batches[p], results[p], owed[p],
          storeQueue[p], current[p])
  /\ owed[p] # None => mapGoal[p] = "all" /\ results[p] = <<>>
  /\ pc[p] = "failed" =>
       /\ storeQueue[p] = <<>> /\ results[p] = <<>>
       /\ batches[p] = <<>> \/ mapGoal[p] = "all"

ReportsOK(p) ==
  ToldOK(p) /\ HandlingOK(p) /\ WaitersOK(p) /\ (Clean(p) => CoverOK(p) /\ LineOK(p))

RInv ==
  /\ IInv /\ arrived \in [Pipelines -> Seq(Tasks)]
  /\ \A p \in Pipelines : ReportsOK(p)

LEMMA SameTold ==
  ASSUME RInv, NEW p \in Pipelines, emitted'[p] = emitted[p],
         \A i \in 1..Len(emitted[p]) : waitsOn'[emitted[p][i][1]] = waitsOn[emitted[p][i][1]],
         arrived'[p] = arrived[p] \/ \E t \in Tasks : arrived'[p] = Append(arrived[p], t)
  PROVE  /\ ToldOK(p)' /\ Count(emitted[p], waitsOn)' = Count(emitted[p], waitsOn)
         /\ EmittedTasks(p)' = EmittedTasks(p)
<1>1. emitted[p] \in Seq(Tasks \X {"ok", "failed"}) /\ arrived[p] \in Seq(Tasks) /\ ToldOK(p)
  BY Types DEF RInv, IInv, ReportsOK
<1>2. \A b : /\ Count(emitted[p], waitsOn') = Count(emitted[p], waitsOn)
             /\ Ordered(emitted[p], waitsOn, b) <=> Ordered(emitted[p], waitsOn', b)
  BY <1>1, OrderFramed
<1>3. Ordered(emitted[p], waitsOn, arrived'[p])
  BY <1>1, OrderArrived DEF ToldOK
<1>4. Ordered(emitted'[p], waitsOn', arrived'[p]) /\ Count(emitted'[p], waitsOn') = Count(emitted[p], waitsOn)
  BY <1>2, <1>3
<1> QED  BY <1>1, <1>4 DEF ToldOK, EmittedTasks

\* One report is added.
LEMMA OneTold ==
  ASSUME RInv, NEW p \in Pipelines, NEW t \in Tasks, NEW o \in {"ok", "failed"}, Emit(p, t, o),
         UNCHANGED waitsOn, arrived'[p] = arrived[p],
         t \notin EmittedTasks(p),
         waitsOn[t] = None => LET n == Count(emitted[p], waitsOn)
                              IN  n + 1 <= Len(arrived[p]) /\ t = arrived[p][n + 1]
  PROVE  /\ ToldOK(p)' /\ EmittedTasks(p)' = EmittedTasks(p) \union {t}
         /\ waitsOn[t] = None => Count(emitted[p], waitsOn)' = Count(emitted[p], waitsOn) + 1
         /\ waitsOn[t] # None => Count(emitted[p], waitsOn)' = Count(emitted[p], waitsOn)
<1> DEFINE e == emitted[p]
           x == <<t, o>>
           X == Tasks \X {"ok", "failed"}
<1>1. e \in Seq(X) /\ arrived[p] \in Seq(Tasks) /\ ToldOK(p)
  BY Types DEF RInv, IInv, ReportsOK
<1>2. emitted'[p] = Append(e, x) /\ x \in X /\ x[1] = t
  BY DEF RInv, IInv, TypeOK, Emit, Put
<1>3. \A i \in 1..Len(e) : e[i][1] # x[1]
  BY <1>2 DEF EmittedTasks
<1> HIDE DEF x, X
<1>4. Distinct(Append(e, x))
  BY <1>1, <1>2, <1>3, DistinctAppended DEF ToldOK
<1>5. /\ Ordered(Append(e, x), waitsOn, arrived[p])
      /\ waitsOn[t] = None => Count(Append(e, x), waitsOn) = Count(e, waitsOn) + 1
      /\ waitsOn[t] # None => Count(Append(e, x), waitsOn) = Count(e, waitsOn)
  <2>1. Ordered(e, waitsOn, arrived[p])
    BY <1>1 DEF ToldOK
  <2> HIDE DEF e
  <2> QED  BY <1>1, <1>2, <2>1, OrderAppended DEF e
<1>6. EmittedTasks(p)' = EmittedTasks(p) \union {t}
  <2> DEFINE d == Append(e, x)
  <2>1. /\ Len(d) = Len(e) + 1 /\ Len(e) \in Nat /\ d[Len(e) + 1] = x
        /\ \A i \in 1..Len(e) : d[i] = e[i]
    BY <1>1, <1>2
  <2>2. emitted'[p] = d
    BY <1>2
  <2> HIDE DEF d
  <2>3. \A i : i \in 1..Len(d) <=> i \in 1..Len(e) \/ i = Len(e) + 1
    BY <2>1
  <2>4. \A u : (\E i \in 1..Len(d) : d[i][1] = u) <=> (\E i \in 1..Len(e) : e[i][1] = u) \/ u = t
    BY <1>2, <2>1, <2>3
  <2>5. /\ \A u : u \in EmittedTasks(p)' <=> \E i \in 1..Len(d) : d[i][1] = u
        /\ \A u : u \in EmittedTasks(p) <=> \E i \in 1..Len(e) : e[i][1] = u
    BY <2>2 DEF EmittedTasks
  <2>6. \A u : u \in EmittedTasks(p)' <=> u \in EmittedTasks(p) \/ u = t
    BY <2>4, <2>5
  <2> QED  BY <2>6
<1> QED  BY <1>2, <1>4, <1>5, <1>6 DEF ToldOK

\* What a step of another pipeline, or of the workers, leaves to pipeline q.
Aside(q) ==
  /\ pc'[q] = pc[q] /\ cursor'[q] = cursor[q] /\ current'[q] = current[q]
  /\ pending'[q] = pending[q] /\ storeQueue'[q] = storeQueue[q]
  /\ results'[q] = results[q] /\ batches'[q] = batches[q]
  /\ mapGoal'[q] = mapGoal[q] /\ owed'[q] = owed[q] /\ emitting'[q] = emitting[q]
  /\ emitted'[q] = emitted[q]
  /\ \A t \in Tasks : t[1] = q => waitsOn'[t] = waitsOn[t]

LEMMA OwnTasks ==
  ASSUME RInv, NEW p \in Pipelines
  PROVE  /\ \A i \in 1..Len(emitted[p]) : emitted[p][i][1] \in Tasks /\ emitted[p][i][1][1] = p
         /\ EmittedTasks(p) \subseteq TasksOf(p)
<1>1. TypeOK /\ EmittedOK(p)
  BY DEF RInv, IInv, Local
<1>2. \A i \in 1..Len(emitted[p]) : emitted[p][i][1] \in Tasks /\ emitted[p][i][1][1] = p
  BY <1>1, ItemTypes DEF EmittedOK
<1> QED  BY <1>2 DEF EmittedTasks, TasksOf

LEMMA ReportsAside ==
  ASSUME RInv, NEW q \in Pipelines, Aside(q), arrived'[q] = arrived[q]
  PROVE  ReportsOK(q)'
<1>1. ReportsOK(q)
  BY DEF RInv
<1>2. \A t \in TasksOf(q) : waitsOn'[t] = waitsOn[t]
  BY DEF Aside, TasksOf
<1>3. /\ ToldOK(q)' /\ Count(emitted[q], waitsOn)' = Count(emitted[q], waitsOn)
      /\ EmittedTasks(q)' = EmittedTasks(q)
  BY OwnTasks, SameTold DEF Aside
<1>4. HandlingOK(q)'
  BY <1>1 DEF ReportsOK, HandlingOK, Aside
<1>5. WaitersOK(q)'
  BY <1>1, <1>2, <1>3 DEF ReportsOK, WaitersOK, Aside, TasksOf
<1>6. ASSUME Clean(q)'
      PROVE  CoverOK(q)' /\ LineOK(q)'
  <2>1. Clean(q) /\ CoverOK(q) /\ LineOK(q)
    BY <1>1, <1>6 DEF ReportsOK, Clean, Aside
  <2>2. \A t : Holds(q, t)' <=> Holds(q, t)
    BY DEF Holds, Aside
  <2>3. CoverOK(q)'
    BY <1>2, <1>3, <2>1, <2>2 DEF CoverOK, Aside, TasksOf
  <2>4. LineOK(q)'
    BY <1>3, <2>1 DEF LineOK, Aside
  <2> QED  BY <2>3, <2>4
<1> QED  BY <1>3, <1>4, <1>5, <1>6 DEF ReportsOK

\* A step of p that moves no task and tells nothing.
LEMMA QuietReports ==
  ASSUME RInv, NEW p \in Pipelines,
         UNCHANGED <<waitsOn, current, pending, storeQueue, results, batches, owed, emitting, emitted>>,
         arrived'[p] = arrived[p], mapGoal'[p] = "rest" => mapGoal[p] = "rest",
         mapGoal[p] = "all" => mapGoal'[p] = "all" \/ (owed[p] = None /\ pc[p] # "failed"),
         \/ pc'[p] = pc[p]
         \/ /\ pc[p] \notin {"success", "failure", "failed", "abort", "aborting", "raised"}
            /\ pc'[p] \notin {"success", "failure", "failed", "abort", "aborting", "claim", "done"},
         pc'[p] = pc[p] => cursor'[p] = cursor[p],
         pc[p] = "claim" /\ pc'[p] # "claim" => cursor[p] > NTasks[p],
         pc'[p] = "waiters" /\ pc[p] # "waiters" => cursor'[p] = 1,
         mapGoal[p] = "rest" => mapGoal'[p] = "rest"
  PROVE  ReportsOK(p)'
<1>1. ReportsOK(p) /\ cursor[p] \in Nat /\ NTasks[p] \in Nat
  BY TasksAssumption, Types DEF RInv, IInv
<1>2. /\ ToldOK(p)' /\ Count(emitted[p], waitsOn)' = Count(emitted[p], waitsOn)
      /\ EmittedTasks(p)' = EmittedTasks(p)
  BY SameTold
<1>3. HandlingOK(p)'
  BY <1>1 DEF ReportsOK, HandlingOK
<1>4. \A t \in TasksOf(p) : t[2] \in 1..NTasks[p]
  BY TasksKnown DEF TasksOf
<1>5. WaitersOK(p)'
  <2> SUFFICES ASSUME NEW t \in TasksOf(p), waitsOn[t] # None,
                      pc'[p] = "done" \/ (pc'[p] = "waiters" /\ t[2] < cursor'[p])
               PROVE  t \in EmittedTasks(p)
    BY <1>2 DEF WaitersOK, TasksOf
  <2>1. pc'[p] = pc[p]
    BY <1>1, <1>4
  <2> QED  BY <1>1, <2>1 DEF ReportsOK, WaitersOK
<1>6. ASSUME Clean(p)'
      PROVE  CoverOK(p)' /\ LineOK(p)'
  <2>1. CoverOK(p) /\ LineOK(p)
    BY <1>1, <1>6 DEF ReportsOK, Clean
  <2>2. \A t : Holds(p, t)' <=> Holds(p, t)
    BY DEF Holds
  <2>3. CoverOK(p)'
    <3> SUFFICES ASSUME NEW t \in TasksOf(p), waitsOn[t] = None, pc'[p] # "raised",
                        pc'[p] = "claim" => t[2] < cursor'[p]
                 PROVE  Holds(p, t) \/ t \in EmittedTasks(p)
      BY <1>2, <2>2 DEF CoverOK, TasksOf
    <3>1. pc[p] = "claim" => t[2] < cursor[p]
      BY <1>1, <1>4
    <3> QED  BY <2>1, <3>1 DEF CoverOK
  <2>4. LineOK(p)'
    BY <1>2, <2>1 DEF LineOK
  <2> QED  BY <2>3, <2>4
<1> QED  BY <1>2, <1>3, <1>5, <1>6 DEF ReportsOK

\* An abort ends what was clean.
LEMMA AbortedReports ==
  ASSUME RInv, NEW p \in Pipelines, Abort(p), ToldOK(p)'
  PROVE  ReportsOK(p)'
<1>1. pc'[p] = "abort" /\ current'[p] = None /\ emitting'[p] = FALSE /\ mapGoal'[p] = "none"
  BY DEF RInv, IInv, TypeOK, Abort, Goto, Goal, Put
<1>2. HandlingOK(p)' /\ WaitersOK(p)' /\ ~Clean(p)'
  BY <1>1 DEF HandlingOK, WaitersOK, Clean
<1> QED  BY <1>2 DEF ReportsOK

-----------------------------------------------------------------------------
(* A step of one pipeline leaves the others alone.                         *)

\* What an abort or the end of the pipeline does to the control of the others.
ControlAside(q) ==
  /\ pc'[q] = pc[q] /\ mapGoal'[q] = mapGoal[q] /\ owed'[q] = owed[q]
  /\ emitting'[q] = emitting[q] /\ current'[q] = current[q]

LEMMA AbortAside ==
  ASSUME TypeOK, NEW p \in Pipelines, NEW q \in Pipelines \ {p}, Abort(p) \/ GiveUp(p)
  PROVE  ControlAside(q)
BY DEF TypeOK, Abort, GiveUp, Goto, Goal, Put, ControlAside

LEMMA SubmitAside ==
  ASSUME TypeOK, NEW p \in Pipelines, NEW q \in Pipelines \ {p}, NEW R, NEW flush,
         SubmitResults(p, R, flush)
  PROVE  results'[q] = results[q] /\ batches'[q] = batches[q] /\ mapGoal'[q] = mapGoal[q]
BY DEF TypeOK, SubmitResults, Put

LEMMA EmitAside ==
  ASSUME TypeOK, NEW p \in Pipelines, NEW q \in Pipelines \ {p}, NEW t, NEW o, Emit(p, t, o)
  PROVE  emitted'[q] = emitted[q]
BY DEF TypeOK, Emit, Put

LEMMA OthersAside ==
  ASSUME TypeOK, NEW p \in Pipelines, NEW q \in Pipelines \ {p}, PipelineNext(p)
  PROVE  Aside(q)
<1>0. \A t \in Tasks : t[1] = q => t # <<p, cursor[p]>>
  OBVIOUS
<1>1. CASE Claim(p)
  <2>1. /\ UNCHANGED <<pc, current, storeQueue, results, batches, mapGoal, owed, emitting, emitted>>
        /\ cursor' = Put(cursor, p, cursor[p] + 1)
        /\ pending' = pending \/ pending' = Put(pending, p, pending[p] \union {<<p, cursor[p]>>})
        /\ waitsOn' = waitsOn \/ \E v : waitsOn' = Put(waitsOn, <<p, cursor[p]>>, v)
    BY <1>1 DEF Claim, storeVars, mapVars, goalVars
  <2>2. cursor'[q] = cursor[q] /\ pending'[q] = pending[q]
    BY <2>1 DEF TypeOK, Put
  <2>3. \A t \in Tasks : t[1] = q => waitsOn'[t] = waitsOn[t]
    BY <1>0, <2>1 DEF TypeOK, Put
  <2> QED  BY <2>1, <2>2, <2>3 DEF Aside
<1>2. CASE Start(p) \/ EndDownloads(p) \/ (\E ok \in BOOLEAN : Arrive(p, ok)) \/ BeginWaiters(p) \/ LeaveDrain(p)
  <2>1. /\ UNCHANGED <<waitsOn, pending, storeQueue, results, batches, emitted>>
        /\ cursor' = cursor \/ cursor' = Put(cursor, p, 1)
    BY <1>2 DEF Start, EndDownloads, Arrive, BeginWaiters, LeaveDrain, taskVars, storeVars, mapVars, controlVars
  <2>2. ControlAside(q)
    <3>1. CASE Start(p)
      BY <3>1 DEF TypeOK, Start, Goto, Put, ControlAside, goalVars, taskVars
    <3>2. CASE EndDownloads(p)
      <4>1. CASE Abort(p)
        BY <4>1, AbortAside
      <4>2. CASE ~Abort(p)
        BY <3>2, <4>2 DEF TypeOK, EndDownloads, Goto, Goal, Put, ControlAside
      <4> QED  BY <4>1, <4>2
    <3>3. ASSUME NEW ok \in BOOLEAN, Arrive(p, ok)  PROVE ControlAside(q)
      <4>1. /\ UNCHANGED <<owed, emitting>> /\ (\E v : current' = Put(current, p, v))
            /\ (\E v : pc' = Put(pc, p, v)) /\ (\E v : mapGoal' = Put(mapGoal, p, v))
        BY <3>3 DEF Arrive, Goto, Goal
      <4> QED  BY <4>1 DEF TypeOK, Put, ControlAside
    <3>4. CASE BeginWaiters(p)
      BY <3>4 DEF TypeOK, BeginWaiters, Goto, Goal, Put, ControlAside, taskVars
    <3>5. CASE LeaveDrain(p)
      <4>1. /\ UNCHANGED <<pc, owed, emitting, current>>
            /\ mapGoal' = mapGoal \/ (\E v : mapGoal' = Put(mapGoal, p, v))
        BY <3>5 DEF LeaveDrain, taskVars, controlVars
      <4> QED  BY <4>1 DEF TypeOK, Put, ControlAside
    <3> QED  BY <1>2, <3>1, <3>2, <3>3, <3>4, <3>5
  <2>3. cursor'[q] = cursor[q]
    BY <2>1 DEF TypeOK, Put
  <2> QED  BY <2>1, <2>2, <2>3 DEF Aside, ControlAside
<1>3. CASE SubmitStore(p)
  BY <1>3 DEF TypeOK, SubmitStore, Goto, Goal, Put, Aside, mapVars
<1>4. CASE Flush(p)
  <2>1. /\ UNCHANGED <<waitsOn, pending, current, storeQueue, owed, emitting, cursor, emitted>>
        /\ SubmitResults(p, results[p], TRUE) /\ (\E v : pc' = Put(pc, p, v))
    BY <1>4 DEF Flush, Goto, taskVars, storeVars
  <2>2. results'[q] = results[q] /\ batches'[q] = batches[q] /\ mapGoal'[q] = mapGoal[q]
    BY <2>1, SubmitAside
  <2>3. pc'[q] = pc[q]
    BY <2>1 DEF TypeOK, Put
  <2> QED  BY <2>1, <2>2, <2>3 DEF Aside
<1>5. CASE ReleaseFailed(p)
  <2>1. /\ UNCHANGED <<waitsOn, storeQueue, results, batches, cursor>>
        /\ Emit(p, current[p], "failed") /\ pending' = Put(pending, p, pending[p] \ {current[p]})
        /\ \/ /\ Goto(p, "download") /\ Goal(p, "none", "none")
              /\ current' = Put(current, p, None) /\ UNCHANGED <<owed, emitting>>
           \/ Abort(p)
    BY <1>5 DEF ReleaseFailed, storeVars, mapVars
  <2>2. ControlAside(q)
    <3>1. CASE Abort(p)
      BY <3>1, AbortAside
    <3>2. CASE ~Abort(p)
      BY <2>1, <3>2 DEF TypeOK, Goto, Goal, Put, ControlAside
    <3> QED  BY <3>1, <3>2
  <2>3. pending'[q] = pending[q] /\ emitted'[q] = emitted[q]
    BY <2>1, EmitAside DEF TypeOK, Put
  <2> QED  BY <2>1, <2>2, <2>3 DEF Aside, ControlAside
<1>6. CASE ReleaseRest(p)
  <2>1. /\ UNCHANGED <<waitsOn, current, storeQueue, results, batches, mapGoal, owed, emitting, cursor, emitted>>
        /\ pending' = pending \/ (\E v : pending' = Put(pending, p, v))
        /\ pc' = pc \/ (\E v : pc' = Put(pc, p, v))
    BY <1>6 DEF ReleaseRest, Goto, storeVars, mapVars, goalVars
  <2> QED  BY <2>1 DEF TypeOK, Put, Aside
<1>7. CASE FinishWaiter(p)
  <2>1. /\ UNCHANGED <<waitsOn, current, pending, storeQueue, results, batches, mapGoal, owed, emitting>>
        /\ emitted' = emitted \/ (\E v : emitted' = Put(emitted, p, v))
        /\ pc' = pc \/ (\E v : pc' = Put(pc, p, v))
        /\ cursor' = cursor \/ (\E v : cursor' = Put(cursor, p, v))
    BY <1>7 DEF FinishWaiter, Goto, Emit, taskVars, storeVars, mapVars, goalVars
  <2> QED  BY <2>1 DEF TypeOK, Put, Aside
<1>8. CASE FinishMapping(p) \/ FinishOwed(p)
  <2>1. /\ UNCHANGED <<waitsOn, cursor, pending, storeQueue, results>>
        /\ batches' = batches \/ (\E v : batches' = Put(batches, p, v))
        /\ emitted' = emitted \/ (\E v : emitted' = Put(emitted, p, v))
        /\ \/ Abort(p) \/ GiveUp(p)
           \/ /\ UNCHANGED <<pc, emitting, current>>
              /\ owed' = owed \/ (\E v : owed' = Put(owed, p, v))
              /\ \E v : mapGoal' = Put(mapGoal, p, v)
    BY <1>8 DEF FinishMapping, FinishOwed, Emit, storeVars, mapVars
  <2>2. ControlAside(q)
    <3>1. CASE Abort(p) \/ GiveUp(p)
      BY <3>1, AbortAside
    <3>2. CASE ~Abort(p) /\ ~GiveUp(p)
      BY <2>1, <3>2 DEF TypeOK, Put, ControlAside
    <3> QED  BY <3>1, <3>2
  <2>3. batches'[q] = batches[q] /\ emitted'[q] = emitted[q]
    BY <2>1 DEF TypeOK, Put
  <2> QED  BY <2>1, <2>2, <2>3 DEF Aside, ControlAside
<1>9. CASE FinishStore(p)
  <2>1. /\ UNCHANGED <<waitsOn, pending, current, emitting, pc, cursor, emitted>>
        /\ \E v : storeQueue' = Put(storeQueue, p, v)
        /\ owed' = owed \/ (\E v : owed' = Put(owed, p, v))
        /\ \/ \E R, flush : SubmitResults(p, R, flush)
           \/ /\ results' = results \/ (\E v : results' = Put(results, p, v))
              /\ UNCHANGED batches /\ (\E v : mapGoal' = Put(mapGoal, p, v))
    BY <1>9 DEF FinishStore, taskVars, mapVars, controlVars
  <2>2. results'[q] = results[q] /\ batches'[q] = batches[q] /\ mapGoal'[q] = mapGoal[q]
    <3>1. CASE \E R, flush : SubmitResults(p, R, flush)
      BY <3>1, SubmitAside
    <3>2. CASE ~\E R, flush : SubmitResults(p, R, flush)
      BY <2>1, <3>2 DEF TypeOK, Put
    <3> QED  BY <3>1, <3>2
  <2>3. storeQueue'[q] = storeQueue[q] /\ owed'[q] = owed[q]
    BY <2>1 DEF TypeOK, Put
  <2> QED  BY <2>1, <2>2, <2>3 DEF Aside
<1> QED  BY <1>1, <1>2, <1>3, <1>4, <1>5, <1>6, <1>7, <1>8, <1>9 DEF PipelineNext

-----------------------------------------------------------------------------
(* One step of each action keeps the reports of its pipeline in order.     *)

\* How the history variable follows the pipeline.
Follows(p) ==
  arrived'[p] = IF current[p] = None /\ current'[p] # None
                THEN Append(arrived[p], current'[p]) ELSE arrived[p]

\* What a pipeline holds has not been told, and it does not wait for it.
LEMMA HeldUntold ==
  ASSUME RInv, NEW p \in Pipelines, NEW t \in Tasks, Holds(p, t)
  PROVE  t[1] = p /\ t \in TasksOf(p) /\ waitsOn[t] = None /\ t \notin EmittedTasks(p)
<1>1. TypeOK /\ HeldOK(p) /\ EmittedOK(p) /\ WaitsOK
  BY DEF RInv, IInv, Local
<1>2. t[1] = p /\ claim[t] = "open"
  BY <1>1 DEF HeldOK
<1>3. waitsOn[t] = None
  BY <1>1, <1>2 DEF WaitsOK
<1>4. \A i \in 1..Len(emitted[p]) : emitted[p][i][1] # t
  <2> TAKE i \in 1..Len(emitted[p])
  <2>1. emitted[p][i][2] \in {"ok", "failed"}
    BY <1>1, ItemTypes
  <2> QED  BY <1>1, <1>2, <1>3, <2>1 DEF EmittedOK
<1> QED  BY <1>2, <1>3, <1>4 DEF EmittedTasks, TasksOf

LEMMA PipelineKnown ==
  ASSUME RInv, NEW p \in Pipelines
  PROVE  /\ TypeOK /\ Local(p) /\ WaitsOK /\ ReportsOK(p) /\ arrived[p] \in Seq(Tasks)
         /\ emitted[p] \in Seq(Tasks \X {"ok", "failed"}) /\ Count(emitted[p], waitsOn) \in Nat
         /\ batches[p] \in Seq(Batch) /\ results[p] \in Seq(Tasks) /\ storeQueue[p] \in Seq(Tasks)
         /\ owed[p] \in Tasks \union {None} /\ current[p] \in Tasks \union {None}
         /\ cursor[p] \in Nat /\ NTasks[p] \in Nat
<1>1. TypeOK /\ Local(p) /\ WaitsOK /\ ReportsOK(p) /\ arrived[p] \in Seq(Tasks)
  BY DEF RInv, IInv
<1> QED  BY <1>1, Types, OwnedFinite, TasksAssumption

LEMMA QuietSteps ==
  ASSUME RInv, NEW p \in Pipelines, Start(p) \/ EndDownloads(p) \/ BeginWaiters(p) \/ LeaveDrain(p),
         Follows(p)
  PROVE  ReportsOK(p)'
<1>1. TypeOK /\ Local(p) /\ WaitsOK /\ ReportsOK(p)
  BY PipelineKnown
<1>2. CASE EndDownloads(p) /\ Abort(p)
  <2>1. current'[p] = None /\ UNCHANGED <<emitted, waitsOn>>
    BY <1>1, <1>2, Aborted DEF EndDownloads, TypeOK, Abort, Put
  <2>2. arrived'[p] = arrived[p]
    BY <2>1 DEF Follows
  <2> QED  BY <1>2, <2>1, <2>2, SameTold, AbortedReports
<1>3. CASE Start(p)
  <2>1. /\ UNCHANGED <<waitsOn, current, pending, storeQueue, results, batches, owed, emitting, emitted, mapGoal, cursor>>
        /\ pc[p] = "claim" /\ cursor[p] > NTasks[p] /\ pc'[p] \in {"download", "raised"}
    BY <1>1, <1>3 DEF Start, TypeOK, Goto, Put, taskVars, storeVars, mapVars, goalVars
  <2>2. owed[p] = None
    BY <1>1, <2>1 DEF Local, FlowOK, Drained
  <2> QED  BY <2>1, <2>2, QuietReports DEF Follows
<1>4. CASE EndDownloads(p) /\ ~Abort(p)
  <2>1. /\ UNCHANGED <<waitsOn, current, pending, storeQueue, results, batches, owed, emitting, emitted, cursor>>
        /\ pc[p] = "download" /\ pc'[p] = "tail" /\ mapGoal'[p] = "none" /\ Settled(p)
    BY <1>1, <1>4 DEF EndDownloads, TypeOK, Goto, Goal, Put, storeVars, mapVars
  <2> QED  BY <2>1, QuietReports DEF Follows, Settled, MapsIdle, HandlingOK
<1>5. CASE BeginWaiters(p)
  <2>1. /\ UNCHANGED <<waitsOn, current, pending, storeQueue, results, batches, owed, emitting, emitted>>
        /\ pc[p] = "flushed" /\ pc'[p] = "waiters" /\ mapGoal'[p] = "none" /\ cursor'[p] = 1 /\ Settled(p)
    BY <1>1, <1>5 DEF BeginWaiters, TypeOK, Goto, Goal, Put, taskVars, storeVars, mapVars
  <2> QED  BY <2>1, QuietReports DEF Follows, Settled, MapsIdle
<1>6. CASE LeaveDrain(p)
  <2>1. /\ UNCHANGED <<waitsOn, current, pending, storeQueue, results, batches, owed, emitting, emitted, pc, cursor>>
        /\ mapGoal'[p] = mapGoal[p] \/ (mapGoal[p] \in {"ready", "ready_then_all"} /\ mapGoal'[p] \in {"none", "all"})
    BY <1>1, <1>6 DEF LeaveDrain, TypeOK, Put, taskVars, storeVars, mapVars, controlVars
  <2> QED  BY <2>1, QuietReports DEF Follows
<1> QED  BY <1>2, <1>3, <1>4, <1>5, <1>6

LEMMA ClaimReports ==
  ASSUME RInv, NEW p \in Pipelines, Claim(p), Follows(p)
  PROVE  ReportsOK(p)'
<1> DEFINE t == <<p, cursor[p]>>
<1>1. TypeOK /\ Local(p) /\ ReportsOK(p) /\ cursor[p] \in Nat
  BY PipelineKnown
<1>2. /\ pc[p] = "claim" /\ cursor[p] <= NTasks[p]
      /\ UNCHANGED <<pc, current, storeQueue, results, batches, mapGoal, owed, emitting, emitted>>
      /\ cursor' = Put(cursor, p, cursor[p] + 1)
      /\ \/ \E v : v # None /\ waitsOn' = Put(waitsOn, t, v) /\ UNCHANGED pending
         \/ UNCHANGED waitsOn /\ pending' = Put(pending, p, pending[p] \union {t})
  <2>1. t \in Tasks
    <3>1. cursor[p] # 0
      BY <1>1 DEF Local, FlowOK
    <3>2. cursor[p] \in 1..NTasks[p]
      BY <1>1, <3>1, TasksAssumption DEF Claim
    <3> QED  BY <3>2, TasksKnown
  <2>2. t # None
    BY <2>1, PipelineAssumption
  <2> QED  BY <2>2 DEF Claim, OpenClaim, storeVars, mapVars, goalVars
<1>3. emitted[p] = <<>> /\ arrived'[p] = arrived[p] /\ cursor'[p] = cursor[p] + 1
  BY <1>1, <1>2 DEF Local, FlowOK, Follows, TypeOK, Put
<1>4. /\ ToldOK(p)' /\ Count(emitted[p], waitsOn)' = Count(emitted[p], waitsOn)
      /\ EmittedTasks(p)' = EmittedTasks(p)
  <2>1. \A i \in 1..Len(emitted[p]) : FALSE
    BY <1>3
  <2> QED  BY <1>2, <1>3, <2>1, SameTold
<1>5. HandlingOK(p)' /\ WaitersOK(p)'
  BY <1>1, <1>2 DEF ReportsOK, HandlingOK, WaitersOK
<1>6. ASSUME Clean(p)'
      PROVE  CoverOK(p)' /\ LineOK(p)'
  <2>1. CoverOK(p) /\ LineOK(p)
    BY <1>1, <1>2, <1>6 DEF ReportsOK, Clean
  <2>2. LineOK(p)'
    BY <1>2, <1>3, <1>4, <2>1 DEF LineOK
  <2>3. CoverOK(p)'
    <3> SUFFICES ASSUME NEW u \in TasksOf(p), waitsOn'[u] = None, u[2] < cursor'[p]
                 PROVE  Holds(p, u)' \/ u \in EmittedTasks(p)
      BY <1>2, <1>4 DEF CoverOK, TasksOf
    <3>1. u \in Tasks /\ u = <<p, u[2]>> /\ u[2] \in Nat
      BY TasksKnown DEF TasksOf
    <3>2. pending[p] \subseteq pending'[p]
      BY <1>1, <1>2 DEF TypeOK, Put
    <3>3. Holds(p, u) => Holds(p, u)'
      BY <1>2, <3>2 DEF Holds, Places
    <3>4. CASE u = t
      <4>1. UNCHANGED waitsOn /\ pending' = Put(pending, p, pending[p] \union {t})
        <5>1. ASSUME NEW v, v # None, waitsOn' = Put(waitsOn, t, v)  PROVE FALSE
          <6>1. waitsOn'[t] = v
            BY <1>1, <3>1, <3>4, <5>1 DEF TypeOK, Put
          <6> QED  BY <3>4, <5>1, <6>1
        <5> QED  BY <1>2, <5>1
      <4>2. u \in pending'[p]
        BY <1>1, <3>4, <4>1 DEF TypeOK, Put
      <4> QED  BY <4>2 DEF Holds, Places
    <3>5. CASE u # t
      <4>1. waitsOn[u] = None
        BY <1>1, <1>2, <3>1, <3>5 DEF TypeOK, Put
      <4>2. u[2] < cursor[p]
        BY <1>1, <1>3, <3>1, <3>5
      <4> QED  BY <1>2, <2>1, <3>3, <4>1, <4>2 DEF CoverOK
    <3> QED  BY <3>4, <3>5
  <2> QED  BY <2>2, <2>3
<1> QED  BY <1>4, <1>5, <1>6 DEF ReportsOK

LEMMA ArriveReports ==
  ASSUME RInv, NEW p \in Pipelines, NEW ok \in BOOLEAN, Arrive(p, ok), Follows(p)
  PROVE  ReportsOK(p)'
<1>1. TypeOK /\ Local(p) /\ ReportsOK(p)
  BY PipelineKnown
<1>2. PICK t \in pending[p] : current' = Put(current, p, t)
  BY DEF Arrive
<1>3. /\ pc[p] = "download" /\ Settled(p) /\ pc'[p] \in {"success", "failure"} /\ mapGoal'[p] = "none"
      /\ UNCHANGED <<waitsOn, pending, storeQueue, results, batches, owed, emitting, emitted>>
  BY <1>1 DEF Arrive, TypeOK, Goto, Goal, Put, storeVars, mapVars
<1>4. t \in Tasks /\ t # None /\ current'[p] = t /\ current[p] = None
  BY <1>1, <1>2, <1>3, PipelineAssumption DEF TypeOK, Put, ReportsOK, HandlingOK
<1>5. arrived'[p] = Append(arrived[p], t)
  BY <1>4 DEF Follows
<1>6. /\ ToldOK(p)' /\ Count(emitted[p], waitsOn)' = Count(emitted[p], waitsOn)
      /\ EmittedTasks(p)' = EmittedTasks(p)
  BY <1>3, <1>4, <1>5, SameTold
<1>7. HandlingOK(p)' /\ WaitersOK(p)'
  BY <1>1, <1>3, <1>4 DEF ReportsOK, HandlingOK, WaitersOK
<1>8. ASSUME Clean(p)'
      PROVE  CoverOK(p)' /\ LineOK(p)'
  <2>1. CoverOK(p) /\ LineOK(p) /\ owed[p] = None
    BY <1>1, <1>3, <1>8 DEF ReportsOK, Clean, Settled, MapsIdle
  <2>2. CoverOK(p)'
    BY <1>3, <1>6, <2>1 DEF CoverOK, Holds, TasksOf
  <2>3. Line(arrived[p], Count(emitted[p], waitsOn), batches[p], results[p], owed[p], storeQueue[p], None)
    BY <1>4, <2>1 DEF LineOK
  <2>4. Line(Append(arrived[p], t), Count(emitted[p], waitsOn), batches[p], results[p], owed[p], storeQueue[p], t)
    BY <1>4, <2>3, PipelineKnown, LineArrives
  <2>5. LineOK(p)'
    BY <1>3, <1>4, <1>5, <1>6, <2>1, <2>4 DEF LineOK
  <2> QED  BY <2>2, <2>5
<1> QED  BY <1>6, <1>7, <1>8 DEF ReportsOK

LEMMA SubmitStoreReports ==
  ASSUME RInv, NEW p \in Pipelines, SubmitStore(p), Follows(p)
  PROVE  ReportsOK(p)'
<1> DEFINE t == current[p]
<1>1. TypeOK /\ Local(p) /\ ReportsOK(p)
  BY PipelineKnown
<1>2. /\ pc[p] = "success" /\ Settled(p) /\ pc'[p] = "download" /\ mapGoal'[p] = "none"
      /\ storeQueue'[p] = Append(storeQueue[p], t) /\ pending'[p] = pending[p] \ {t}
      /\ current'[p] = None
      /\ UNCHANGED <<waitsOn, results, batches, owed, emitting, emitted>>
  BY <1>1 DEF SubmitStore, Handed, TypeOK, Goto, Goal, Put, mapVars
<1>3. t \in Tasks /\ t \in pending[p] /\ arrived'[p] = arrived[p]
  BY <1>1, <1>2, Types DEF Local, FlowOK, Follows
<1>4. /\ ToldOK(p)' /\ Count(emitted[p], waitsOn)' = Count(emitted[p], waitsOn)
      /\ EmittedTasks(p)' = EmittedTasks(p)
  BY <1>2, <1>3, SameTold
<1>5. HandlingOK(p)' /\ WaitersOK(p)'
  BY <1>1, <1>2 DEF ReportsOK, HandlingOK, WaitersOK
<1>6. ASSUME Clean(p)'
      PROVE  CoverOK(p)' /\ LineOK(p)'
  <2>1. CoverOK(p) /\ LineOK(p) /\ owed[p] = None
    BY <1>1, <1>2, <1>6 DEF ReportsOK, Clean, Settled, MapsIdle
  <2>2. \A u \in Tasks : Holds(p, u)' <=> Holds(p, u)
    <3>1. \A u \in Tasks : Places(u, pending[p] \ {t}, Append(storeQueue[p], t), results[p], batches[p], owed[p])
                           <=> Places(u, pending[p], storeQueue[p], results[p], batches[p], owed[p])
      BY <1>1, <1>3, PlaceHanded, PipelineKnown DEF Local, HeldOK
    <3> QED  BY <1>2, <3>1 DEF Holds
  <2>3. CoverOK(p)'
    BY <1>2, <1>4, <2>1, <2>2 DEF CoverOK, TasksOf
  <2>4. Line(arrived[p], Count(emitted[p], waitsOn), batches[p], results[p], owed[p], Append(storeQueue[p], t), None)
    BY <1>3, <2>1, LineHanded, PipelineKnown DEF LineOK
  <2>5. LineOK(p)'
    BY <1>2, <1>3, <1>4, <2>1, <2>4 DEF LineOK
  <2> QED  BY <2>3, <2>5
<1> QED  BY <1>4, <1>5, <1>6 DEF ReportsOK

\* A submission moves the results to the batches, and the line stays.
LEMMA SubmitLine ==
  ASSUME RInv, NEW p \in Pipelines, NEW R \in Seq(Tasks), NEW flush \in BOOLEAN,
         SubmitResults(p, R, flush), NEW n \in Nat, NEW w, NEW S \in Seq(Tasks), NEW c,
         Line(arrived[p], n, batches[p], R, w, S, c)
  PROVE  /\ Line(arrived[p], n, batches'[p], results'[p], w, S, c) /\ results'[p] = <<>>
         /\ flush /\ emitting[p] => mapGoal'[p] = "all"
         /\ mapGoal'[p] # "rest"
<1>1. TypeOK /\ batches[p] \in Seq(Batch) /\ arrived[p] \in Seq(Tasks)
  BY PipelineKnown
<1>2. CASE R = <<>>
  <2>1. /\ batches' = batches /\ results' = Put(results, p, <<>>)
        /\ mapGoal' = Put(mapGoal, p, IF flush THEN "all" ELSE "none")
    BY <1>2 DEF SubmitResults
  <2>2. batches'[p] = batches[p] /\ results'[p] = <<>> /\ mapGoal'[p] = IF flush THEN "all" ELSE "none"
    BY <1>1, <2>1 DEF TypeOK, Put
  <2> QED  BY <1>2, <2>2
<1>3. CASE R # <<>>
  <2> DEFINE b == [id |-> Head(R), items |-> R]
  <2>1. batches' = Put(batches, p, Append(batches[p], b)) /\ results' = Put(results, p, <<>>)
    BY <1>3 DEF SubmitResults
  <2>2. batches'[p] = Append(batches[p], b) /\ results'[p] = <<>>
    BY <1>1, <2>1 DEF TypeOK, Put
  <2>3. b \in Batch /\ b.items = R
    BY <1>3 DEF Batch
  <2>4. (flush /\ emitting[p] => mapGoal'[p] = "all") /\ mapGoal'[p] # "rest"
    <3> DEFINE full == Len(batches[p]) + 1 >= BatchLimit
               g == CASE flush /\ emitting[p]         -> "all"
                      [] flush /\ ~emitting[p] /\ full  -> "one_then_all"
                      [] flush /\ ~emitting[p] /\ ~full -> "ready_then_all"
                      [] ~flush /\ full                -> "one"
                      [] ~flush /\ ~full               -> "ready"
    <3>1. mapGoal' = Put(mapGoal, p, g)
      BY <1>3 DEF SubmitResults
    <3>2. emitting[p] \in BOOLEAN
      BY <1>1 DEF TypeOK
    <3>3. mapGoal'[p] = g
      BY <1>1, <3>1 DEF TypeOK, Put
    <3> HIDE DEF full
    <3>4. full \in BOOLEAN
      BY DEF full
    <3>5. (flush /\ emitting[p] => g = "all") /\ g # "rest"
      BY <3>2, <3>4
    <3> QED  BY <3>3, <3>5
  <2> HIDE DEF b
  <2>5. Line(arrived[p], n, Append(batches[p], b), <<>>, w, S, c)
    BY <1>1, <2>3, LineBatched
  <2> QED  BY <2>2, <2>4, <2>5
<1> QED  BY <1>2, <1>3

LEMMA FlushReports ==
  ASSUME RInv, NEW p \in Pipelines, Flush(p), Follows(p)
  PROVE  ReportsOK(p)'
<1>1. TypeOK /\ Local(p) /\ ReportsOK(p)
  BY PipelineKnown
<1>2. /\ Settled(p) /\ SubmitResults(p, results[p], TRUE)
      /\ UNCHANGED <<waitsOn, pending, current, storeQueue, owed, emitting, cursor, emitted>>
      /\ \/ pc[p] = "failure" /\ pc'[p] = "failed"
         \/ pc[p] = "tail" /\ pc'[p] = "flushed"
         \/ pc[p] = "abort" /\ pc'[p] = "aborting"
  BY <1>1, ZenonT(30) DEF Flush, Goto, TypeOK, Put, taskVars, storeVars
<1>3. pc[p] = "failure" => storeQueue[p] = <<>>
  BY <1>1, <1>2 DEF Settled, StoresIdle, Local, FlowOK
<1>4. arrived'[p] = arrived[p] /\ owed[p] = None
  BY <1>2 DEF Follows, Settled
<1>5. /\ ToldOK(p)' /\ Count(emitted[p], waitsOn)' = Count(emitted[p], waitsOn)
      /\ EmittedTasks(p)' = EmittedTasks(p)
  BY <1>2, <1>4, SameTold
<1>6. CASE pc[p] = "abort"
  <2>1. ~emitting[p] /\ current[p] = None /\ pc'[p] = "aborting"
    BY <1>1, <1>2, <1>6 DEF ReportsOK, HandlingOK
  <2>2. ~Clean(p)' /\ WaitersOK(p)'
    BY <1>2, <2>1 DEF Clean, WaitersOK
  <2>3. mapGoal'[p] # "rest"
    <3>1. results[p] \in Seq(Tasks)
      BY PipelineKnown
    <3>2. IInv /\ MapsIdle(p)
      BY <1>2 DEF RInv, Settled
    <3> QED  BY <1>2, <3>1, <3>2, SubmitGoal
  <2>4. HandlingOK(p)'
    BY <1>2, <2>1, <2>3 DEF HandlingOK
  <2> QED  BY <1>5, <2>2, <2>4 DEF ReportsOK
<1>7. CASE pc[p] # "abort"
  <2>1. emitting[p] /\ mapGoal[p] # "rest"
    BY <1>1, <1>2, <1>7 DEF ReportsOK, HandlingOK, Settled, MapsIdle
  <2>2. CoverOK(p) /\ LineOK(p)
    BY <1>1, <2>1 DEF ReportsOK, Clean
  <2>3. /\ Line(arrived[p], Count(emitted[p], waitsOn), batches'[p], results'[p], owed[p], storeQueue[p], current[p])
        /\ results'[p] = <<>> /\ mapGoal'[p] = "all"
    BY <1>2, <2>1, <2>2, SubmitLine, PipelineKnown DEF LineOK
  <2>4. HandlingOK(p)' /\ WaitersOK(p)'
    BY <1>1, <1>2, <1>7, <2>1, <2>3 DEF ReportsOK, HandlingOK, WaitersOK
  <2>5. LineOK(p)'
    BY <1>2, <1>3, <1>4, <1>5, <1>7, <2>3 DEF LineOK
  <2>6. \A u \in Tasks : Holds(p, u)' <=> Holds(p, u)
    <3>1. IInv /\ MapsIdle(p) /\ results[p] \in Seq(Tasks)
      BY <1>2, PipelineKnown DEF RInv, Settled
    <3>2. /\ PlacesApart(pending[p], storeQueue[p], results[p], batches[p], owed[p])
          /\ \A u \in Tasks : In(u, results[p]) => u[1] = p
      BY <1>1 DEF Local, HeldOK, Holds, Places
    <3>3. BecomesBatch(p, pending[p], storeQueue[p], results[p], owed[p])
      BY <1>2, <3>1, <3>2, Submitted
    <3> QED  BY <1>2, <3>3 DEF BecomesBatch, Holds
  <2>7. CoverOK(p)'
    BY <1>2, <1>5, <1>7, <2>2, <2>6 DEF CoverOK, TasksOf
  <2> QED  BY <1>5, <2>4, <2>5, <2>7 DEF ReportsOK
<1> QED  BY <1>6, <1>7

LEMMA ReleaseRestReports ==
  ASSUME RInv, NEW p \in Pipelines, ReleaseRest(p), Follows(p)
  PROVE  ReportsOK(p)'
<1>1. TypeOK /\ ReportsOK(p)
  BY PipelineKnown
<1>2. /\ pc[p] = "aborting" /\ pc'[p] \in {"aborting", "raised"}
      /\ UNCHANGED <<waitsOn, current, batches, mapGoal, emitting, emitted>>
  BY <1>1 DEF ReleaseRest, Goto, TypeOK, Put, mapVars, goalVars
<1>3. ~emitting[p] /\ current[p] = None /\ arrived'[p] = arrived[p]
  BY <1>1, <1>2 DEF ReportsOK, HandlingOK, Follows
<1>4. ToldOK(p)'
  BY <1>2, <1>3, SameTold
<1>5. HandlingOK(p)' /\ WaitersOK(p)' /\ ~Clean(p)'
  BY <1>1, <1>2, <1>3 DEF ReportsOK, HandlingOK, WaitersOK, Clean
<1> QED  BY <1>4, <1>5 DEF ReportsOK

LEMMA ReleaseFailedReports ==
  ASSUME RInv, NEW p \in Pipelines, ReleaseFailed(p), Follows(p)
  PROVE  ReportsOK(p)'
<1>1. TypeOK /\ Local(p) /\ ReportsOK(p)
  BY PipelineKnown
<1> DEFINE t == current[p]
<1>2. /\ pc[p] = "failed" /\ Settled(p) /\ Emit(p, t, "failed")
      /\ UNCHANGED <<waitsOn, storeQueue, results, batches, cursor>>
      /\ pending'[p] = pending[p] \ {t}
      /\ \/ /\ pc'[p] = "download" /\ mapGoal'[p] = "none" /\ current'[p] = None /\ UNCHANGED <<owed, emitting>>
         \/ Abort(p)
  BY <1>1 DEF ReleaseFailed, Goto, Goal, TypeOK, Put, storeVars, mapVars
<1>3. t \in Tasks /\ t \in pending[p] /\ t # None /\ Holds(p, t)
  <2>1. t \in pending[p] /\ t \in Tasks
    BY <1>1, <1>2, Types DEF Local, FlowOK
  <2> QED  BY <2>1, PipelineAssumption DEF Holds, Places
<1>4. waitsOn[t] = None /\ t \notin EmittedTasks(p)
  BY <1>3, HeldUntold
<1>5. Clean(p) /\ CoverOK(p) /\ LineOK(p) /\ owed[p] = None
  BY <1>1, <1>2 DEF ReportsOK, HandlingOK, Clean, Settled, MapsIdle
<1>6. storeQueue[p] = <<>> /\ results[p] = <<>> /\ batches[p] = <<>>
  BY <1>2, <1>5 DEF LineOK, Settled, MapsIdle
<1>7. LET n == Count(emitted[p], waitsOn)
      IN  n + 1 <= Len(arrived[p]) /\ t = arrived[p][n + 1] /\ Line(arrived[p], n + 1, <<>>, <<>>, None, <<>>, None)
  <2>1. Line(arrived[p], Count(emitted[p], waitsOn), <<>>, <<>>, None, <<>>, t)
    BY <1>5, <1>6 DEF LineOK
  <2> QED  BY <1>3, <2>1, LineLastTold, PipelineKnown
<1>8. arrived'[p] = arrived[p]
  BY <1>3 DEF Follows
<1>9. /\ ToldOK(p)' /\ EmittedTasks(p)' = EmittedTasks(p) \union {t}
      /\ Count(emitted[p], waitsOn)' = Count(emitted[p], waitsOn) + 1
  BY <1>2, <1>3, <1>4, <1>7, <1>8, OneTold
<1>10. CASE Abort(p)
  BY <1>9, <1>10, AbortedReports
<1>11. CASE pc'[p] = "download" /\ mapGoal'[p] = "none" /\ current'[p] = None /\ UNCHANGED <<owed, emitting>>
  <2>1. HandlingOK(p)' /\ WaitersOK(p)'
    BY <1>1, <1>5, <1>11 DEF HandlingOK, WaitersOK, Clean
  <2>2. LineOK(p)'
    BY <1>2, <1>5, <1>6, <1>7, <1>8, <1>9, <1>11 DEF LineOK
  <2>3. \A u \in Tasks : u # t /\ Holds(p, u) => Holds(p, u)'
    BY <1>2, <1>11 DEF Holds, Places
  <2>4. CoverOK(p)'
    BY <1>2, <1>5, <1>9, <1>11, <2>3 DEF CoverOK, TasksOf
  <2> QED  BY <1>9, <2>1, <2>2, <2>4 DEF ReportsOK
<1> QED  BY <1>2, <1>10, <1>11

LEMMA FinishOwedReports ==
  ASSUME RInv, NEW p \in Pipelines, FinishOwed(p), Follows(p)
  PROVE  ReportsOK(p)'
<1>1. TypeOK /\ Local(p) /\ ReportsOK(p)
  BY PipelineKnown
<1> DEFINE t == owed[p]
<1>2. /\ MapsIdle(p) /\ t # None /\ t \in Tasks /\ Holds(p, t)
      /\ UNCHANGED <<waitsOn, pending, storeQueue, results, batches, cursor>>
      /\ IF emitting[p] THEN Emit(p, t, "failed") ELSE UNCHANGED emitted
      /\ \/ owed'[p] = None /\ mapGoal'[p] = "none" /\ UNCHANGED <<pc, emitting, current>>
         \/ Abort(p)
  BY <1>1, Types DEF FinishOwed, TypeOK, Put, storeVars, mapVars, Holds, Places
<1>3. pc[p] \notin {"claim", "waiters", "done", "raised"} /\ mapGoal[p] # "rest"
  BY <1>1, <1>2 DEF MapsIdle, Local, FlowOK, Drained
<1>4. arrived'[p] = arrived[p]
  <2>1. current'[p] = current[p] \/ current'[p] = None
    BY <1>1, <1>2, Aborted DEF Abort, TypeOK, Put
  <2> QED  BY <2>1 DEF Follows
<1>5. CASE emitting[p]
  <2>1. CoverOK(p) /\ LineOK(p) /\ Clean(p) /\ batches[p] = <<>> /\ results[p] = <<>>
    BY <1>1, <1>2, <1>3, <1>5 DEF ReportsOK, Clean, LineOK, MapsIdle
  <2>2. LET n == Count(emitted[p], waitsOn)
        IN  n + 1 <= Len(arrived[p]) /\ t = arrived[p][n + 1]
            /\ Line(arrived[p], n + 1, <<>>, <<>>, None, storeQueue[p], current[p])
    <3>1. Line(arrived[p], Count(emitted[p], waitsOn), <<>>, <<>>, t, storeQueue[p], current[p])
      BY <2>1 DEF LineOK
    <3> QED  BY <1>2, <3>1, LineOwedTold, PipelineKnown
  <2>3. waitsOn[t] = None /\ t \notin EmittedTasks(p)
    BY <1>2, HeldUntold
  <2>4. /\ ToldOK(p)' /\ EmittedTasks(p)' = EmittedTasks(p) \union {t}
        /\ Count(emitted[p], waitsOn)' = Count(emitted[p], waitsOn) + 1
    BY <1>2, <1>4, <1>5, <2>2, <2>3, OneTold
  <2>5. CASE Abort(p)
    BY <2>4, <2>5, AbortedReports
  <2>6. CASE owed'[p] = None /\ mapGoal'[p] = "none" /\ UNCHANGED <<pc, emitting, current>>
    <3>1. HandlingOK(p)' /\ WaitersOK(p)'
      BY <1>1, <1>3, <2>6 DEF ReportsOK, HandlingOK, WaitersOK
    <3>2. LineOK(p)'
      BY <1>2, <1>4, <2>1, <2>2, <2>4, <2>6 DEF LineOK
    <3>3. \A u \in Tasks : u # t /\ Holds(p, u) => Holds(p, u)'
      BY <1>2, <2>6 DEF Holds, Places
    <3>4. CoverOK(p)'
      BY <1>2, <1>3, <2>1, <2>4, <2>6, <3>3 DEF CoverOK, TasksOf
    <3> QED  BY <2>4, <3>1, <3>2, <3>4 DEF ReportsOK
  <2> QED  BY <1>2, <2>5, <2>6
<1>6. CASE ~emitting[p]
  <2>1. ToldOK(p)'
    BY <1>2, <1>4, <1>6, SameTold
  <2>2. CASE Abort(p)
    BY <2>1, <2>2, AbortedReports
  <2>3. CASE owed'[p] = None /\ mapGoal'[p] = "none" /\ UNCHANGED <<pc, emitting, current>>
    <3>1. HandlingOK(p)' /\ WaitersOK(p)' /\ ~Clean(p)'
      BY <1>1, <1>3, <1>6, <2>3 DEF ReportsOK, HandlingOK, WaitersOK, Clean
    <3> QED  BY <2>1, <3>1 DEF ReportsOK
  <2> QED  BY <1>2, <2>2, <2>3
<1> QED  BY <1>5, <1>6

LEMMA FinishMappingReports ==
  ASSUME RInv, NEW p \in Pipelines, FinishMapping(p), Follows(p)
  PROVE  ReportsOK(p)'
<1>1. TypeOK /\ Local(p) /\ ReportsOK(p)
  BY PipelineKnown
<1> DEFINE t == Head(Head(batches[p]).items)
           o == Outcome(p, Head(batches[p]).id)
           last == Len(Head(batches[p]).items) = 1
<1>2. /\ batches[p] # <<>> /\ BatchesApart(batches[p])
      /\ UNCHANGED <<waitsOn, cursor, pending, storeQueue, results>>
      /\ batches'[p] = AfterItem(batches[p])
      /\ IF Clean(p) THEN Emit(p, t, o) ELSE UNCHANGED emitted
      /\ \/ /\ UNCHANGED <<pc, owed, emitting, current>>
            /\ \/ last /\ mapGoal[p] # "rest" /\ mapGoal'[p] = AfterBatch(mapGoal[p])
               \/ ~last /\ mapGoal'[p] = mapGoal[p]
               \/ ~last /\ mapGoal'[p] = "rest"
         \/ o = "error" /\ GiveUp(p)
         \/ Abort(p)
  <2>1. batches[p] # <<>> /\ BatchesApart(batches[p])
    BY <1>1 DEF FinishMapping, Local, HeldOK, PlacesApart
  <2>2. batches'[p] = AfterItem(batches[p])
    BY <1>1 DEF FinishMapping, TypeOK, Put, AfterItem
  <2>3. /\ UNCHANGED <<waitsOn, cursor, pending, storeQueue, results>>
        /\ IF Clean(p) THEN Emit(p, t, o) ELSE UNCHANGED emitted
    BY DEF FinishMapping, storeVars, Clean
  <2>4. \/ /\ UNCHANGED <<pc, owed, emitting, current>>
           /\ \/ last /\ mapGoal[p] # "rest" /\ mapGoal' = Put(mapGoal, p, AfterBatch(mapGoal[p]))
              \/ ~last /\ mapGoal' = Put(mapGoal, p, mapGoal[p])
              \/ ~last /\ mapGoal' = Put(mapGoal, p, "rest")
        \/ o = "error" /\ GiveUp(p)
        \/ Abort(p)
    <3>1. CASE last
      BY <3>1 DEF FinishMapping
    <3>2. CASE ~last
      BY <3>2 DEF FinishMapping
    <3> QED  BY <3>1, <3>2
  <2>5. \A v : mapGoal' = Put(mapGoal, p, v) => mapGoal'[p] = v
    BY <1>1 DEF TypeOK, Put
  <2> HIDE DEF last, o, t
  <2> QED  BY <2>1, <2>2, <2>3, <2>4, <2>5
<1>3. /\ t \in Tasks /\ Holds(p, t) /\ batches'[p] \in Seq(Batch)
      /\ ~last => batches'[p] # <<>>
  <2>1. batches[p] \in Seq(Batch)
    BY PipelineKnown
  <2>2. t \in Tasks /\ InBatches(t, batches[p])
    BY <1>2, <2>1, ItemLeaves, ItemLeavesBatches
  <2>3. batches'[p] \in Seq(Batch) /\ Len(batches[p]) >= 1 /\ Len(batches[p]) \in Nat /\ (~last => Len(batches'[p]) = Len(batches[p]))
    BY <1>2, <2>1, ItemLeavesFrom
  <2>4. ~last => Len(batches'[p]) # 0
    BY <2>3
  <2>5. ~last => batches'[p] # <<>>
    BY <2>4
  <2> QED  BY <2>2, <2>3, <2>5 DEF Holds, Places
<1>4. pc[p] \notin {"claim", "waiters", "done"}
  BY <1>1, <1>2 DEF Local, FlowOK, Drained
<1>5. arrived'[p] = arrived[p]
  <2>1. current'[p] = current[p] \/ current'[p] = None
    BY <1>1, <1>2 DEF Abort, GiveUp, TypeOK, Put
  <2> QED  BY <2>1 DEF Follows
<1>6. CASE Clean(p)
  <2>1. CoverOK(p) /\ LineOK(p)
    BY <1>1, <1>6 DEF ReportsOK
  <2>2. o \in {"ok", "failed"}
    BY <1>6 DEF Outcome, Clean
  <2>3. LET n == Count(emitted[p], waitsOn)
        IN  n + 1 <= Len(arrived[p]) /\ t = arrived[p][n + 1]
            /\ Line(arrived[p], n + 1, batches'[p], results[p], owed[p], storeQueue[p], current[p])
    BY <1>2, <2>1, LineItem, PipelineKnown DEF LineOK
  <2>4. waitsOn[t] = None /\ t \notin EmittedTasks(p)
    BY <1>3, HeldUntold
  <2>5. /\ ToldOK(p)' /\ EmittedTasks(p)' = EmittedTasks(p) \union {t}
        /\ Count(emitted[p], waitsOn)' = Count(emitted[p], waitsOn) + 1
    <3> HIDE DEF t, o
    <3> QED  BY <1>2, <1>3, <1>5, <1>6, <2>2, <2>3, <2>4, OneTold
  <2>6. CASE Abort(p)
    BY <2>5, <2>6, AbortedReports
  <2>7. CASE /\ UNCHANGED <<pc, owed, emitting, current>>
             /\ \/ last /\ mapGoal[p] # "rest" /\ mapGoal'[p] = AfterBatch(mapGoal[p])
                \/ ~last /\ mapGoal'[p] = mapGoal[p]
                \/ ~last /\ mapGoal'[p] = "rest"
    <3>1. AfterBatch(mapGoal[p]) # "rest" /\ (mapGoal[p] = "all" => AfterBatch(mapGoal[p]) = "all")
      BY <1>6 DEF AfterBatch, Clean
    <3>2. HandlingOK(p)' /\ WaitersOK(p)'
      BY <1>1, <1>3, <1>4, <2>7, <3>1 DEF ReportsOK, HandlingOK, WaitersOK
    <3>3. CASE mapGoal'[p] = "rest"
      <4>1. ~Clean(p)'
        BY <3>3 DEF Clean
      <4> QED  BY <2>5, <3>2, <4>1 DEF ReportsOK
    <3>4. CASE mapGoal'[p] # "rest"
      <4>1. mapGoal[p] = "all" => mapGoal'[p] = "all"
        BY <2>7, <3>1, <3>4
      <4>2. pc[p] = "failed" => mapGoal[p] = "all"
        BY <1>2, <2>1 DEF LineOK
      <4>3. LineOK(p)'
        BY <1>2, <1>5, <2>1, <2>3, <2>5, <2>7, <4>1, <4>2 DEF LineOK
      <4>4. \A u \in Tasks : u # t /\ Holds(p, u) => Holds(p, u)'
        <5>1. \A u \in Tasks : InBatches(u, AfterItem(batches[p])) <=> InBatches(u, batches[p]) /\ u # t
          BY <1>2, ItemLeavesBatches, PipelineKnown
        <5> HIDE DEF t
        <5> QED  BY <1>2, <2>7, <5>1 DEF Holds, Places
      <4>5. CoverOK(p)'
        <5> HIDE DEF t
        <5> QED  BY <1>2, <1>4, <2>1, <2>5, <2>7, <4>4 DEF CoverOK, TasksOf
      <4> QED  BY <2>5, <3>2, <4>3, <4>5 DEF ReportsOK
    <3> QED  BY <3>3, <3>4
  <2> QED  BY <1>2, <2>2, <2>6, <2>7
<1>7. CASE ~Clean(p)
  <2>1. ToldOK(p)'
    BY <1>2, <1>5, <1>7, SameTold
  <2>2. CASE Abort(p)
    BY <2>1, <2>2, AbortedReports
  <2>3. CASE o = "error" /\ GiveUp(p)
    <3>1. ~emitting[p]
      BY <2>3 DEF Outcome
    <3>2. pc[p] \in {"abort", "aborting", "raised"} /\ current[p] = None
      BY <1>1, <3>1 DEF ReportsOK, HandlingOK
    <3>3. pc'[p] = "raised" /\ mapGoal'[p] = "none" /\ current'[p] = None /\ emitting'[p] = emitting[p]
      BY <1>1, <2>3, <3>2 DEF GiveUp, Goto, Goal, TypeOK, Put
    <3>4. HandlingOK(p)' /\ WaitersOK(p)' /\ ~Clean(p)'
      BY <3>1, <3>3 DEF HandlingOK, WaitersOK, Clean
    <3> QED  BY <2>1, <3>4 DEF ReportsOK
  <2>4. CASE /\ UNCHANGED <<pc, owed, emitting, current>>
             /\ \/ last /\ mapGoal[p] # "rest" /\ mapGoal'[p] = AfterBatch(mapGoal[p])
                \/ ~last /\ mapGoal'[p] = mapGoal[p]
                \/ ~last /\ mapGoal'[p] = "rest"
    <3>1. mapGoal[p] # "rest" => AfterBatch(mapGoal[p]) # "rest"
      BY DEF AfterBatch
    <3>2. HandlingOK(p)' /\ WaitersOK(p)'
      BY <1>1, <1>3, <1>4, <2>4, <3>1 DEF ReportsOK, HandlingOK, WaitersOK
    <3>3. ~Clean(p)'
      BY <1>7, <2>4, <3>1 DEF Clean
    <3> QED  BY <2>1, <3>2, <3>3 DEF ReportsOK
  <2> QED  BY <1>2, <2>2, <2>3, <2>4
<1> QED  BY <1>6, <1>7

LEMMA FinishStoreReports ==
  ASSUME RInv, NEW p \in Pipelines, FinishStore(p), Follows(p)
  PROVE  ReportsOK(p)'
<1>1. TypeOK /\ Local(p) /\ ReportsOK(p)
  BY PipelineKnown
<1> DEFINE S == storeQueue[p]
           t == Head(S)
           R == Append(results[p], t)
<1>2. /\ MapsIdle(p) /\ owed[p] = None /\ S # <<>> /\ storeQueue'[p] = Tail(S)
      /\ UNCHANGED <<waitsOn, pending, current, emitting, pc, cursor, emitted>>
      /\ \/ /\ owed' = owed
            /\ \/ SubmitResults(p, R, FALSE)
               \/ results'[p] = R /\ mapGoal'[p] = "none" /\ UNCHANGED batches
         \/ owed'[p] = t /\ SubmitResults(p, results[p], TRUE)
  <2>1. /\ MapsIdle(p) /\ owed[p] = None /\ S # <<>> /\ storeQueue'[p] = Tail(S)
        /\ UNCHANGED <<waitsOn, pending, current, emitting, pc, cursor, emitted>>
    BY <1>1 DEF FinishStore, TypeOK, Put, taskVars, controlVars
  <2>2. CASE stored[t] = "ok"
    <3>1. /\ owed' = owed
          /\ \/ SubmitResults(p, R, FALSE)
             \/ results' = Put(results, p, R) /\ mapGoal' = Put(mapGoal, p, "none") /\ UNCHANGED batches
      BY <2>2 DEF FinishStore
    <3>2. /\ results' = Put(results, p, R) => results'[p] = R
          /\ mapGoal' = Put(mapGoal, p, "none") => mapGoal'[p] = "none"
      BY <1>1 DEF TypeOK, Put
    <3> QED  BY <2>1, <3>1, <3>2
  <2>3. CASE stored[t] # "ok"
    BY <1>1, <2>1, <2>3 DEF FinishStore, FlushOnFailure, TypeOK, Put
  <2> QED  BY <2>1, <2>2, <2>3
<1>3. t \in Tasks /\ R \in Seq(Tasks) /\ Tail(S) \in Seq(Tasks) /\ results[p] \in Seq(Tasks)
  BY <1>2, PipelineKnown
<1>4. arrived'[p] = arrived[p]
  BY <1>2 DEF Follows
<1>5. /\ ToldOK(p)' /\ Count(emitted[p], waitsOn)' = Count(emitted[p], waitsOn)
      /\ EmittedTasks(p)' = EmittedTasks(p)
  BY <1>2, <1>4, SameTold
<1>6. WaitersOK(p)'
  BY <1>1, <1>2, <1>5 DEF ReportsOK, WaitersOK, TasksOf
<1>7. mapGoal'[p] # "rest"
  <2>1. IInv
    BY DEF RInv
  <2> QED  BY <1>2, <1>3, <2>1, SubmitGoal
<1>8. HandlingOK(p)'
  BY <1>1, <1>2, <1>7 DEF ReportsOK, HandlingOK
<1>9. ASSUME Clean(p)'
      PROVE  CoverOK(p)' /\ LineOK(p)'
  <2>1. Clean(p) /\ CoverOK(p) /\ LineOK(p) /\ emitting[p]
    BY <1>1, <1>2, <1>9 DEF ReportsOK, Clean, MapsIdle
  <2> DEFINE n == Count(emitted[p], waitsOn)
  <2>2. Line(arrived[p], n, batches[p], results[p], None, S, current[p])
    BY <1>2, <2>1 DEF LineOK
  <2>3. pc[p] # "failed"
    BY <1>2, <2>1 DEF LineOK
  <2>4. /\ Line(arrived[p], n, batches'[p], results'[p], owed'[p], Tail(S), current[p])
        /\ owed'[p] # None => mapGoal'[p] = "all" /\ results'[p] = <<>>
    <3>1. Line(arrived[p], n, batches[p], R, None, Tail(S), current[p])
      BY <1>2, <2>2, LineStored, PipelineKnown
    <3>2. Line(arrived[p], n, batches[p], results[p], t, Tail(S), current[p])
      BY <1>2, <2>2, LineOwes, PipelineKnown
    <3>3. n \in Nat
      BY PipelineKnown
    <3> HIDE DEF R, n, t
    <3>4. CASE owed' = owed /\ SubmitResults(p, R, FALSE)
      <4>1. Line(arrived[p], n, batches'[p], results'[p], None, Tail(S), current[p])
        BY <1>3, <3>1, <3>3, <3>4, SubmitLine
      <4> QED  BY <1>2, <3>4, <4>1
    <3>5. CASE owed' = owed /\ results'[p] = R /\ mapGoal'[p] = "none" /\ UNCHANGED batches
      BY <1>2, <3>1, <3>5
    <3>6. CASE owed'[p] = t /\ SubmitResults(p, results[p], TRUE)
      BY <1>3, <2>1, <3>2, <3>3, <3>6, SubmitLine
    <3> QED  BY <1>2, <3>4, <3>5, <3>6
  <2>5. LineOK(p)'
    BY <1>2, <1>4, <1>5, <2>3, <2>4 DEF LineOK
  <2>6. \A u \in Tasks : Holds(p, u)' <=> Holds(p, u)
    <3>1. StoreMovesOn(p)
      BY StoreFinished DEF RInv
    <3> QED  BY <1>2, <3>1 DEF StoreMovesOn, Holds
  <2>7. CoverOK(p)'
    BY <1>2, <1>5, <2>1, <2>6 DEF CoverOK, TasksOf
  <2> QED  BY <2>5, <2>7
<1> QED  BY <1>5, <1>6, <1>8, <1>9 DEF ReportsOK

LEMMA FinishWaiterReports ==
  ASSUME RInv, NEW p \in Pipelines, FinishWaiter(p), Follows(p)
  PROVE  ReportsOK(p)'
<1>1. TypeOK /\ Local(p) /\ WaitsOK /\ ReportsOK(p) /\ cursor[p] \in Nat /\ NTasks[p] \in Nat
  BY PipelineKnown
<1> DEFINE t == <<p, cursor[p]>>
           advance == cursor'[p] = cursor[p] + 1 /\ UNCHANGED pc
           raise == pc'[p] = "raised" /\ UNCHANGED cursor
<1>2. /\ pc[p] = "waiters"
      /\ UNCHANGED <<waitsOn, current, pending, storeQueue, results, batches, mapGoal, owed, emitting>>
      /\ \/ cursor[p] > NTasks[p] /\ pc'[p] = "done" /\ UNCHANGED emitted
         \/ cursor[p] <= NTasks[p] /\ waitsOn[t] = None /\ advance /\ UNCHANGED emitted
         \/ cursor[p] <= NTasks[p] /\ waitsOn[t] # None /\ raise /\ UNCHANGED emitted
         \/ /\ cursor[p] <= NTasks[p] /\ waitsOn[t] # None /\ Answered(t)
            /\ claim[waitsOn[t]] # "error" /\ Emit(p, t, claim[waitsOn[t]])
            /\ advance \/ raise
  <2>1. /\ \A v : pc' = Put(pc, p, v) => pc'[p] = v
        /\ \A v : cursor' = Put(cursor, p, v) => cursor'[p] = v
    BY <1>1 DEF TypeOK, Put
  <2> QED  BY <1>1, <2>1 DEF FinishWaiter, Goto, taskVars, storeVars, mapVars, goalVars
<1>3. arrived'[p] = arrived[p] /\ current'[p] = current[p]
  BY <1>2 DEF Follows
<1>4. cursor[p] <= NTasks[p] => t \in TasksOf(p) /\ t[2] = cursor[p]
  <2>1. cursor[p] # 0
    BY <1>1 DEF Local, FlowOK
  <2> QED  BY <1>1, <2>1, TasksKnown DEF TasksOf
<1>5. \A u \in TasksOf(p) : u \in Tasks /\ u = <<p, u[2]>> /\ u[2] \in Nat /\ u[2] <= NTasks[p]
  <2> TAKE u \in TasksOf(p)
  <2>1. u \in Tasks /\ u[1] = p
    BY DEF TasksOf
  <2>2. u[2] \in 1..NTasks[p] /\ u = <<p, u[2]>>
    BY <2>1, TasksKnown
  <2> QED  BY <1>1, <2>1, <2>2
<1>6. HandlingOK(p)'
  BY <1>1, <1>2 DEF ReportsOK, HandlingOK
<1> HIDE DEF t
<1>7. CASE UNCHANGED emitted
  <2>1. /\ ToldOK(p)' /\ Count(emitted[p], waitsOn)' = Count(emitted[p], waitsOn)
        /\ EmittedTasks(p)' = EmittedTasks(p)
    BY <1>2, <1>3, <1>7, SameTold
  <2>2. WaitersOK(p)'
    <3> SUFFICES ASSUME NEW u \in TasksOf(p), waitsOn[u] # None,
                        pc'[p] = "done" \/ (pc'[p] = "waiters" /\ u[2] < cursor'[p])
                 PROVE  u \in EmittedTasks(p)
      BY <1>2, <2>1 DEF WaitersOK, TasksOf
    <3>1. u[2] < cursor[p]
      <4>1. CASE cursor[p] > NTasks[p]
        BY <1>1, <1>5, <4>1
      <4>2. CASE cursor[p] <= NTasks[p]
        <5>1. waitsOn[t] = None \/ pc'[p] = "raised" \/ Emit(p, t, claim[waitsOn[t]])
          BY <1>1, <1>2, <4>2
        <5>2. ~Emit(p, t, claim[waitsOn[t]])
          <6>1. SUFFICES ASSUME Emit(p, t, claim[waitsOn[t]])  PROVE FALSE
            OBVIOUS
          <6>2. emitted[p] = Append(emitted[p], <<t, claim[waitsOn[t]]>>)
            BY <1>1, <1>7, <6>1 DEF TypeOK, Emit, Put
          <6>3. emitted[p] \in Seq(Tasks \X {"ok", "failed"})
            BY PipelineKnown
          <6>4. Len(Append(emitted[p], <<t, claim[waitsOn[t]]>>)) = Len(emitted[p]) + 1 /\ Len(emitted[p]) \in Nat
            BY <6>3
          <6> QED  BY <6>2, <6>4
        <5>3. waitsOn[t] = None /\ cursor'[p] = cursor[p] + 1 /\ pc'[p] = "waiters"
          BY <1>1, <1>2, <4>2, <5>1, <5>2
        <5>4. u # t
          BY <5>3
        <5>5. u[2] # cursor[p]
          BY <1>5, <5>4 DEF t
        <5> QED  BY <1>1, <1>5, <5>3, <5>5
      <4> QED  BY <1>1, <4>1, <4>2
    <3> QED  BY <1>1, <1>2, <3>1 DEF ReportsOK, WaitersOK
  <2>3. ASSUME Clean(p)'  PROVE CoverOK(p)' /\ LineOK(p)'
    <3>1. CoverOK(p) /\ LineOK(p)
      BY <1>1, <1>2, <2>3 DEF ReportsOK, Clean
    <3>2. pc'[p] \in {"waiters", "done", "raised"}
      BY <1>2
    <3> QED  BY <1>2, <1>3, <2>1, <3>1, <3>2 DEF CoverOK, LineOK, Holds, TasksOf
  <2> QED  BY <1>6, <2>1, <2>2, <2>3 DEF ReportsOK
<1>8. CASE /\ cursor[p] <= NTasks[p] /\ waitsOn[t] # None /\ Answered(t)
           /\ claim[waitsOn[t]] # "error" /\ Emit(p, t, claim[waitsOn[t]])
           /\ advance \/ raise
  <2>1. t \in Tasks /\ t \in TasksOf(p) /\ t[2] = cursor[p]
    BY <1>4, <1>8 DEF TasksOf
  <2>2. t \notin EmittedTasks(p)
    <3>1. EmittedOK(p)
      BY <1>1 DEF Local
    <3>2. \A i \in 1..Len(emitted[p]) : emitted[p][i][1] # t
      BY <1>1, <1>2, <1>8, <2>1, <3>1 DEF EmittedOK
    <3> QED  BY <3>2 DEF EmittedTasks
  <2>3. claim[waitsOn[t]] \in {"ok", "failed"}
    BY <1>8 DEF Answered
  <2>4. /\ ToldOK(p)' /\ EmittedTasks(p)' = EmittedTasks(p) \union {t}
        /\ Count(emitted[p], waitsOn)' = Count(emitted[p], waitsOn)
    BY <1>2, <1>3, <1>8, <2>1, <2>2, <2>3, OneTold
  <2>5. WaitersOK(p)'
    <3> SUFFICES ASSUME NEW u \in TasksOf(p), waitsOn[u] # None,
                        pc'[p] = "done" \/ (pc'[p] = "waiters" /\ u[2] < cursor'[p])
                 PROVE  u \in EmittedTasks(p) \union {t}
      BY <1>2, <2>4 DEF WaitersOK, TasksOf
    <3>1. cursor'[p] = cursor[p] + 1 /\ u[2] < cursor'[p]
      BY <1>2, <1>8
    <3>2. u = t \/ u[2] < cursor[p]
      BY <1>1, <1>5, <3>1 DEF t
    <3> QED  BY <1>1, <1>2, <3>2 DEF ReportsOK, WaitersOK
  <2>6. ASSUME Clean(p)'  PROVE CoverOK(p)' /\ LineOK(p)'
    <3>1. CoverOK(p) /\ LineOK(p)
      BY <1>1, <1>2, <2>6 DEF ReportsOK, Clean
    <3>2. pc'[p] \in {"waiters", "raised"}
      BY <1>2, <1>8
    <3> QED  BY <1>2, <1>3, <2>4, <3>1, <3>2 DEF CoverOK, LineOK, Holds, TasksOf
  <2> QED  BY <1>6, <2>4, <2>5, <2>6 DEF ReportsOK
<1> QED  BY <1>2, <1>7, <1>8

-----------------------------------------------------------------------------
(* Every step keeps the order of the reports.                              *)

LEMMA NextReports ==
  RInv /\ [MCNext]_<<vars, arrived>> => RInv'
<1> SUFFICES ASSUME RInv, [MCNext]_<<vars, arrived>>  PROVE RInv'
  OBVIOUS
<1>1. TypeOK /\ IInv /\ arrived \in [Pipelines -> Seq(Tasks)]
  BY DEF RInv, IInv
<1>2. CASE UNCHANGED <<vars, arrived>>
  <2>1. IInv'
    <3>1. UNCHANGED vars
      BY <1>2
    <3> QED  BY <1>1, <3>1, NextIInv
  <2>2. \A p \in Pipelines : Aside(p) /\ arrived'[p] = arrived[p]
    BY <1>2 DEF Aside, vars, claimVars, taskVars, storeVars, mapVars, goalVars, controlVars
  <2> QED  BY <1>1, <1>2, <2>1, <2>2, ReportsAside DEF RInv
<1>3. CASE MCNext
  <2>1. IInv'
    BY <1>1, <1>3, NextIInv DEF MCNext
  <2>2. \A p \in Pipelines : Follows(p)
    BY <1>3 DEF MCNext, Follows
  <2>3. arrived' \in [Pipelines -> Seq(Tasks)]
    <3>1. current' \in [Pipelines -> Tasks \union {None}]
      BY <2>1 DEF IInv, TypeOK
    <3>2. ASSUME NEW p \in Pipelines
          PROVE  (IF current[p] = None /\ current'[p] # None
                  THEN Append(arrived[p], current'[p]) ELSE arrived[p]) \in Seq(Tasks)
      <4>1. arrived[p] \in Seq(Tasks) /\ (current'[p] # None => current'[p] \in Tasks)
        BY <1>1, <3>1
      <4> QED  BY <4>1
    <3> QED  BY <1>3, <3>2 DEF MCNext
  <2>4. ASSUME \A p \in Pipelines : ReportsOK(p)'  PROVE RInv'
    BY <2>1, <2>3, <2>4 DEF RInv
  <2>5. ASSUME NEW p \in Pipelines, Aside(p)  PROVE ReportsOK(p)'
    <3>1. arrived'[p] = arrived[p]
      BY <2>2, <2>5 DEF Follows, Aside
    <3> QED  BY <2>5, <3>1, ReportsAside
  <2>6. CASE \E p \in Pipelines : PipelineNext(p)
    <3>1. PICK p \in Pipelines : PipelineNext(p)
      BY <2>6
    <3>2. \A q \in Pipelines \ {p} : ReportsOK(q)'
      BY <1>1, <2>5, <3>1, OthersAside
    <3>3. Follows(p)
      BY <2>2
    <3>4. ReportsOK(p)'
      BY <3>1, <3>3, QuietSteps, ClaimReports, ArriveReports, SubmitStoreReports, FlushReports,
         ReleaseFailedReports, ReleaseRestReports, FinishWaiterReports, FinishMappingReports,
         FinishOwedReports, FinishStoreReports DEF PipelineNext
    <3> QED  BY <2>4, <3>2, <3>4
  <2>7. CASE (\E t \in Tasks : StoreWork(t) \/ WriterWork(t)) \/ Terminated
    <3>1. \A p \in Pipelines : Aside(p)
      BY <2>7 DEF StoreWork, WriterWork, Terminated, Aside, vars, claimVars, taskVars, storeVars,
                  mapVars, goalVars, controlVars
    <3> QED  BY <2>4, <2>5, <3>1
  <2> QED  BY <1>3, <2>6, <2>7 DEF MCNext, Next
<1> QED  BY <1>2, <1>3

LEMMA InitReports ==
  MCInit => RInv
<1> SUFFICES ASSUME MCInit  PROVE RInv
  OBVIOUS
<1>1. IInv /\ Init
  BY InitIInv DEF MCInit
<1>2. arrived \in [Pipelines -> Seq(Tasks)]
  BY DEF MCInit
<1>3. ASSUME NEW p \in Pipelines  PROVE ReportsOK(p)
  <2>1. /\ pc[p] = "claim" /\ cursor[p] = 1 /\ pending[p] = {} /\ current[p] = None
        /\ storeQueue[p] = <<>> /\ results[p] = <<>> /\ batches[p] = <<>> /\ mapGoal[p] = "none"
        /\ owed[p] = None /\ emitting[p] = TRUE /\ emitted[p] = <<>> /\ arrived[p] = <<>>
    BY <1>1 DEF Init, MCInit
  <2>2. Owned(<<>>, waitsOn) = {} /\ \A i \in 1..Len(<<>>) : FALSE
    BY DEF Owned
  <2>3. ToldOK(p)
    BY <2>1, <2>2 DEF ToldOK, Distinct, Ordered
  <2>4. HandlingOK(p) /\ WaitersOK(p)
    BY <2>1 DEF HandlingOK, WaitersOK
  <2>5. CoverOK(p)
    <3>1. \A t \in TasksOf(p) : ~(t[2] < 1)
      <4> TAKE t \in TasksOf(p)
      <4>1. t[2] \in 1..NTasks[p] /\ NTasks[p] \in Nat
        BY TasksKnown, TasksAssumption DEF TasksOf
      <4> QED  BY <4>1
    <3> QED  BY <2>1, <3>1 DEF CoverOK
  <2>6. LineOK(p)
    <3>1. Count(<<>>, waitsOn) = 0
      BY <2>2, FS_EmptySet DEF Count
    <3> DEFINE g == [k \in 1..1 |-> 0]
    <3>2. LineAt(g, <<>>, 0, <<>>, <<>>, None, <<>>, None)
      BY DEF LineAt, After, InLine
    <3>3. Line(<<>>, 0, <<>>, <<>>, None, <<>>, None)
      BY <3>2 DEF Line
    <3> QED  BY <2>1, <3>1, <3>3 DEF LineOK
  <2> QED  BY <2>3, <2>4, <2>5, <2>6 DEF ReportsOK
<1> QED  BY <1>1, <1>2, <1>3 DEF RInv

LEMMA DistinctCount ==
  ASSUME NEW X, NEW e \in Seq(X), Distinct(e)
  PROVE  Cardinality({e[i][1] : i \in 1..Len(e)}) = Len(e)
<1> DEFINE E == {e[i][1] : i \in 1..Len(e)}
           f == [i \in 1..Len(e) |-> e[i][1]]
<1>1. Len(e) \in Nat /\ IsFiniteSet(1..Len(e)) /\ Cardinality(1..Len(e)) = Len(e)
  <2>1. Len(e) \in Nat
    OBVIOUS
  <2> DEFINE m == Len(e)
  <2> HIDE DEF m
  <2>2. m \in Nat
    BY <2>1 DEF m
  <2>3. IsFiniteSet(1..m) /\ Cardinality(1..m) = m
    BY <2>2, FS_Interval
  <2> QED  BY <2>1, <2>3 DEF m
<1>2. f \in Bijection(1..Len(e), E)
  BY DEF Bijection, Injection, Surjection, IsInjective, Distinct
<1>3. ExistsBijection(1..Len(e), E)
  BY <1>2 DEF ExistsBijection
<1> HIDE DEF E
<1>4. Cardinality(E) = Cardinality(1..Len(e))
  BY <1>1, <1>3, FS_Bijection
<1> QED  BY <1>1, <1>4 DEF E

\* A pipeline that is done has told the result of each of its tasks.
LEMMA AllTold ==
  ASSUME RInv, NEW p \in Pipelines, pc[p] = "done"
  PROVE  EmittedTasks(p) = TasksOf(p) /\ Cardinality(TasksOf(p)) = NTasks[p]
<1>1. TypeOK /\ Local(p) /\ ReportsOK(p) /\ NTasks[p] \in Nat
  BY PipelineKnown
<1>2. Drained(p) /\ pending[p] = {}
  BY <1>1 DEF Local, FlowOK
<1>3. Clean(p)
  BY <1>1, <1>2 DEF ReportsOK, HandlingOK, Clean, Drained
<1>4. ASSUME NEW t \in TasksOf(p)  PROVE t \in EmittedTasks(p)
  <2>1. ~Holds(p, t)
    BY <1>2, DrainedHoldsNothing DEF TasksOf
  <2> QED  BY <1>1, <1>3, <2>1 DEF ReportsOK, WaitersOK, CoverOK
<1>5. Cardinality(TasksOf(p)) = NTasks[p]
  <2> DEFINE f == [i \in 1..NTasks[p] |-> <<p, i>>]
  <2>1. /\ \A i \in 1..NTasks[p] : <<p, i>> \in TasksOf(p)
        /\ \A t \in TasksOf(p) : t[2] \in 1..NTasks[p] /\ t = <<p, t[2]>>
    BY TasksKnown DEF TasksOf
  <2>2. f \in Bijection(1..NTasks[p], TasksOf(p))
    BY <2>1 DEF Bijection, Injection, Surjection, IsInjective
  <2>3. ExistsBijection(1..NTasks[p], TasksOf(p))
    BY <2>2 DEF ExistsBijection
  <2> QED  BY <1>1, <2>3, FS_Interval, FS_Bijection
<1> QED  BY <1>4, <1>5, OwnTasks

LEMMA ReportsKept ==
  RInv => ReportsAreExact
<1> SUFFICES ASSUME RInv  PROVE ReportsAreExact
  OBVIOUS
<1>1. TypeOK
  BY DEF RInv, IInv
<1>2. ASSUME NEW p \in Pipelines
      PROVE  /\ EmittedTasks(p) \subseteq TasksOf(p)
             /\ Cardinality(EmittedTasks(p)) = Len(emitted[p])
             /\ \A i \in 1..Len(emitted[p]) :
                  waitsOn[emitted[p][i][1]] = None => claim[emitted[p][i][1]] = emitted[p][i][2]
             /\ pc[p] = "done" => Len(emitted[p]) = NTasks[p]
             /\ InOrder(p)
  <2>1. Local(p) /\ ToldOK(p) /\ emitted[p] \in Seq(Tasks \X {"ok", "failed"})
    BY PipelineKnown DEF ReportsOK
  <2>2. EmittedTasks(p) \subseteq TasksOf(p)
    BY OwnTasks
  <2>3. Cardinality(EmittedTasks(p)) = Len(emitted[p])
    BY <2>1, DistinctCount DEF ToldOK, EmittedTasks
  <2>4. \A i \in 1..Len(emitted[p]) :
          waitsOn[emitted[p][i][1]] = None => claim[emitted[p][i][1]] = emitted[p][i][2]
    BY <2>1 DEF Local, EmittedOK
  <2>5. pc[p] = "done" => Len(emitted[p]) = NTasks[p]
    BY <2>3, AllTold
  <2>6. InOrder(p)
    BY <2>1 DEF ToldOK, Ordered, InOrder, Owned, OwnedTo, OwnReports, UpTo
  <2> QED  BY <2>2, <2>3, <2>4, <2>5, <2>6
<1>3. ReportedOnce
  BY <1>2 DEF ReportedOnce
<1> QED  BY <1>1, <1>2, <1>3 DEF ReportsAreExact

\* Each task of a pipeline is reported once, with the result of its claim, all of
\* them when the pipeline returns, and in the order in which the downloads finished
\* (_download_owned_tasks, _finish_mapping_batch, _finish_store_result,
\* _finish_waiters), for any threads, tasks, limits and faults.
THEOREM ReportsStayExact == MCSpec => []ReportsAreExact
<1>1. MCInit => RInv
  BY InitReports
<1>2. RInv /\ [MCNext]_<<vars, arrived>> => RInv'
  BY NextReports
<1>3. RInv => ReportsAreExact
  BY ReportsKept
<1> QED  BY <1>1, <1>2, <1>3, PTL DEF MCSpec
=============================================================================
