------------------------ MODULE ImageIndexWriterProofs ------------------------
(***************************************************************************)
(* The index writer keeps the promise its callers rely on, for any         *)
(* requests, sizes and capacities: it implements MappingWriter; and the    *)
(* store pool loses no work, for any clients, workers and work.            *)
(***************************************************************************)
EXTENDS MCImageIndexWriter, FiniteSetTheorems, SequenceTheorems, TLAPS

In(x, s) == \E i \in 1..Len(s) : s[i] = x
Once(s) == \A i, j \in 1..Len(s) : s[i] = s[j] => i = j

\* What is pending is in one place, and nothing else is on its way.
HeldOK ==
  /\ Once(queue) /\ Once(requests)
  /\ \A r \in Requests : ~(In(r, queue) /\ In(r, requests))
  /\ \A r \in Requests : future[r] = "pending" <=> In(r, queue) \/ In(r, requests)

\* A call of submit() that has not returned has no future; a pending one has
\* the rows of its request.
CallsOK ==
  \A r \in Requests :
    /\ submitter[r] # "submitted" => future[r] = "none" /\ rows[r] = {}
    /\ future[r] = "pending" => rows[r] = RowsOf(r)

\* The rows of the batch: of its requests, and committed or still unwritten.
BatchRows == UNION {RowsOf(r) : r \in {q \in Requests : In(q, requests)}}
BatchOK ==
  /\ thread \notin {"coalesce", "write", "fail"} => requests = <<>>
  /\ thread \in {"coalesce", "write"} =>
       ToSet(unwritten) \subseteq BatchRows /\ BatchRows \subseteq durable \union ToSet(unwritten)

CloseOK ==
  /\ closer \in {"open", "put"} => ~In(Stop, queue)
  /\ closer # "open" => closed
  /\ CloseAfterSubmits /\ closer # "open" => \A r \in Requests : submitter[r] # "put"
  /\ CloseAfterSubmits => NothingBehindStop

IInv == TypeOK /\ HeldOK /\ CallsOK /\ BatchOK /\ CloseOK

-----------------------------------------------------------------------------
(* Sequences without repetition.                                           *)

LEMMA AppendOnce ==
  ASSUME NEW S, NEW s \in Seq(S), NEW x \in S, Once(s), ~In(x, s)
  PROVE  /\ Append(s, x) \in Seq(S) /\ Len(Append(s, x)) = Len(s) + 1
         /\ Once(Append(s, x)) /\ \A y : In(y, Append(s, x)) <=> In(y, s) \/ y = x
<1> DEFINE t == Append(s, x)
<1>1. /\ t \in Seq(S) /\ Len(t) = Len(s) + 1 /\ Len(s) \in Nat
      /\ t[Len(s) + 1] = x /\ \A i \in 1..Len(s) : t[i] = s[i]
  OBVIOUS
<1> HIDE DEF t
<1>2. Once(t)
  BY <1>1 DEF Once, In
<1>3. ASSUME NEW y  PROVE In(y, t) <=> In(y, s) \/ y = x
  <2>1. ASSUME In(y, t)  PROVE In(y, s) \/ y = x
    BY <1>1, <2>1 DEF In
  <2>2. ASSUME In(y, s)  PROVE In(y, t)
    BY <1>1, <2>2 DEF In
  <2>3. In(x, t)
    BY <1>1 DEF In
  <2> QED  BY <2>1, <2>2, <2>3
<1> QED  BY <1>1, <1>2, <1>3 DEF t

LEMMA TailOnce ==
  ASSUME NEW S, NEW s \in Seq(S), s # <<>>, Once(s)
  PROVE  /\ Head(s) \in S /\ In(Head(s), s)
         /\ Tail(s) \in Seq(S) /\ Len(Tail(s)) = Len(s) - 1
         /\ Once(Tail(s)) /\ \A y : In(y, Tail(s)) <=> In(y, s) /\ y # Head(s)
<1> DEFINE t == Tail(s)
<1>1. /\ t \in Seq(S) /\ Len(t) = Len(s) - 1 /\ Len(s) \in Nat /\ Len(s) # 0
      /\ \A i \in 1..(Len(s) - 1) : t[i] = s[i + 1]
  OBVIOUS
<1>2. Head(s) = s[1] /\ s[1] \in S /\ 1 \in 1..Len(s)
  BY <1>1
<1> HIDE DEF t
<1>3. Once(t)
  <2> SUFFICES ASSUME NEW i \in 1..Len(t), NEW j \in 1..Len(t), t[i] = t[j]  PROVE i = j
    BY DEF Once
  <2>1. i + 1 \in 1..Len(s) /\ j + 1 \in 1..Len(s) /\ s[i + 1] = s[j + 1]
    BY <1>1
  <2>2. i + 1 = j + 1
    BY <2>1 DEF Once
  <2> QED  BY <1>1, <2>2
<1>4. ASSUME NEW y  PROVE In(y, t) <=> In(y, s) /\ y # Head(s)
  <2>1. ASSUME In(y, t)  PROVE In(y, s) /\ y # Head(s)
    <3>1. PICK i \in 1..Len(t) : t[i] = y
      BY <2>1 DEF In
    <3>2. i + 1 \in 1..Len(s) /\ s[i + 1] = y /\ i + 1 # 1
      BY <1>1, <3>1
    <3>3. y # s[1]
      BY <1>2, <3>2 DEF Once
    <3> QED  BY <1>2, <3>2, <3>3 DEF In
  <2>2. ASSUME In(y, s), y # Head(s)  PROVE In(y, t)
    <3>1. PICK i \in 1..Len(s) : s[i] = y
      BY <2>2 DEF In
    <3>2. i - 1 \in 1..Len(t) /\ t[i - 1] = y
      BY <1>1, <1>2, <2>2, <3>1
    <3> QED  BY <3>2 DEF In
  <2> QED  BY <2>1, <2>2
<1>5. In(Head(s), s)
  BY <1>2 DEF In
<1> QED  BY <1>1, <1>2, <1>3, <1>4, <1>5 DEF t

LEMMA EmptyOnce ==
  Once(<<>>) /\ \A y : ~In(y, <<>>)
BY DEF Once, In

LEMMA OneOnce ==
  ASSUME NEW S, NEW x \in S
  PROVE  <<x>> \in Seq(S) /\ Once(<<x>>) /\ \A y : In(y, <<x>>) <=> y = x
BY DEF Once, In

LEMMA RowSeqRows ==
  ASSUME NEW r \in Requests
  PROVE  RowSeq(r) \in Seq(Rows) /\ ToSet(RowSeq(r)) = RowsOf(r) /\ RowsOf(r) \subseteq Rows
<1>1. RowCount[r] \in Nat
  BY WriterAssumption
<1>2. RowsOf(r) \subseteq Rows
  BY DEF Rows
<1>3. \A k \in 1..RowCount[r] : <<r, k>> \in RowsOf(r)
  BY DEF RowsOf
<1>4. RowSeq(r) \in Seq(Rows) /\ DOMAIN RowSeq(r) = 1..RowCount[r]
  BY <1>1, <1>2, <1>3 DEF RowSeq
<1>5. ToSet(RowSeq(r)) = RowsOf(r)
  BY <1>4 DEF ToSet, RowSeq, RowsOf
<1> QED  BY <1>2, <1>4, <1>5

LEMMA ToSetConcat ==
  ASSUME NEW S, NEW s \in Seq(S), NEW t \in Seq(S)
  PROVE  s \o t \in Seq(S) /\ ToSet(s \o t) = ToSet(s) \union ToSet(t)
<1> DEFINE u == s \o t
<1>1. /\ u \in Seq(S) /\ Len(u) = Len(s) + Len(t) /\ Len(s) \in Nat /\ Len(t) \in Nat
      /\ DOMAIN u = 1..Len(u) /\ DOMAIN s = 1..Len(s) /\ DOMAIN t = 1..Len(t)
      /\ \A i \in 1..Len(s) : u[i] = s[i]
      /\ \A i \in (Len(s) + 1)..Len(u) : u[i] = t[i - Len(s)]
  OBVIOUS
<1> HIDE DEF u
<1>2. ToSet(u) \subseteq ToSet(s) \union ToSet(t)
  <2> SUFFICES ASSUME NEW i \in 1..Len(u)  PROVE u[i] \in ToSet(s) \union ToSet(t)
    BY <1>1 DEF ToSet
  <2>1. CASE i <= Len(s)
    BY <1>1, <2>1 DEF ToSet
  <2>2. CASE i > Len(s)
    <3>1. i - Len(s) \in DOMAIN t /\ u[i] = t[i - Len(s)]
      BY <1>1, <2>2
    <3> QED  BY <3>1 DEF ToSet
  <2> QED  BY <1>1, <2>1, <2>2
<1>3. ToSet(s) \subseteq ToSet(u)
  BY <1>1 DEF ToSet
<1>4. ToSet(t) \subseteq ToSet(u)
  <2> SUFFICES ASSUME NEW i \in 1..Len(t)  PROVE t[i] \in ToSet(u)
    BY <1>1 DEF ToSet
  <2> DEFINE j == i + Len(s)
  <2>1. j \in (Len(s) + 1)..Len(u) /\ j \in DOMAIN u /\ j - Len(s) = i
    BY <1>1
  <2> HIDE DEF j
  <2>2. u[j] = t[i]
    BY <1>1, <2>1
  <2> QED  BY <2>1, <2>2 DEF ToSet
<1> QED  BY <1>1, <1>2, <1>3, <1>4 DEF u

LEMMA RestOf ==
  ASSUME NEW S, NEW u \in Seq(S), NEW n \in Nat, n <= Len(u)
  PROVE  /\ SubSeq(u, n + 1, Len(u)) \in Seq(S)
         /\ DOMAIN SubSeq(u, n + 1, Len(u)) = 1..(Len(u) - n)
         /\ \A i \in 1..(Len(u) - n) : SubSeq(u, n + 1, Len(u))[i] = u[i + n]
<1>1. PICK l \in Nat, m \in Nat : l = Len(u) /\ m = n + 1
  OBVIOUS
<1>2. \A i \in m..l : u[i] \in S
  BY <1>1
<1>3. /\ SubSeq(u, m, l) \in Seq(S)
      /\ Len(SubSeq(u, m, l)) = IF m <= l THEN l - m + 1 ELSE 0
      /\ \A i \in 1..(l - m + 1) : SubSeq(u, m, l)[i] = u[m + i - 1]
  BY <1>2, SubSeqProperties
<1>4. /\ n <= l /\ l - m + 1 = l - n
      /\ (IF m <= l THEN l - m + 1 ELSE 0) = l - n
  <2>1. n <= l /\ m = n + 1
    BY <1>1
  <2>2. CASE m <= l
    BY <2>1, <2>2
  <2>3. CASE ~(m <= l)
    BY <2>1, <2>3
  <2> QED  BY <2>2, <2>3
<1>5. \A i \in 1..(l - n) : m + i - 1 = i + n
  BY <1>1
<1>6. Len(SubSeq(u, m, l)) = l - n /\ \A i \in 1..(l - n) : SubSeq(u, m, l)[i] = u[i + n]
  BY <1>3, <1>4, <1>5
<1>7. DOMAIN SubSeq(u, m, l) = 1..(l - n)
  BY <1>3, <1>6, LenProperties
<1> QED  BY <1>1, <1>3, <1>6, <1>7

\* A transaction and what is left of the batch.
LEMMA ChunkRows ==
  ASSUME unwritten \in Seq(Rows), unwritten # <<>>
  PROVE  LET rest == SubSeq(unwritten, Len(Chunk) + 1, Len(unwritten)) IN
         /\ rest \in Seq(Rows) /\ ToSet(Chunk) # {}
         /\ ToSet(unwritten) = ToSet(Chunk) \union ToSet(rest)
<1> DEFINE u == unwritten
           n == IF Len(u) < MaxRows THEN Len(u) ELSE MaxRows
           rest == SubSeq(u, n + 1, Len(u))
<1>1. n \in 1..Len(u) /\ Len(u) \in Nat /\ DOMAIN u = 1..Len(u)
  BY WriterAssumption
<1> HIDE DEF n
<1>2. /\ DOMAIN Chunk = 1..n /\ Len(Chunk) = n /\ \A i \in 1..n : Chunk[i] = u[i]
  <2>1. Chunk = SubSeq(u, 1, n)
    BY DEF Chunk, n
  <2> QED  BY <1>1, <2>1
<1>3. /\ rest \in Seq(Rows) /\ DOMAIN rest = 1..(Len(u) - n)
      /\ \A i \in 1..(Len(u) - n) : rest[i] = u[i + n]
  BY <1>1, RestOf
<1> HIDE DEF rest
<1>4. ToSet(Chunk) # {}
  <2>1. 1 \in DOMAIN Chunk
    BY <1>1, <1>2
  <2> QED  BY <2>1 DEF ToSet
<1>5. ToSet(Chunk) \subseteq ToSet(u)
  BY <1>1, <1>2 DEF ToSet
<1>6. ToSet(rest) \subseteq ToSet(u)
  <2> SUFFICES ASSUME NEW i \in 1..(Len(u) - n)  PROVE rest[i] \in ToSet(u)
    BY <1>3 DEF ToSet
  <2>1. i + n \in DOMAIN u /\ rest[i] = u[i + n]
    BY <1>1, <1>3
  <2> QED  BY <2>1 DEF ToSet
<1>7. ToSet(u) \subseteq ToSet(Chunk) \union ToSet(rest)
  <2> SUFFICES ASSUME NEW i \in 1..Len(u)  PROVE u[i] \in ToSet(Chunk) \union ToSet(rest)
    BY <1>1 DEF ToSet
  <2>1. CASE i <= n
    BY <1>1, <1>2, <2>1 DEF ToSet
  <2>2. CASE i > n
    <3>1. i - n \in DOMAIN rest /\ rest[i - n] = u[i]
      BY <1>1, <1>3, <2>2
    <3> QED  BY <3>1 DEF ToSet
  <2> QED  BY <1>1, <2>1, <2>2
<1> QED  BY <1>2, <1>3, <1>4, <1>5, <1>6, <1>7 DEF rest, u

-----------------------------------------------------------------------------
(* The inductive invariant, and what every step does to the promise.       *)

Simulates == [Promise!WriterNext]_indexVars

LEMMA InitOK == Init => IInv /\ Promise!WriterInit
<1> SUFFICES ASSUME Init PROVE IInv /\ Promise!WriterInit
  OBVIOUS
<1>1. TypeOK
  <2>1. queue \in Seq(Requests \union {Stop}) /\ Len(queue) = 0 /\ 0 <= QueueCapacity
        /\ requests \in Seq(Requests) /\ unwritten \in Seq(Rows)
    BY WriterAssumption DEF Init
  <2> QED  BY <2>1 DEF Init, TypeOK
<1>2. HeldOK
  BY EmptyOnce DEF Init, HeldOK
<1>3. CallsOK /\ BatchOK
  BY DEF Init, CallsOK, BatchOK
<1>4. CloseOK
  BY EmptyOnce DEF Init, CloseOK, NothingBehindStop
<1>5. Promise!WriterInit
  BY DEF Init, Promise!WriterInit
<1> QED  BY <1>1, <1>2, <1>3, <1>4, <1>5 DEF IInv

LEMMA SubmitNothingOK ==
  ASSUME IInv, NEW r \in Requests, SubmitNothing(r)
  PROVE  IInv' /\ Simulates
<1> USE DEF SubmitNothing, SubmitterAt, Answer, threadVars
<1>1. future[r] = "none" /\ rows[r] = {} /\ ~In(r, queue) /\ ~In(r, requests)
  BY DEF IInv, CallsOK, HeldOK
<1>2. TypeOK'
  BY DEF IInv, TypeOK
<1>3. HeldOK'
  BY <1>1 DEF IInv, HeldOK, TypeOK
<1>4. CallsOK'
  BY <1>1 DEF IInv, CallsOK, TypeOK
<1>5. BatchOK' /\ CloseOK'
  BY DEF IInv, BatchOK, BatchRows, CloseOK, NothingBehindStop, TypeOK
<1>6. Simulates
  <2>1. Promise!Submit(r, {}, "done")
    BY <1>1 DEF Promise!Submit, IInv, TypeOK
  <2> QED  BY <2>1 DEF Simulates, Promise!WriterNext
<1> QED  BY <1>2, <1>3, <1>4, <1>5, <1>6 DEF IInv

LEMMA EnsureStartedOK ==
  ASSUME IInv, NEW r \in Requests, EnsureStarted(r)
  PROVE  IInv' /\ Simulates
<1> USE DEF EnsureStarted, SubmitterAt, Answer
<1>1. future[r] = "none" /\ rows[r] = {} /\ ~In(r, queue) /\ ~In(r, requests)
  BY DEF IInv, CallsOK, HeldOK
<1>2. TypeOK'
  BY RowSeqRows DEF IInv, TypeOK
<1>3. HeldOK'
  BY <1>1 DEF IInv, HeldOK, TypeOK
<1>4. CallsOK'
  BY <1>1 DEF IInv, CallsOK, TypeOK
<1>5. BatchOK'
  BY DEF IInv, BatchOK, BatchRows
<1>6. CloseOK'
  BY DEF IInv, CloseOK, NothingBehindStop, TypeOK, Refuses
<1>7. Simulates
  <2>1. CASE Refuses
    <3>1. Promise!Submit(r, RowsOf(r), "failed")
      BY <1>1, <2>1 DEF Promise!Submit
    <3> QED  BY <3>1, RowSeqRows DEF Simulates, Promise!WriterNext
  <2>2. CASE ~Refuses
    BY <2>2 DEF Simulates, indexVars
  <2> QED  BY <2>1, <2>2
<1> QED  BY <1>2, <1>3, <1>4, <1>5, <1>6, <1>7 DEF IInv

LEMMA PutRequestOK ==
  ASSUME IInv, NEW r \in Requests, PutRequest(r)
  PROVE  IInv' /\ Simulates
<1> USE DEF PutRequest, SubmitterAt, Answer, threadVars
<1>1. future[r] = "none" /\ rows[r] = {} /\ ~In(r, queue) /\ ~In(r, requests)
  BY DEF IInv, CallsOK, HeldOK
<1>2. /\ queue' \in Seq(Requests \union {Stop}) /\ Len(queue') = Len(queue) + 1
      /\ Once(queue') /\ \A y : In(y, queue') <=> In(y, queue) \/ y = r
  BY <1>1, AppendOnce DEF IInv, TypeOK, HeldOK
<1>3. TypeOK'
  BY <1>2, RowSeqRows, WriterAssumption DEF IInv, TypeOK, HasRoom
<1>4. HeldOK'
  BY <1>1, <1>2 DEF IInv, HeldOK, TypeOK
<1>5. CallsOK'
  BY <1>1 DEF IInv, CallsOK, TypeOK
<1>6. BatchOK'
  BY DEF IInv, BatchOK, BatchRows
<1>7. CloseOK'
  <2>1. r # Stop
    BY WriterAssumption
  <2>2. CloseAfterSubmits => closer = "open" /\ ~In(Stop, queue')
    BY <1>2, <2>1 DEF IInv, CloseOK, TypeOK
  <2>3. CloseAfterSubmits => NothingBehindStop'
    BY <2>2 DEF NothingBehindStop, In
  <2> QED  BY <1>2, <2>1, <2>2, <2>3 DEF IInv, CloseOK, TypeOK
<1>8. Simulates
  <2>1. Promise!Submit(r, RowsOf(r), "pending")
    BY <1>1 DEF Promise!Submit
  <2> QED  BY <2>1, RowSeqRows DEF Simulates, Promise!WriterNext
<1> QED  BY <1>3, <1>4, <1>5, <1>6, <1>7, <1>8 DEF IInv

LEMMA ConnectOK ==
  ASSUME IInv, Connect
  PROVE  IInv' /\ Simulates
<1> USE DEF Connect, AfterFatal, indexVars
<1>1. TypeOK' /\ HeldOK' /\ CallsOK'
  BY DEF IInv, TypeOK, HeldOK, CallsOK
<1>2. BatchOK' /\ CloseOK'
  BY DEF IInv, BatchOK, CloseOK, NothingBehindStop
<1> QED  BY <1>1, <1>2 DEF IInv, Simulates

\* What is left when the thread takes the first item of the queue.
LEMMA TakenOK ==
  ASSUME IInv, queue # <<>>, queue' = Tail(queue)
  PROVE  /\ Head(queue) \in Requests \union {Stop} /\ In(Head(queue), queue)
         /\ queue' \in Seq(Requests \union {Stop}) /\ Len(queue') <= QueueCapacity
         /\ Once(queue') /\ \A y : In(y, queue') <=> In(y, queue) /\ y # Head(queue)
         /\ NothingBehindStop => NothingBehindStop'
<1>1. /\ Head(queue) \in Requests \union {Stop} /\ In(Head(queue), queue)
      /\ queue' \in Seq(Requests \union {Stop}) /\ Len(queue') = Len(queue) - 1
      /\ Once(queue') /\ \A y : In(y, queue') <=> In(y, queue) /\ y # Head(queue)
  BY TailOnce DEF IInv, TypeOK, HeldOK
<1>2. Len(queue) \in Nat /\ Len(queue) # 0 /\ \A i \in 1..(Len(queue) - 1) : queue'[i] = queue[i + 1]
  BY DEF IInv, TypeOK
<1>3. ASSUME NothingBehindStop  PROVE NothingBehindStop'
  <2> SUFFICES ASSUME NEW i \in 1..Len(queue'), queue'[i] = Stop  PROVE i = Len(queue')
    BY DEF NothingBehindStop
  <2>1. i + 1 \in 1..Len(queue) /\ queue[i + 1] = Stop
    BY <1>1, <1>2
  <2>2. i + 1 = Len(queue)
    BY <1>3, <2>1 DEF NothingBehindStop
  <2>3. PICK m \in Nat, n \in Nat : m = Len(queue') /\ n = Len(queue) /\ m = n - 1
    <3>1. Len(queue) - 1 \in Nat
      BY <1>2
    <3> QED  BY <1>1, <1>2, <3>1
  <2>4. i \in Nat
    BY <2>3
  <2>5. i + 1 = n
    BY <2>2, <2>3
  <2>6. i = m
    BY <2>3, <2>4, <2>5
  <2> QED  BY <2>3, <2>6
<1> QED  BY <1>1, <1>2, <1>3, WriterAssumption DEF IInv, TypeOK

LEMMA GetOK ==
  ASSUME IInv, Get
  PROVE  IInv' /\ Simulates
<1> USE DEF Get, indexVars
<1>1. /\ Head(queue) \in Requests \union {Stop} /\ In(Head(queue), queue)
      /\ queue' \in Seq(Requests \union {Stop}) /\ Len(queue') <= QueueCapacity
      /\ Once(queue') /\ \A y : In(y, queue') <=> In(y, queue) /\ y # Head(queue)
      /\ NothingBehindStop => NothingBehindStop'
  BY TakenOK
<1>2. requests = <<>> /\ \A y : ~In(y, requests)
  BY EmptyOnce DEF IInv, BatchOK
<1>3. CloseOK' /\ CallsOK'
  BY <1>1 DEF IInv, CloseOK, CallsOK
<1>4. CASE Head(queue) = Stop
  <2>1. TypeOK'
    BY <1>1, <1>4 DEF IInv, TypeOK
  <2>2. HeldOK'
    BY <1>1, <1>4, WriterAssumption DEF IInv, HeldOK
  <2>3. BatchOK'
    BY <1>2, <1>4 DEF BatchOK
  <2> QED  BY <1>3, <2>1, <2>2, <2>3 DEF IInv, Simulates
<1>5. CASE Head(queue) # Stop
  <2>1. PICK r \in Requests : r = Head(queue)
    BY <1>1, <1>5
  <2>2. requests' \in Seq(Requests) /\ Once(requests') /\ \A y : In(y, requests') <=> y = r
    <3>1. requests' = <<r>>
      BY <1>5, <2>1
    <3> QED  BY <3>1, OneOnce
  <2>3. unwritten' \in Seq(Rows) /\ ToSet(unwritten') = RowsOf(r)
    BY <1>5, <2>1, RowSeqRows
  <2>4. TypeOK'
    BY <1>1, <1>5, <2>2, <2>3 DEF IInv, TypeOK
  <2>5. HeldOK'
    BY <1>1, <1>2, <2>1, <2>2 DEF IInv, HeldOK
  <2>6. BatchRows' = RowsOf(r)
    BY <2>2 DEF BatchRows
  <2>7. BatchOK'
    BY <1>5, <2>3, <2>6 DEF BatchOK
  <2> QED  BY <1>3, <2>4, <2>5, <2>7 DEF IInv, Simulates
<1> QED  BY <1>4, <1>5

LEMMA CoalesceOK ==
  ASSUME IInv, Coalesce
  PROVE  IInv' /\ Simulates
<1> USE DEF Coalesce, indexVars
<1>1. CallsOK'
  BY DEF IInv, CallsOK
<1>2. CASE Len(unwritten) >= MaxRows \/ queue = <<>>
  BY <1>1, <1>2 DEF IInv, TypeOK, HeldOK, BatchOK, BatchRows, CloseOK, NothingBehindStop, Simulates
<1>3. CASE ~(Len(unwritten) >= MaxRows \/ queue = <<>>)
  <2>1. /\ Head(queue) \in Requests \union {Stop} /\ In(Head(queue), queue)
        /\ queue' \in Seq(Requests \union {Stop}) /\ Len(queue') <= QueueCapacity
        /\ Once(queue') /\ \A y : In(y, queue') <=> In(y, queue) /\ y # Head(queue)
        /\ NothingBehindStop => NothingBehindStop'
    BY <1>3, TakenOK
  <2>2. CloseOK'
    BY <2>1 DEF IInv, CloseOK
  <2>3. CASE Head(queue) = Stop
    <3>1. TypeOK'
      BY <1>3, <2>1, <2>3 DEF IInv, TypeOK, StopSeen
    <3>2. HeldOK'
      BY <1>3, <2>1, <2>3, WriterAssumption DEF IInv, HeldOK
    <3>3. BatchOK'
      BY <1>3, <2>3 DEF IInv, BatchOK, BatchRows
    <3> QED  BY <1>1, <2>2, <3>1, <3>2, <3>3 DEF IInv, Simulates
  <2>4. CASE Head(queue) # Stop
    <3>1. PICK r \in Requests : r = Head(queue)
      BY <2>1, <2>4
    <3>2. requests' = Append(requests, r) /\ unwritten' = unwritten \o RowSeq(r)
          /\ thread' = thread /\ stopping' = stopping
      BY <1>3, <2>4, <3>1 DEF JoinBatch
    <3>3. requests' \in Seq(Requests) /\ Once(requests')
          /\ \A y : In(y, requests') <=> In(y, requests) \/ y = r
      BY <2>1, <3>1, <3>2, AppendOnce DEF IInv, TypeOK, HeldOK
    <3>4. unwritten' \in Seq(Rows) /\ ToSet(unwritten') = ToSet(unwritten) \union RowsOf(r)
      BY <3>2, RowSeqRows, ToSetConcat DEF IInv, TypeOK
    <3>5. TypeOK'
      BY <2>1, <3>2, <3>3, <3>4 DEF IInv, TypeOK
    <3>6. HeldOK'
      BY <2>1, <3>1, <3>3 DEF IInv, HeldOK
    <3>7. BatchRows' = BatchRows \union RowsOf(r)
      BY <3>3 DEF BatchRows
    <3>8. BatchOK'
      BY <3>2, <3>4, <3>7 DEF IInv, BatchOK
    <3> QED  BY <1>1, <2>2, <3>5, <3>6, <3>8 DEF IInv, Simulates
  <2> QED  BY <2>3, <2>4
<1> QED  BY <1>2, <1>3

\* A transaction commits rows of pending requests.
LEMMA WriteOK ==
  ASSUME IInv, Write
  PROVE  IInv' /\ Simulates
<1> USE DEF Write
<1>1. HeldOK' /\ CallsOK' /\ CloseOK'
  BY DEF IInv, HeldOK, CallsOK, CloseOK, NothingBehindStop
<1>2. CASE thread' = "fail" /\ UNCHANGED <<durable, unwritten>>
  BY <1>1, <1>2 DEF IInv, TypeOK, BatchOK, Simulates, indexVars
<1>3. CASE /\ durable' = durable \union ToSet(Chunk)
           /\ unwritten' = SubSeq(unwritten, Len(Chunk) + 1, Len(unwritten))
           /\ UNCHANGED thread
  <2>1. /\ unwritten' \in Seq(Rows) /\ ToSet(Chunk) # {}
        /\ ToSet(unwritten) = ToSet(Chunk) \union ToSet(unwritten')
    BY <1>3, ChunkRows DEF IInv, TypeOK
  <2>2. ToSet(unwritten) \subseteq BatchRows /\ BatchRows \subseteq durable \union ToSet(unwritten)
    BY DEF IInv, BatchOK
  <2>3. BatchRows \subseteq Rows
    BY RowSeqRows DEF BatchRows
  <2>4. TypeOK'
    BY <1>3, <2>1, <2>2, <2>3 DEF IInv, TypeOK
  <2>5. BatchRows' = BatchRows
    BY DEF BatchRows
  <2>6. BatchOK'
    BY <1>3, <2>1, <2>2, <2>5 DEF IInv, BatchOK
  <2>7. BatchRows \subseteq Promise!PendingRows
    BY DEF BatchRows, Promise!PendingRows, IInv, HeldOK, CallsOK
  <2>8. Promise!Commit(ToSet(Chunk))
    BY <1>3, <2>1, <2>2, <2>7 DEF Promise!Commit
  <2>9. Simulates
    BY <2>1, <2>2, <2>3, <2>8 DEF Simulates, Promise!WriterNext
  <2> QED  BY <1>1, <2>4, <2>6, <2>9 DEF IInv
<1> QED  BY <1>2, <1>3

\* Success is answered when all rows of the batch are committed.
LEMMA ResolveOK ==
  ASSUME IInv, Resolve
  PROVE  IInv' /\ Simulates
<1> USE DEF Resolve, Answer
<1>1. CloseOK'
  BY DEF IInv, CloseOK, NothingBehindStop
<1>2. CASE requests = <<>>
  <2>1. TypeOK' /\ HeldOK' /\ CallsOK' /\ BatchOK'
    BY <1>2 DEF IInv, TypeOK, HeldOK, CallsOK, BatchOK
  <2> QED  BY <1>1, <1>2, <2>1 DEF IInv, Simulates, indexVars
<1>3. CASE requests # <<>>
  <2>1. PICK r \in Requests : r = Head(requests) /\ In(r, requests)
    BY <1>3, TailOnce DEF IInv, TypeOK, HeldOK
  <2>2. /\ requests' \in Seq(Requests) /\ Once(requests')
        /\ \A y : In(y, requests') <=> In(y, requests) /\ y # r
    <3>1. requests' = Tail(requests) /\ requests \in Seq(Requests) /\ Once(requests)
      BY <1>3 DEF IInv, TypeOK, HeldOK
    <3> HIDE DEF Resolve
    <3> QED  BY <1>3, <2>1, <3>1, TailOnce
  <2>3. /\ future' = [future EXCEPT ![r] = AnswerOf(thread)] /\ thread' = thread
        /\ unwritten' = unwritten
    BY <1>3, <2>1
  <2>4. future[r] = "pending" /\ rows[r] = RowsOf(r)
    BY <2>1 DEF IInv, HeldOK, CallsOK
  <2>5. AnswerOf(thread) \in {"done", "failed"}
    BY DEF AnswerOf
  <2>6. TypeOK'
    BY <2>2, <2>3, <2>5 DEF IInv, TypeOK
  <2>7. HeldOK'
    BY <2>1, <2>2, <2>3, <2>5 DEF IInv, HeldOK, TypeOK
  <2>8. CallsOK'
    BY <2>3, <2>4, <2>5 DEF IInv, CallsOK, TypeOK
  <2>9. BatchRows' \subseteq BatchRows
    BY <2>2 DEF BatchRows
  <2>10. BatchOK'
    BY <2>3, <2>9 DEF IInv, BatchOK, ToSet
  <2>11. Simulates
    <3>1. CASE thread = "fail"
      <4>1. Promise!Fail(r)
        BY <2>3, <2>4, <3>1 DEF Promise!Fail, AnswerOf
      <4> QED  BY <4>1 DEF Simulates, Promise!WriterNext
    <3>2. CASE thread = "write" /\ unwritten = <<>>
      <4>1. RowsOf(r) \subseteq durable
        BY <2>1, <3>2 DEF IInv, BatchOK, BatchRows, ToSet
      <4>2. Promise!Succeed(r)
        BY <2>3, <2>4, <3>2, <4>1 DEF Promise!Succeed, AnswerOf
      <4> QED  BY <4>2 DEF Simulates, Promise!WriterNext
    <3> QED  BY <3>1, <3>2
  <2> QED  BY <1>1, <2>6, <2>7, <2>8, <2>10, <2>11 DEF IInv
<1> QED  BY <1>2, <1>3

LEMMA FailQueuedOK ==
  ASSUME IInv, FailQueued
  PROVE  IInv' /\ Simulates
<1> USE DEF FailQueued, Answer
<1>1. /\ Head(queue) \in Requests \union {Stop} /\ In(Head(queue), queue)
      /\ queue' \in Seq(Requests \union {Stop}) /\ Len(queue') <= QueueCapacity
      /\ Once(queue') /\ \A y : In(y, queue') <=> In(y, queue) /\ y # Head(queue)
      /\ NothingBehindStop => NothingBehindStop'
  BY TakenOK
<1>2. CloseOK' /\ BatchOK'
  BY <1>1 DEF IInv, CloseOK, BatchOK
<1>3. CASE Head(queue) = Stop
  <2>1. TypeOK' /\ CallsOK'
    BY <1>1, <1>3 DEF IInv, TypeOK, CallsOK
  <2>2. HeldOK'
    BY <1>1, <1>3, WriterAssumption DEF IInv, HeldOK
  <2> QED  BY <1>2, <1>3, <2>1, <2>2 DEF IInv, Simulates, indexVars
<1>4. CASE Head(queue) # Stop
  <2>1. PICK r \in Requests : r = Head(queue)
    BY <1>1, <1>4
  <2>2. future' = [future EXCEPT ![r] = "failed"] /\ future[r] = "pending"
    BY <1>1, <1>4, <2>1 DEF IInv, HeldOK
  <2>3. TypeOK' /\ CallsOK'
    BY <1>1, <1>4, <2>2 DEF IInv, TypeOK, CallsOK
  <2>4. HeldOK'
    BY <1>1, <2>1, <2>2 DEF IInv, HeldOK, TypeOK
  <2>5. Promise!Fail(r)
    BY <2>2 DEF Promise!Fail
  <2> QED  BY <1>2, <2>3, <2>4, <2>5 DEF IInv, Simulates, Promise!WriterNext
<1> QED  BY <1>3, <1>4

LEMMA CloseStepsOK ==
  ASSUME IInv, BeginClose \/ Join
  PROVE  IInv' /\ Simulates
<1> USE DEF BeginClose, Join, threadVars, indexVars
<1>1. TypeOK' /\ HeldOK'
  BY DEF IInv, TypeOK, HeldOK
<1>2. CallsOK' /\ BatchOK'
  BY DEF IInv, CallsOK, BatchOK, BatchRows
<1>3. CloseOK'
  BY DEF IInv, TypeOK, CloseOK, NothingBehindStop
<1> QED  BY <1>1, <1>2, <1>3 DEF IInv, Simulates

LEMMA PutStopOK ==
  ASSUME IInv, PutStop
  PROVE  IInv' /\ Simulates
<1> USE DEF PutStop, threadVars, indexVars
<1>1. ~In(Stop, queue)
  BY DEF IInv, CloseOK
<1>2. /\ queue' \in Seq(Requests \union {Stop}) /\ Len(queue') = Len(queue) + 1
      /\ Once(queue') /\ \A y : In(y, queue') <=> In(y, queue) \/ y = Stop
  BY <1>1, AppendOnce DEF IInv, TypeOK, HeldOK
<1>3. TypeOK'
  BY <1>2, WriterAssumption DEF IInv, TypeOK, HasRoom
<1>4. HeldOK'
  BY <1>2, WriterAssumption DEF IInv, HeldOK
<1>5. CallsOK' /\ BatchOK'
  BY DEF IInv, CallsOK, BatchOK, BatchRows
<1>6. CloseOK'
  <2>1. NothingBehindStop'
    <3> SUFFICES ASSUME NEW i \in 1..Len(queue'), queue'[i] = Stop  PROVE i = Len(queue')
      BY DEF NothingBehindStop
    <3>1. Len(queue) \in Nat /\ \A j \in 1..Len(queue) : queue'[j] = queue[j]
      BY DEF IInv, TypeOK
    <3> QED  BY <1>1, <1>2, <3>1 DEF In
  <2> QED  BY <2>1 DEF IInv, CloseOK, TypeOK
<1> QED  BY <1>3, <1>4, <1>5, <1>6 DEF IInv, Simulates

LEMMA StepOK == IInv /\ [Next]_vars => IInv' /\ Simulates
<1> SUFFICES ASSUME IInv, [Next]_vars PROVE IInv' /\ Simulates
  OBVIOUS
<1>1. CASE UNCHANGED vars
  <2>1. TypeOK' /\ HeldOK' /\ CallsOK' /\ BatchOK' /\ CloseOK'
    BY <1>1 DEF vars, threadVars, indexVars, IInv, TypeOK, HeldOK, CallsOK, BatchOK, BatchRows,
                CloseOK, NothingBehindStop
  <2> QED  BY <1>1, <2>1 DEF IInv, Simulates, vars
<1>2. CASE Next
  BY <1>1, <1>2, SubmitNothingOK, EnsureStartedOK, PutRequestOK, ConnectOK, GetOK, CoalesceOK,
     WriteOK, ResolveOK, FailQueuedOK, CloseStepsOK, PutStopOK DEF Next, Terminated
<1> QED  BY <1>1, <1>2

\* The inductive invariant: where requests wait, what the batch still has to
\* write, and who may put what while the writer closes.
\* (MappingIndexWriter, image_index_writer.py.)
THEOREM Invariance == Spec => []IInv
BY InitOK, StepOK, PTL DEF Spec

-----------------------------------------------------------------------------

\* A future that is done means committed rows, whatever the submitters, the
\* batches and the failures.  (submit, _thread_main, close, image_index_writer.py.)
THEOREM WriterKeepsItsPromise == Spec => ImplementsMappingWriter
<1>1. Init => Promise!WriterInit
  BY InitOK
<1>2. IInv /\ [Next]_vars => [Promise!WriterNext]_(Promise!writerVars)
  BY StepOK DEF Simulates, indexVars, Promise!writerVars
<1> QED  BY <1>1, <1>2, Invariance, PTL DEF Spec, ImplementsMappingWriter, Promise!WriterSpec

LEMMA HeldOnce == IInv => PendingHeldOnce
<1> SUFFICES ASSUME IInv, NEW r \in Requests
             PROVE  future[r] = "pending" <=>
                      Cardinality({i \in 1..Len(queue \o requests) :
                                     (queue \o requests)[i] = r}) = 1
  BY DEF PendingHeldOnce
<1> DEFINE h == queue \o requests
           Places == {i \in 1..Len(h) : h[i] = r}
<1>1. PICK n \in Nat, m \in Nat : n = Len(queue) /\ m = Len(requests)
  BY DEF IInv, TypeOK
<1>2. /\ Len(h) = n + m /\ \A i \in 1..n : h[i] = queue[i]
      /\ \A i \in (n + 1)..(n + m) : h[i] = requests[i - n]
  BY <1>1 DEF IInv, TypeOK
<1> HIDE DEF h
<1>3. ASSUME NEW i \in Places
      PROVE  (i \in 1..n /\ queue[i] = r) \/ (i - n \in 1..m /\ requests[i - n] = r)
  <2>1. i \in 1..(n + m) /\ h[i] = r
    BY <1>2
  <2>2. CASE i <= n
    BY <1>2, <2>1, <2>2
  <2>3. CASE ~(i <= n)
    <3>1. i \in (n + 1)..(n + m) /\ i - n \in 1..m
      BY <2>1, <2>3
    <3> QED  BY <1>2, <2>1, <3>1
  <2> QED  BY <2>2, <2>3
<1>4. CASE ~(In(r, queue) \/ In(r, requests))
  <2>1. Places = {}
    BY <1>1, <1>2, <1>3, <1>4 DEF In
  <2> QED  BY <1>4, <2>1, FS_EmptySet DEF IInv, HeldOK, h
<1>5. CASE In(r, queue)
  <2>1. PICK i \in 1..n : queue[i] = r
    BY <1>1, <1>5 DEF In
  <2>2. \A j \in Places : j = i
    BY <1>1, <1>2, <1>3, <1>5, <2>1 DEF IInv, HeldOK, Once, In
  <2>3. i \in Places
    BY <1>2, <2>1
  <2>4. Places = {i}
    BY <2>2, <2>3
  <2> QED  BY <1>5, <2>4, FS_Singleton DEF IInv, HeldOK, h
<1>6. CASE In(r, requests)
  <2>1. PICK i \in 1..m : requests[i] = r
    BY <1>1, <1>6 DEF In
  <2>2. PICK k \in (n + 1)..(n + m) : k = n + i /\ k - n = i
    BY <1>1, <2>1
  <2>3. ASSUME NEW j \in Places  PROVE j - n = i /\ j \in Int
    <3>1. j \in Int
      BY <1>2
    <3>2. ~(j \in 1..n /\ queue[j] = r)
      BY <1>1, <1>6 DEF IInv, HeldOK, In
    <3>3. j - n \in 1..m /\ requests[j - n] = r
      BY <1>3, <3>2
    <3> QED  BY <1>1, <2>1, <3>1, <3>3 DEF IInv, HeldOK, Once
  <2>4. k \in Places
    BY <1>2, <2>1, <2>2
  <2>5. Places = {k}
    BY <2>2, <2>3, <2>4
  <2> QED  BY <1>6, <2>5, FS_Singleton DEF IInv, HeldOK, h
<1> QED  BY <1>4, <1>5, <1>6

\* No accepted request is lost or held twice, and none is behind the stop request,
\* if close() is called when no submit() runs.  (submit, _thread_main, close,
\* image_index_writer.py.)
THEOREM RequestsStayHeld ==
  ASSUME CloseAfterSubmits
  PROVE  Spec => []RequestsAreHeld
<1>1. IInv => RequestsAreHeld
  BY HeldOnce DEF IInv, CloseOK, RequestsAreHeld
<1> QED  BY <1>1, Invariance, PTL
-----------------------------------------------------------------------------
(* The store pool.                                                         *)

\* The instance counts like the module it instances.
LEMMA SamePoolCount ==
  ASSUME NEW S
  PROVE  Pool!Cardinality(S) = Cardinality(S)
BY DEF Pool!Cardinality, Cardinality

LEMMA PoolConstants ==
  /\ IsFiniteSet(PoolWorkers) /\ PoolWorkers # {} /\ Idle # Gone
  /\ Idle \notin Pool!WorkItems /\ Gone \notin Pool!WorkItems /\ Stop \notin Pool!WorkItems
<1>1. Pool!IsFiniteSet(PoolWorkers) <=> IsFiniteSet(PoolWorkers)
  BY DEF Pool!IsFiniteSet, IsFiniteSet
<1> QED  BY <1>1, PoolBounds DEF Pool!StorePoolAssumption

\* Sets of workers are finite; one more or one less changes their number by one.
LEMMA CountWorkers ==
  ASSUME NEW S, S \subseteq PoolWorkers
  PROVE  /\ IsFiniteSet(S) /\ Pool!Cardinality(S) \in Nat
         /\ Pool!Cardinality(S) = 0 <=> S = {}
         /\ \A w \in PoolWorkers \ S : Pool!Cardinality(S \union {w}) = Pool!Cardinality(S) + 1
         /\ \A w \in S : Pool!Cardinality(S \ {w}) = Pool!Cardinality(S) - 1
<1>1. IsFiniteSet(S)
  BY PoolConstants, FS_Subset
<1>2. Cardinality(S) \in Nat /\ (Cardinality(S) = 0 <=> S = {})
  BY <1>1, FS_CardinalityType, FS_EmptySet
<1>3. \A w \in PoolWorkers \ S : Cardinality(S \union {w}) = Cardinality(S) + 1
  BY <1>1, FS_AddElement
<1>4. \A w \in S : Cardinality(S \ {w}) = Cardinality(S) - 1
  BY <1>1, FS_RemoveElement
<1> QED  BY <1>1, <1>2, <1>3, <1>4, SamePoolCount

\* A queue of items of which none is twice, but for the stops.
Apart(q) == \A j, k \in 1..Len(q) : q[j] = q[k] /\ q[j] # Stop => j = k

LEMMA QueueGrows ==
  ASSUME NEW S, NEW q \in Seq(S), NEW x \in S
  PROVE  /\ Append(q, x) \in Seq(S) /\ Len(Append(q, x)) = Len(q) + 1 /\ Len(q) \in Nat
         /\ \A y : In(y, Append(q, x)) <=> In(y, q) \/ y = x
         /\ Apart(q) /\ (x = Stop \/ ~In(x, q)) => Apart(Append(q, x))
<1> DEFINE t == Append(q, x)
<1>1. /\ t \in Seq(S) /\ Len(t) = Len(q) + 1 /\ Len(q) \in Nat
      /\ t[Len(q) + 1] = x /\ \A i \in 1..Len(q) : t[i] = q[i]
  OBVIOUS
<1> HIDE DEF t
<1>2. ASSUME NEW y  PROVE In(y, t) <=> In(y, q) \/ y = x
  <2>1. ASSUME In(y, t)  PROVE In(y, q) \/ y = x
    BY <1>1, <2>1 DEF In
  <2>2. ASSUME In(y, q)  PROVE In(y, t)
    BY <1>1, <2>2 DEF In
  <2>3. In(x, t)
    BY <1>1 DEF In
  <2> QED  BY <2>1, <2>2, <2>3
<1>3. Apart(q) /\ (x = Stop \/ ~In(x, q)) => Apart(t)
  BY <1>1 DEF Apart, In
<1> QED  BY <1>1, <1>2, <1>3 DEF t

LEMMA QueueShrinks ==
  ASSUME NEW S, NEW q \in Seq(S), q # <<>>, Apart(q)
  PROVE  /\ Tail(q) \in Seq(S) /\ Len(Tail(q)) = Len(q) - 1 /\ Len(q) \in Nat \ {0}
         /\ Head(q) \in S /\ In(Head(q), q) /\ Apart(Tail(q))
         /\ \A y : y # Stop => (In(y, Tail(q)) <=> In(y, q) /\ y # Head(q))
         /\ \A y : In(y, Tail(q)) => In(y, q)
<1> DEFINE t == Tail(q)
<1>1. /\ t \in Seq(S) /\ Len(t) = Len(q) - 1 /\ Len(q) \in Nat \ {0}
      /\ Head(q) = q[1] /\ Head(q) \in S /\ \A i \in 1..Len(t) : t[i] = q[i + 1]
  BY EmptySeq
<1> HIDE DEF t
<1>2. Apart(t)
  BY <1>1 DEF Apart
<1>3. In(Head(q), q)
  BY <1>1 DEF In
<1>4. ASSUME NEW y, In(y, t)  PROVE In(y, q) /\ (y # Stop => y # Head(q))
  <2>1. PICK i \in 1..Len(t) : t[i] = y
    BY <1>4 DEF In
  <2>2. i + 1 \in 1..Len(q) /\ 1 \in 1..Len(q) /\ q[i + 1] = y /\ i + 1 # 1
    BY <1>1, <2>1
  <2> QED  BY <1>1, <2>2 DEF Apart, In
<1>5. ASSUME NEW y, In(y, q), y # Head(q)  PROVE In(y, t)
  <2>1. PICK i \in 1..Len(q) : q[i] = y
    BY <1>5 DEF In
  <2>2. i - 1 \in 1..Len(t) /\ t[i - 1] = y
    BY <1>1, <1>5, <2>1
  <2> QED  BY <2>2 DEF In
<1> QED  BY <1>1, <1>2, <1>3, <1>4, <1>5 DEF t

\* What the invariant says, with the helpers above.
PoolHeld(q, f, wk) ==
  /\ \A i \in Pool!WorkItems :
       f[i] = "pending" <=> In(i, q) \/ \E w \in PoolWorkers : wk[w] = i
  /\ \A i \in Pool!WorkItems : ~(In(i, q) /\ \E w \in PoolWorkers : wk[w] = i)
  /\ Apart(q)
  /\ \A v, w \in PoolWorkers : wk[v] \in Pool!WorkItems /\ wk[v] = wk[w] => v = w
PoolScopes(f, sc, p) ==
  /\ \A i \in Pool!WorkItems : f[i] = "putting" => i[1] \in sc
  /\ sc # {} <=> p = "open"

LEMMA HeldIs ==
  /\ Pool!ItemsHeld <=> PoolHeld(work, outcome, worker) /\ PoolScopes(outcome, scopes, pool)
  /\ Pool!ItemsHeld' <=> PoolHeld(work', outcome', worker') /\ PoolScopes(outcome', scopes', pool')
BY DEF Pool!ItemsHeld, Pool!Waits, Pool!Runs, Pool!Busy, PoolHeld, PoolScopes, Apart, In

\* The helpers of the pool about its workers, by the function that they read.
BusyIn(wk) == {w \in PoolWorkers : wk[w] \in Pool!WorkItems}
RunningIn(wk) == {w \in PoolWorkers : wk[w] # Gone}
PoolStaffed(p, q, u, s, wk) ==
  /\ u = Len(q) + Pool!Cardinality(BusyIn(wk))
  /\ p \in {"open", "joining"} => RunningIn(wk) = PoolWorkers
  /\ p = "none" => q = <<>> /\ RunningIn(wk) = {}
  /\ p = "stopping" => /\ \A k \in 1..Len(q) : q[k] = Stop
                       /\ BusyIn(wk) = {} /\ s + Len(q) = Pool!Cardinality(RunningIn(wk))
  /\ p # "stopping" => s = 0 /\ ~In(Stop, q)

LEMMA StaffedIs ==
  /\ Pool!WorkersStay <=> PoolStaffed(pool, work, unfinished, stops, worker)
  /\ Pool!WorkersStay' <=> PoolStaffed(pool', work', unfinished', stops', worker')
BY DEF Pool!WorkersStay, Pool!Busy, Pool!Running, Pool!Waits, PoolStaffed, BusyIn, RunningIn, In

LEMMA PoolStarts == Pool!PoolInit => Pool!WorkIsHeld
<1> SUFFICES ASSUME Pool!PoolInit  PROVE Pool!WorkIsHeld
  OBVIOUS
<1> USE DEF Pool!PoolInit
<1>1. Pool!Cardinality(PoolWorkers) \in Nat /\ Pool!Cardinality({}) = 0
  BY CountWorkers
<1>2. Pool!PoolTypes
  BY <1>1 DEF Pool!PoolTypes, Pool!Capacity
<1>3. BusyIn(worker) = {} /\ RunningIn(worker) = {}
  BY PoolConstants DEF BusyIn, RunningIn
<1>4. ~In(Stop, work) /\ \A i \in Pool!WorkItems : ~In(i, work)
  BY DEF In
<1>5. PoolStaffed(pool, work, unfinished, stops, worker)
  <2>1. pool = "none" /\ work = <<>> /\ Len(work) = 0 /\ unfinished = 0 /\ stops = 0
    OBVIOUS
  <2>2. Pool!Cardinality(BusyIn(worker)) = 0
    BY <1>1, <1>3
  <2> HIDE DEF Pool!PoolInit
  <2> QED  BY <1>3, <1>4, <2>1, <2>2 DEF PoolStaffed
<1>6. PoolHeld(work, outcome, worker) /\ PoolScopes(outcome, scopes, pool)
  BY <1>4, PoolConstants DEF PoolHeld, PoolScopes, Apart
<1> QED  BY <1>2, <1>5, <1>6, HeldIs, StaffedIs DEF Pool!WorkIsHeld

LEMMA OpenPool ==
  ASSUME Pool!WorkIsHeld, NEW c \in Clients, Pool!Open(c)
  PROVE  Pool!WorkIsHeld'
<1> USE DEF Pool!Open
<1>1. Pool!PoolTypes /\ PoolHeld(work, outcome, worker) /\ PoolScopes(outcome, scopes, pool)
      /\ PoolStaffed(pool, work, unfinished, stops, worker)
  BY HeldIs, StaffedIs DEF Pool!WorkIsHeld
<1>2. Pool!PoolTypes'
  BY <1>1 DEF Pool!PoolTypes
<1>3. PoolScopes(outcome', scopes', pool')
  BY <1>1 DEF PoolScopes
<1>4. CASE pool = "open"
  <2>1. worker' = worker /\ pool' = pool
    BY <1>4
  <2> QED  BY <1>1, <1>2, <1>3, <2>1, HeldIs, StaffedIs DEF Pool!WorkIsHeld
<1>5. CASE pool = "none"
  <2>1. worker' = [w \in PoolWorkers |-> Idle] /\ pool' = "open"
    BY <1>5
  <2>2. work = <<>> /\ RunningIn(worker) = {} /\ ~In(Stop, work) /\ stops = 0
    BY <1>1, <1>5 DEF PoolStaffed
  <2>3. \A w \in PoolWorkers : worker[w] = Gone
    BY <2>2 DEF RunningIn
  <2>4. BusyIn(worker') = {} /\ BusyIn(worker) = {} /\ RunningIn(worker') = PoolWorkers
    BY <2>1, <2>3, PoolConstants DEF BusyIn, RunningIn
  <2>5. PoolStaffed(pool', work', unfinished', stops', worker')
    BY <1>1, <2>1, <2>2, <2>4 DEF PoolStaffed
  <2>6. PoolHeld(work', outcome', worker')
    BY <1>1, <2>1, <2>3, PoolConstants DEF PoolHeld
  <2> QED  BY <1>2, <1>3, <2>5, <2>6, HeldIs, StaffedIs DEF Pool!WorkIsHeld
<1> QED  BY <1>4, <1>5

LEMMA SubmitWork ==
  ASSUME Pool!WorkIsHeld, NEW i \in Pool!WorkItems, Pool!Submit(i)
  PROVE  Pool!WorkIsHeld'
<1> USE DEF Pool!Submit
<1>1. Pool!PoolTypes /\ PoolHeld(work, outcome, worker) /\ PoolScopes(outcome, scopes, pool)
      /\ PoolStaffed(pool, work, unfinished, stops, worker)
  BY HeldIs, StaffedIs DEF Pool!WorkIsHeld
<1>2. Pool!PoolTypes'
  BY <1>1 DEF Pool!PoolTypes
<1>3. \A k \in Pool!WorkItems : outcome'[k] = IF k = i THEN "putting" ELSE outcome[k]
  BY <1>1 DEF Pool!PoolTypes
<1>4. PoolScopes(outcome', scopes', pool')
  BY <1>1, <1>3 DEF PoolScopes
<1>5. PoolHeld(work', outcome', worker')
  BY <1>1, <1>3 DEF PoolHeld
<1> QED  BY <1>1, <1>2, <1>4, <1>5, HeldIs, StaffedIs DEF Pool!WorkIsHeld

LEMMA PutItem ==
  ASSUME Pool!WorkIsHeld, NEW i \in Pool!WorkItems, Pool!PutWork(i)
  PROVE  Pool!WorkIsHeld'
<1> USE DEF Pool!PutWork
<1>1. Pool!PoolTypes /\ PoolHeld(work, outcome, worker) /\ PoolScopes(outcome, scopes, pool)
      /\ PoolStaffed(pool, work, unfinished, stops, worker)
  BY HeldIs, StaffedIs DEF Pool!WorkIsHeld
<1>2. pool = "open" /\ i # Stop /\ ~In(i, work) /\ ~ \E w \in PoolWorkers : worker[w] = i
  BY <1>1, PoolConstants DEF PoolScopes, PoolHeld
<1>3. work \in Seq(Pool!WorkItems \union {Stop})
  BY <1>1 DEF Pool!PoolTypes
<1>4. /\ work' \in Seq(Pool!WorkItems \union {Stop})
      /\ Len(work') = Len(work) + 1 /\ Len(work) \in Nat
      /\ \A y : In(y, work') <=> In(y, work) \/ y = i
      /\ Apart(work')
  BY <1>1, <1>2, <1>3, QueueGrows DEF PoolHeld
<1>5. \A k \in Pool!WorkItems : outcome'[k] = IF k = i THEN "pending" ELSE outcome[k]
  BY <1>1 DEF Pool!PoolTypes
<1>6. Pool!Capacity \in Nat
  BY CountWorkers DEF Pool!Capacity
<1>7. Pool!PoolTypes'
  BY <1>1, <1>4, <1>6 DEF Pool!PoolTypes
<1>8. PoolScopes(outcome', scopes', pool')
  BY <1>1, <1>5 DEF PoolScopes
<1>9. PoolHeld(work', outcome', worker')
  BY <1>1, <1>2, <1>4, <1>5 DEF PoolHeld
<1>10. Pool!Cardinality(BusyIn(worker)) \in Nat
  BY CountWorkers DEF BusyIn
<1>11. PoolStaffed(pool', work', unfinished', stops', worker')
  BY <1>1, <1>2, <1>4, <1>10 DEF PoolStaffed
<1> QED  BY <1>7, <1>8, <1>9, <1>11, HeldIs, StaffedIs DEF Pool!WorkIsHeld

LEMMA TakeItem ==
  ASSUME Pool!WorkIsHeld, NEW w \in PoolWorkers, Pool!TakeWork(w)
  PROVE  Pool!WorkIsHeld'
<1> DEFINE x == Head(work)
<1>1. Pool!PoolTypes /\ PoolHeld(work, outcome, worker) /\ PoolScopes(outcome, scopes, pool)
      /\ PoolStaffed(pool, work, unfinished, stops, worker)
  BY HeldIs, StaffedIs DEF Pool!WorkIsHeld
<1>2. /\ worker[w] = Idle /\ work # <<>> /\ work' = Tail(work)
      /\ UNCHANGED <<pool, scopes, fresh, stops, outcome>>
  BY DEF Pool!TakeWork
<1>3. work \in Seq(Pool!WorkItems \union {Stop}) /\ Apart(work)
      /\ worker \in [PoolWorkers -> Pool!WorkItems \union {Idle, Gone}]
      /\ Pool!Capacity \in Nat /\ unfinished \in Nat
  BY <1>1, CountWorkers DEF Pool!PoolTypes, PoolHeld, Pool!Capacity
<1>4. /\ work' \in Seq(Pool!WorkItems \union {Stop})
      /\ Len(work') = Len(work) - 1 /\ Len(work) \in Nat \ {0}
      /\ x \in Pool!WorkItems \union {Stop} /\ In(x, work) /\ Apart(work')
      /\ \A y : y # Stop => (In(y, work') <=> In(y, work) /\ y # x)
      /\ \A y : In(y, work') => In(y, work)
  BY <1>2, <1>3, QueueShrinks
<1>5. w \notin BusyIn(worker) /\ w \in RunningIn(worker)
      /\ Pool!Cardinality(BusyIn(worker)) \in Nat /\ Pool!Cardinality(RunningIn(worker)) \in Nat
  BY <1>2, PoolConstants, CountWorkers DEF BusyIn, RunningIn
<1>6. PoolScopes(outcome', scopes', pool')
  BY <1>1, <1>2
<1> HIDE DEF x
<1>7. CASE x = Stop
  <2>1. worker' = [worker EXCEPT ![w] = Gone] /\ unfinished' = unfinished - 1
    BY <1>7 DEF Pool!TakeWork, x
  <2>2. pool = "stopping"
    BY <1>1, <1>4, <1>7 DEF PoolStaffed
  <2>3. /\ BusyIn(worker') = BusyIn(worker) \ {w} /\ RunningIn(worker') = RunningIn(worker) \ {w}
        /\ \A v \in PoolWorkers : worker'[v] = IF v = w THEN Gone ELSE worker[v]
    <3>1. \A v \in PoolWorkers : worker'[v] = IF v = w THEN Gone ELSE worker[v]
      BY <1>3, <2>1
    <3>2. BusyIn(worker') = BusyIn(worker) \ {w}
      BY <3>1, PoolConstants DEF BusyIn
    <3>3. RunningIn(worker') = RunningIn(worker) \ {w}
      BY <3>1, PoolConstants DEF RunningIn
    <3> QED  BY <3>1, <3>2, <3>3
  <2>4. BusyIn(worker') = BusyIn(worker)
        /\ Pool!Cardinality(RunningIn(worker')) = Pool!Cardinality(RunningIn(worker)) - 1
    BY <1>5, <2>3, CountWorkers DEF RunningIn
  <2>5. \A k \in 1..Len(work') : work'[k] = Stop
    BY <1>1, <1>2, <1>4, <2>2 DEF PoolStaffed
  <2>6. PoolStaffed(pool', work', unfinished', stops', worker')
    <3>1. unfinished' = Len(work') + Pool!Cardinality(BusyIn(worker'))
      BY <1>1, <1>3, <1>4, <1>5, <2>1, <2>4 DEF PoolStaffed
    <3>2. stops' + Len(work') = Pool!Cardinality(RunningIn(worker'))
      <4>1. stops + Len(work) = Pool!Cardinality(RunningIn(worker)) /\ stops' = stops
        BY <1>1, <1>2, <2>2 DEF PoolStaffed
      <4>2. stops \in Nat
        BY <1>1 DEF Pool!PoolTypes
      <4> QED  BY <1>4, <1>5, <2>4, <4>1, <4>2
    <3> QED  BY <1>1, <1>2, <2>2, <2>4, <2>5, <3>1, <3>2 DEF PoolStaffed
  <2>7. PoolHeld(work', outcome', worker')
    BY <1>1, <1>2, <1>4, <1>7, <2>3, PoolConstants DEF PoolHeld
  <2>8. unfinished' \in Nat
    BY <1>1, <1>3, <1>4, <1>5, <2>1 DEF PoolStaffed
  <2>9. Pool!PoolTypes'
    BY <1>1, <1>2, <1>3, <1>4, <2>1, <2>8 DEF Pool!PoolTypes
  <2> QED  BY <1>6, <2>6, <2>7, <2>9, HeldIs, StaffedIs DEF Pool!WorkIsHeld
<1>8. CASE x \in Pool!WorkItems
  <2>1. worker' = [worker EXCEPT ![w] = x] /\ unfinished' = unfinished
    BY <1>8, PoolConstants DEF Pool!TakeWork, x
  <2>2. pool # "stopping"
    BY <1>1, <1>4, <1>8, PoolConstants DEF PoolStaffed, In
  <2>3. /\ BusyIn(worker') = BusyIn(worker) \union {w}
        /\ RunningIn(worker') = RunningIn(worker) \union {w}
        /\ \A v \in PoolWorkers : worker'[v] = IF v = w THEN x ELSE worker[v]
    <3>1. \A v \in PoolWorkers : worker'[v] = IF v = w THEN x ELSE worker[v]
      BY <1>3, <2>1
    <3>2. BusyIn(worker') = BusyIn(worker) \union {w}
      BY <1>8, <3>1, PoolConstants DEF BusyIn
    <3>3. RunningIn(worker') = RunningIn(worker) \union {w}
      BY <1>8, <3>1, PoolConstants DEF RunningIn
    <3> QED  BY <3>1, <3>2, <3>3
  <2>4. RunningIn(worker') = RunningIn(worker)
        /\ Pool!Cardinality(BusyIn(worker')) = Pool!Cardinality(BusyIn(worker)) + 1
    BY <1>5, <2>3, CountWorkers DEF BusyIn
  <2>5. pool # "none"
    BY <1>1, <1>2 DEF PoolStaffed
  <2>6. PoolStaffed(pool', work', unfinished', stops', worker')
    BY <1>1, <1>2, <1>3, <1>4, <1>5, <2>1, <2>2, <2>4, <2>5 DEF PoolStaffed
  <2>7. \A v \in PoolWorkers : worker[v] # x
    BY <1>1, <1>4, <1>8 DEF PoolHeld
  <2>8. PoolHeld(work', outcome', worker')
    <3>1. \A i \in Pool!WorkItems : (\E v \in PoolWorkers : worker'[v] = i)
                                      <=> i = x \/ \E v \in PoolWorkers : worker[v] = i
      BY <1>2, <2>3, PoolConstants
    <3>2. \A i \in Pool!WorkItems : In(i, work') <=> In(i, work) /\ i # x
      BY <1>4, PoolConstants
    <3>3. \A u, v \in PoolWorkers : worker'[u] \in Pool!WorkItems /\ worker'[u] = worker'[v] => u = v
      BY <1>1, <2>3, <2>7 DEF PoolHeld
    <3> QED  BY <1>1, <1>2, <1>4, <1>8, <2>7, <3>1, <3>2, <3>3 DEF PoolHeld
  <2>9. Pool!PoolTypes'
    BY <1>1, <1>2, <1>3, <1>4, <1>8, <2>1 DEF Pool!PoolTypes
  <2> QED  BY <1>6, <2>6, <2>8, <2>9, HeldIs, StaffedIs DEF Pool!WorkIsHeld
<1> QED  BY <1>4, <1>7, <1>8

LEMMA RunItem ==
  ASSUME Pool!WorkIsHeld, NEW w \in PoolWorkers, Pool!RunWork(w)
  PROVE  Pool!WorkIsHeld'
<1> DEFINE i == worker[w]
<1>1. Pool!PoolTypes /\ PoolHeld(work, outcome, worker) /\ PoolScopes(outcome, scopes, pool)
      /\ PoolStaffed(pool, work, unfinished, stops, worker)
  BY HeldIs, StaffedIs DEF Pool!WorkIsHeld
<1>2. PICK o \in {"done", "failed"} : outcome' = [outcome EXCEPT ![i] = o]
  BY DEF Pool!RunWork
<1>3. /\ worker' = [worker EXCEPT ![w] = Idle] /\ unfinished' = unfinished - 1
      /\ i \notin {Idle, Gone} /\ UNCHANGED <<pool, scopes, fresh, work, stops>>
  BY DEF Pool!RunWork, Pool!AfterFailure
<1>4. worker \in [PoolWorkers -> Pool!WorkItems \union {Idle, Gone}] /\ i \in Pool!WorkItems
  BY <1>1, <1>3 DEF Pool!PoolTypes
<1>5. \A k \in Pool!WorkItems : outcome'[k] = IF k = i THEN o ELSE outcome[k]
  BY <1>1, <1>2 DEF Pool!PoolTypes
<1>6. /\ BusyIn(worker') = BusyIn(worker) \ {w} /\ RunningIn(worker') = RunningIn(worker) \union {w}
      /\ \A v \in PoolWorkers : worker'[v] = IF v = w THEN Idle ELSE worker[v]
  <2> HIDE DEF i
  <2>1. worker' = [worker EXCEPT ![w] = Idle] /\ Idle \notin Pool!WorkItems /\ Idle # Gone
    BY <1>3, PoolConstants
  <2>2. \A v \in PoolWorkers : worker'[v] = IF v = w THEN Idle ELSE worker[v]
    BY <1>4, <2>1
  <2>3. BusyIn(worker') = BusyIn(worker) \ {w}
    BY <2>1, <2>2 DEF BusyIn
  <2>4. RunningIn(worker') = RunningIn(worker) \union {w}
    BY <2>1, <2>2 DEF RunningIn
  <2> QED  BY <2>2, <2>3, <2>4
<1>7. w \in BusyIn(worker) /\ w \in RunningIn(worker) /\ Len(work) \in Nat
      /\ Pool!Cardinality(BusyIn(worker)) \in Nat
  BY <1>1, <1>3, <1>4, CountWorkers DEF BusyIn, RunningIn, Pool!PoolTypes
<1>8. RunningIn(worker') = RunningIn(worker)
      /\ Pool!Cardinality(BusyIn(worker')) = Pool!Cardinality(BusyIn(worker)) - 1
      /\ Pool!Cardinality(BusyIn(worker)) # 0
  BY <1>6, <1>7, CountWorkers DEF BusyIn
<1> HIDE DEF i
<1>9. PoolStaffed(pool', work', unfinished', stops', worker')
  <2>1. unfinished' = Len(work') + Pool!Cardinality(BusyIn(worker'))
    BY <1>1, <1>3, <1>7, <1>8 DEF PoolStaffed
  <2>2. pool # "stopping"
    BY <1>1, <1>7 DEF PoolStaffed
  <2> QED  BY <1>1, <1>3, <1>8, <2>1, <2>2 DEF PoolStaffed
<1>10. PoolScopes(outcome', scopes', pool')
  BY <1>1, <1>3, <1>5 DEF PoolScopes
<1>11. PoolHeld(work', outcome', worker')
  <2>1. \A v \in PoolWorkers : worker[v] = i => v = w
    BY <1>1, <1>4 DEF PoolHeld, i
  <2>2. ~In(i, work)
    BY <1>1, <1>4 DEF PoolHeld, i
  <2>3. \A k \in Pool!WorkItems : (\E v \in PoolWorkers : worker'[v] = k)
                                    <=> k # i /\ \E v \in PoolWorkers : worker[v] = k
    BY <1>6, <2>1, PoolConstants DEF i
  <2>4. \A u, v \in PoolWorkers : worker'[u] \in Pool!WorkItems /\ worker'[u] = worker'[v] => u = v
    BY <1>1, <1>6, PoolConstants DEF PoolHeld
  <2> QED  BY <1>1, <1>2, <1>3, <1>5, <2>2, <2>3, <2>4 DEF PoolHeld
<1>12. unfinished' \in Nat
  BY <1>1, <1>3, <1>7, <1>8 DEF PoolStaffed
<1>13. Pool!PoolTypes'
  BY <1>1, <1>2, <1>3, <1>4, <1>12 DEF Pool!PoolTypes
<1> QED  BY <1>9, <1>10, <1>11, <1>13, HeldIs, StaffedIs DEF Pool!WorkIsHeld

LEMMA LeavePool ==
  ASSUME Pool!WorkIsHeld, NEW c \in Clients, Pool!LeaveScope(c)
  PROVE  Pool!WorkIsHeld'
<1> USE DEF Pool!LeaveScope
<1>1. Pool!PoolTypes /\ PoolHeld(work, outcome, worker) /\ PoolScopes(outcome, scopes, pool)
      /\ PoolStaffed(pool, work, unfinished, stops, worker)
  BY HeldIs, StaffedIs DEF Pool!WorkIsHeld
<1>2. Pool!PoolTypes'
  BY <1>1 DEF Pool!PoolTypes
<1>3. pool = "open" /\ pool' \in {"open", "joining"} /\ (pool' = "open" <=> scopes' # {})
  BY <1>1 DEF PoolScopes
<1>4. PoolScopes(outcome', scopes', pool')
  BY <1>1, <1>3 DEF PoolScopes
<1>5. PoolStaffed(pool', work', unfinished', stops', worker')
  BY <1>1, <1>3 DEF PoolStaffed
<1> QED  BY <1>1, <1>2, <1>4, <1>5, HeldIs, StaffedIs DEF Pool!WorkIsHeld

LEMMA JoinPool ==
  ASSUME Pool!WorkIsHeld, Pool!Joined
  PROVE  Pool!WorkIsHeld'
<1> USE DEF Pool!Joined
<1>1. Pool!PoolTypes /\ PoolHeld(work, outcome, worker) /\ PoolScopes(outcome, scopes, pool)
      /\ PoolStaffed(pool, work, unfinished, stops, worker)
  BY HeldIs, StaffedIs DEF Pool!WorkIsHeld
<1>2. Len(work) \in Nat /\ stops' = Pool!Cardinality(PoolWorkers) /\ stops' \in Nat
      /\ Pool!Cardinality(BusyIn(worker)) \in Nat
      /\ (Pool!Cardinality(BusyIn(worker)) = 0 <=> BusyIn(worker) = {})
  <2>1. Len(work) \in Nat
    BY <1>1 DEF Pool!PoolTypes
  <2>2. stops' = Pool!Cardinality(PoolWorkers) /\ stops' \in Nat
    BY CountWorkers DEF Pool!Stops
  <2>3. BusyIn(worker) \subseteq PoolWorkers
    BY DEF BusyIn
  <2> QED  BY <2>1, <2>2, <2>3, CountWorkers
<1>3. Len(work) = 0 /\ BusyIn(worker) = {} /\ RunningIn(worker) = PoolWorkers
  BY <1>1, <1>2 DEF PoolStaffed
<1>4. Pool!PoolTypes'
  BY <1>1, <1>2 DEF Pool!PoolTypes
<1>5. PoolScopes(outcome', scopes', pool')
  BY <1>1 DEF PoolScopes
<1>6. PoolStaffed(pool', work', unfinished', stops', worker')
  BY <1>1, <1>2, <1>3 DEF PoolStaffed
<1> QED  BY <1>1, <1>4, <1>5, <1>6, HeldIs, StaffedIs DEF Pool!WorkIsHeld

LEMMA PutTheStop ==
  ASSUME Pool!WorkIsHeld, Pool!PutStop
  PROVE  Pool!WorkIsHeld'
<1> USE DEF Pool!PutStop
<1>1. Pool!PoolTypes /\ PoolHeld(work, outcome, worker) /\ PoolScopes(outcome, scopes, pool)
      /\ PoolStaffed(pool, work, unfinished, stops, worker)
  BY HeldIs, StaffedIs DEF Pool!WorkIsHeld
<1>2. work \in Seq(Pool!WorkItems \union {Stop}) /\ Apart(work)
  BY <1>1 DEF Pool!PoolTypes, PoolHeld
<1>3. /\ work' \in Seq(Pool!WorkItems \union {Stop})
      /\ Len(work') = Len(work) + 1 /\ Len(work) \in Nat
      /\ \A y : In(y, work') <=> In(y, work) \/ y = Stop
      /\ Apart(work')
  BY <1>2, QueueGrows
<1>4. Pool!Capacity \in Nat /\ Pool!Cardinality(BusyIn(worker)) \in Nat
      /\ Pool!Cardinality(RunningIn(worker)) \in Nat
  BY CountWorkers DEF Pool!Capacity, BusyIn, RunningIn
<1>5. Pool!PoolTypes'
  BY <1>1, <1>3, <1>4 DEF Pool!PoolTypes
<1>6. PoolScopes(outcome', scopes', pool')
  BY <1>1 DEF PoolScopes
<1>7. PoolHeld(work', outcome', worker')
  BY <1>1, <1>3, PoolConstants DEF PoolHeld
<1>8. \A k \in 1..Len(work') : work'[k] = Stop
  BY <1>1, <1>2, <1>3 DEF PoolStaffed
<1>9. stops \in Nat /\ unfinished \in Nat
  BY <1>1 DEF Pool!PoolTypes
<1>10. PoolStaffed(pool', work', unfinished', stops', worker')
  <2>1. unfinished' = Len(work') + Pool!Cardinality(BusyIn(worker'))
    BY <1>1, <1>3, <1>4, <1>9 DEF PoolStaffed
  <2>2. stops + Len(work) = Pool!Cardinality(RunningIn(worker)) /\ BusyIn(worker) = {}
    BY <1>1 DEF PoolStaffed
  <2>3. stops' + Len(work') = Pool!Cardinality(RunningIn(worker'))
    BY <1>3, <1>9, <2>2
  <2> QED  BY <1>8, <2>1, <2>2, <2>3 DEF PoolStaffed
<1> QED  BY <1>5, <1>6, <1>7, <1>10, HeldIs, StaffedIs DEF Pool!WorkIsHeld

LEMMA ClosePool ==
  ASSUME Pool!WorkIsHeld, Pool!Closed
  PROVE  Pool!WorkIsHeld'
<1>1. Pool!PoolTypes /\ PoolHeld(work, outcome, worker) /\ PoolScopes(outcome, scopes, pool)
      /\ PoolStaffed(pool, work, unfinished, stops, worker)
  BY HeldIs, StaffedIs DEF Pool!WorkIsHeld
<1>2. /\ pool = "stopping" /\ stops = 0 /\ pool' = "none" /\ \A w \in PoolWorkers : worker[w] = Gone
      /\ fresh' \in {fresh, Clients} /\ UNCHANGED <<scopes, work, unfinished, worker, stops>>
      /\ outcome' = outcome \/ outcome' = [i \in Pool!WorkItems |-> "new"]
  BY DEF Pool!Closed
<1>3. RunningIn(worker) = {} /\ Pool!Cardinality(RunningIn(worker)) = 0 /\ BusyIn(worker) = {}
  BY <1>2, PoolConstants, CountWorkers DEF RunningIn, BusyIn
<1>4. Len(work) = 0 /\ work = <<>>
  BY <1>1, <1>2, <1>3 DEF PoolStaffed, Pool!PoolTypes
<1>5. \A i : ~In(i, work)
  BY <1>4 DEF In
<1>6. Pool!PoolTypes'
  BY <1>1, <1>2 DEF Pool!PoolTypes
<1>7. PoolStaffed(pool', work', unfinished', stops', worker')
  BY <1>1, <1>2, <1>3, <1>4, <1>5 DEF PoolStaffed
<1>8. PoolScopes(outcome', scopes', pool')
  BY <1>1, <1>2 DEF PoolScopes
<1>9. PoolHeld(work', outcome', worker')
  BY <1>1, <1>2, <1>5, PoolConstants DEF PoolHeld
<1> QED  BY <1>6, <1>7, <1>8, <1>9, HeldIs, StaffedIs DEF Pool!WorkIsHeld

LEMMA PoolMovesOn == Pool!WorkIsHeld /\ [PoolMoves]_poolVars => Pool!WorkIsHeld'
<1> SUFFICES ASSUME Pool!WorkIsHeld, [PoolMoves]_poolVars  PROVE Pool!WorkIsHeld'
  OBVIOUS
<1>1. CASE UNCHANGED poolVars
  <2>1. /\ UNCHANGED <<work, outcome, worker, scopes, pool, unfinished, stops, fresh>>
    BY <1>1 DEF poolVars
  <2>2. Pool!PoolTypes' <=> Pool!PoolTypes
    BY <2>1 DEF Pool!PoolTypes
  <2> QED  BY <2>1, <2>2, HeldIs, StaffedIs DEF Pool!WorkIsHeld
<1>2. CASE Pool!PoolNext
  BY <1>2, OpenPool, SubmitWork, PutItem, TakeItem, RunItem, LeavePool, JoinPool, PutTheStop,
     ClosePool DEF Pool!PoolNext, Pool!PoolStep
<1> QED  BY <1>1, <1>2 DEF PoolMoves

\* Any behaviour of the two services, fair or not.
LEMMA ServicesHold == ServicesSpec => [](IInv /\ Pool!WorkIsHeld)
<1>1. ServicesInit => IInv /\ Pool!WorkIsHeld
  BY InitOK, PoolStarts DEF ServicesInit
<1>2. IInv /\ Pool!WorkIsHeld /\ [WriterMoves \/ PoolMoves]_<<part, vars, poolVars>>
        => IInv' /\ Pool!WorkIsHeld'
  <2> SUFFICES ASSUME IInv, Pool!WorkIsHeld, [WriterMoves \/ PoolMoves]_<<part, vars, poolVars>>
               PROVE  IInv' /\ Pool!WorkIsHeld'
    OBVIOUS
  <2>1. [Next]_vars /\ [PoolMoves]_poolVars
    BY DEF WriterMoves, PoolMoves
  <2> QED  BY <2>1, StepOK, PoolMovesOn
<1> QED  BY <1>1, <1>2, PTL DEF ServicesSpec

\* Neither a request nor a piece of work is lost or taken twice, all workers are
\* there until the last work is done, and then each has one stop: for any requests,
\* clients, workers and failures.  (submit, _thread_main, close,
\* image_index_writer.py; ImageStoreRuntime, image_store_runtime.py.)
THEOREM NothingGetsLost ==
  ASSUME CloseAfterSubmits
  PROVE  ServicesSpec => []NothingIsLost
<1>1. IInv => RequestsAreHeld
  BY HeldOnce DEF IInv, CloseOK, RequestsAreHeld
<1> QED  BY <1>1, ServicesHold, PTL DEF NothingIsLost
=============================================================================
