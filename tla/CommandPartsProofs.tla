-------------------------- MODULE CommandPartsProofs --------------------------
(***************************************************************************)
(* Proofs about eight parts of the commands that share no state, for any   *)
(* constants: the SQLite gates count who is in, let in no more than they   *)
(* may, and wake who may enter; the audio of an archive is never passed    *)
(* over; a missing floor is never put off for longer than its interval;    *)
(* writers exclude each other, and who has ended holds nothing; a download *)
(* reports the truth; a page is fetched once for all streams; the viewer   *)
(* serves nothing older than the request; and a successful run leaves one  *)
(* current PDF of each floor.                                              *)
(***************************************************************************)
EXTENDS ThreadBatch, SqliteGates, AudioArchive, RetryTimes, DownloadAttempt, PageStream,
        ViewerCache, PdfOutput, FiniteSetTheorems, WellFoundedInduction, TLAPS

-----------------------------------------------------------------------------
(* The gates of the databases.                                             *)

USE GatesAssumption

GateStates == [at : {"out", "awake", "asleep", "in"}, kind : Kinds, depth : Nat, limit : Nat]

GateTypeOK ==
  /\ inBackup \in BOOLEAN
  /\ active \in [Kinds -> Nat]
  /\ thread \in [Threads -> GateStates]
  /\ \A t \in Threads : thread[t].at = "in" => thread[t].depth > 0

Inside(k) == {t \in Threads : thread[t].at = "in" /\ thread[t].kind = k}

\* The threads in a gate that were allowed at most n beside them.
Narrow(k, n) == {t \in Inside(k) : thread[t].limit <= n}

CountOK(k) == active[k] = Cardinality(Inside(k))

\* No more than n of them are in: the strictest limits hold for those who have them.
LimitsOK(k) == \A n \in Nat : Cardinality(Narrow(k, n)) <= n

SleepOK(k) ==
  \A t \in Threads :
    thread[t].at = "asleep" /\ thread[t].kind = k => active[k] >= thread[t].limit

GatesInv == GateTypeOK /\ \A k \in Kinds : CountOK(k) /\ LimitsOK(k) /\ SleepOK(k)

LEMMA InsideFinite ==
  ASSUME NEW k \in Kinds
  PROVE  /\ IsFiniteSet(Inside(k)) /\ Cardinality(Inside(k)) \in Nat
         /\ \A n \in Nat : /\ IsFiniteSet(Narrow(k, n)) /\ Cardinality(Narrow(k, n)) \in Nat
                           /\ Cardinality(Narrow(k, n)) <= Cardinality(Inside(k))
<1>1. IsFiniteSet(Inside(k))
  BY FS_Subset DEF Inside
<1>2. ASSUME NEW n \in Nat
      PROVE  IsFiniteSet(Narrow(k, n)) /\ Cardinality(Narrow(k, n)) <= Cardinality(Inside(k))
  <2>1. Narrow(k, n) \in SUBSET Inside(k)
    BY DEF Narrow
  <2> QED  BY <1>1, <2>1, FS_Subset
<1> QED  BY <1>1, <1>2, FS_CardinalityType

\* A step that moves nobody through a gate of kind k, and puts nobody to sleep there.
LEMMA GateQuietOK ==
  ASSUME NEW k \in Kinds, CountOK(k), LimitsOK(k), SleepOK(k), Inside(k)' = Inside(k),
         active'[k] = active[k],
         \A t \in Inside(k) : thread'[t].limit = thread[t].limit,
         \A t \in Threads : thread'[t].at = "asleep" /\ thread'[t].kind = k =>
           \/ thread[t].at = "asleep" /\ thread[t].kind = k /\ thread'[t].limit = thread[t].limit
           \/ active[k] >= thread'[t].limit
  PROVE  CountOK(k)' /\ LimitsOK(k)' /\ SleepOK(k)'
<1>1. ASSUME NEW n \in Nat  PROVE Narrow(k, n)' = Narrow(k, n)
  BY DEF Narrow
<1>2. CountOK(k)' /\ SleepOK(k)'
  BY DEF CountOK, SleepOK
<1>3. LimitsOK(k)'
  BY <1>1 DEF LimitsOK
<1> QED  BY <1>2, <1>3

-----------------------------------------------------------------------------

LEMMA GatesInitOK == GateInit => GatesInv
<1> SUFFICES ASSUME GateInit PROVE GatesInv
  OBVIOUS
<1>1. GateTypeOK
  BY DEF GateInit, GateTypeOK, GateStates, Outside, Kinds
<1>2. ASSUME NEW k \in Kinds  PROVE CountOK(k) /\ LimitsOK(k) /\ SleepOK(k)
  <2>1. Inside(k) = {} /\ \A n \in Nat : Narrow(k, n) = {}
    BY DEF GateInit, Inside, Narrow, Outside
  <2>2. active[k] = 0
    BY DEF GateInit
  <2>3. SleepOK(k)
    BY DEF GateInit, SleepOK, Outside
  <2> QED  BY <2>1, <2>2, <2>3, FS_EmptySet DEF CountOK, LimitsOK
<1> QED  BY <1>1, <1>2 DEF GatesInv

\* Arriving, nesting, leaving an inner operation, and the switch to a backup.
LEMMA PassiveOK ==
  ASSUME GatesInv, NEW t \in Threads, UNCHANGED active, inBackup' \in BOOLEAN,
         NEW s \in GateStates, thread' = [thread EXCEPT ![t] = s],
         s.at \in {"awake", "in"},
         s.at = "in" => /\ thread[t].at = "in" /\ s.kind = thread[t].kind
                        /\ s.limit = thread[t].limit /\ s.depth > 0,
         s.at = "awake" => thread[t].at # "in"
  PROVE  GatesInv'
<1>1. GateTypeOK'
  BY DEF GatesInv, GateTypeOK
<1>2. ASSUME NEW k \in Kinds  PROVE CountOK(k)' /\ LimitsOK(k)' /\ SleepOK(k)'
  <2>1. CountOK(k) /\ LimitsOK(k) /\ SleepOK(k)
    BY DEF GatesInv
  <2>2. Inside(k)' = Inside(k)
    BY DEF GatesInv, GateTypeOK, Inside
  <2>3. \A u \in Inside(k) : thread'[u].limit = thread[u].limit
    BY DEF GatesInv, GateTypeOK, Inside
  <2>4. \A u \in Threads : thread'[u].at = "asleep" /\ thread'[u].kind = k =>
          thread[u].at = "asleep" /\ thread[u].kind = k /\ thread'[u].limit = thread[u].limit
    BY DEF GatesInv, GateTypeOK
  <2> QED  BY <2>1, <2>2, <2>3, <2>4, GateQuietOK
<1> QED  BY <1>1, <1>2 DEF GatesInv

LEMMA ArriveOK ==
  ASSUME GatesInv, NEW t \in Threads, NEW k \in Kinds, Arrive(t, k)
  PROVE  GatesInv'
<1> DEFINE s == [at |-> "awake", kind |-> k, depth |-> 0, limit |-> Limit(k)]
<1>1. Limit(k) \in Nat
  BY DEF Limit
<1>2. s \in GateStates
  BY <1>1 DEF GateStates
<1> QED  BY <1>2, PassiveOK DEF Arrive, GatesInv, GateTypeOK

LEMMA NestOK ==
  ASSUME GatesInv, NEW t \in Threads, Nest(t)
  PROVE  GatesInv'
<1> DEFINE s == [thread[t] EXCEPT !.depth = @ + 1]
<1>1. s \in GateStates /\ s.at = "in" /\ s.kind = thread[t].kind
      /\ s.limit = thread[t].limit /\ s.depth > 0
  BY DEF Nest, GatesInv, GateTypeOK, GateStates
<1>2. thread' = [thread EXCEPT ![t] = s]
  BY DEF Nest
<1> HIDE DEF s
<1> QED  BY <1>1, <1>2, PassiveOK DEF Nest, GatesInv, GateTypeOK

LEMMA TryEnterOK ==
  ASSUME GatesInv, NEW t \in Threads, TryEnter(t)
  PROVE  GatesInv'
<1>0. thread[t] \in GateStates
  BY DEF GatesInv, GateTypeOK
<1>1. PICK k \in Kinds, l \in Nat : k = thread[t].kind /\ l = thread[t].limit
  BY <1>0 DEF GateStates
<1>2. CASE active[k] < l
  <2> DEFINE s == [thread[t] EXCEPT !.at = "in", !.depth = 1]
  <2>1. s \in GateStates /\ s.at = "in" /\ s.depth = 1 /\ s.kind = k /\ s.limit = l
    BY <1>0, <1>1 DEF GateStates
  <2>2. /\ thread' = [thread EXCEPT ![t] = s] /\ active' = [active EXCEPT ![k] = active[k] + 1]
        /\ inBackup' = inBackup /\ thread[t].at = "awake"
    BY <1>1, <1>2 DEF TryEnter
  <2> HIDE DEF s
  <2>3. GateTypeOK'
    BY <1>0, <1>1, <2>1, <2>2 DEF GatesInv, GateTypeOK
  <2>4. ASSUME NEW h \in Kinds, h # k  PROVE CountOK(h)' /\ LimitsOK(h)' /\ SleepOK(h)'
    <3>1. CountOK(h) /\ LimitsOK(h) /\ SleepOK(h)
      BY DEF GatesInv
    <3>2. Inside(h)' = Inside(h) /\ active'[h] = active[h]
      BY <1>0, <1>1, <2>1, <2>2, <2>4 DEF GatesInv, GateTypeOK, Inside
    <3>3. \A u \in Threads : u # t => thread'[u] = thread[u]
      BY <2>2 DEF GatesInv, GateTypeOK
    <3>4. t \notin Inside(h) /\ thread'[t] = s
      BY <2>2 DEF Inside, GatesInv, GateTypeOK
    <3>5. \A u \in Inside(h) : thread'[u].limit = thread[u].limit
      BY <3>3, <3>4 DEF Inside
    <3>6. \A u \in Threads : thread'[u].at = "asleep" /\ thread'[u].kind = h =>
            thread[u].at = "asleep" /\ thread[u].kind = h /\ thread'[u].limit = thread[u].limit
      BY <2>1, <3>3, <3>4
    <3> QED  BY <3>1, <3>2, <3>5, <3>6, GateQuietOK
  <2>5. CountOK(k)' /\ LimitsOK(k)' /\ SleepOK(k)'
    <3>1. CountOK(k) /\ LimitsOK(k) /\ SleepOK(k)
      BY <1>0, <1>1 DEF GatesInv
    <3>2. \A u \in Threads : thread'[u] = IF u = t THEN s ELSE thread[u]
      BY <2>2 DEF GatesInv, GateTypeOK
    <3>3. t \notin Inside(k) /\ Inside(k)' = Inside(k) \union {t}
      BY <1>1, <2>1, <2>2, <3>2 DEF Inside
    <3>4. active'[k] = active[k] + 1 /\ active[k] \in Nat
      BY <1>0, <1>1, <2>2 DEF GatesInv, GateTypeOK
    <3>5. CountOK(k)'
      <4>1. Cardinality(Inside(k)') = Cardinality(Inside(k)) + 1
        BY <3>3, InsideFinite, FS_AddElement
      <4> QED  BY <3>1, <3>4, <4>1 DEF CountOK
    <3>6. LimitsOK(k)'
      <4> SUFFICES ASSUME NEW n \in Nat  PROVE Cardinality(Narrow(k, n)') <= n
        BY DEF LimitsOK
      <4>1. t \notin Narrow(k, n)
        BY <3>3 DEF Narrow
      <4>2. CASE l <= n
        <5>1. Narrow(k, n)' = Narrow(k, n) \union {t}
          BY <1>1, <2>1, <3>2, <3>3, <4>2 DEF Narrow, Inside
        <5>2. Cardinality(Narrow(k, n)') = Cardinality(Narrow(k, n)) + 1
          BY <1>0, <1>1, <4>1, <5>1, InsideFinite, FS_AddElement
        <5>3. Cardinality(Narrow(k, n)) <= active[k] /\ Cardinality(Narrow(k, n)) \in Nat
          BY <1>0, <1>1, <3>1, InsideFinite DEF CountOK
        <5> QED  BY <1>0, <1>1, <1>2, <3>4, <4>2, <5>2, <5>3
      <4>3. CASE ~(l <= n)
        <5>1. Narrow(k, n)' = Narrow(k, n)
          BY <1>1, <2>1, <3>2, <3>3, <4>3 DEF Narrow, Inside
        <5> QED  BY <3>1, <5>1 DEF LimitsOK
      <4> QED  BY <4>2, <4>3
    <3>7. SleepOK(k)'
      BY <1>0, <1>1, <2>1, <3>1, <3>2, <3>4 DEF SleepOK, GatesInv, GateTypeOK, GateStates
    <3> QED  BY <3>5, <3>6, <3>7
  <2> QED  BY <2>3, <2>4, <2>5 DEF GatesInv
<1>3. CASE ~(active[k] < l)
  <2> DEFINE s == [thread[t] EXCEPT !.at = "asleep"]
  <2>1. s \in GateStates /\ s.at = "asleep" /\ s.kind = k /\ s.limit = l
    BY <1>0, <1>1 DEF GateStates
  <2>2. /\ thread' = [thread EXCEPT ![t] = s] /\ active' = active
        /\ inBackup' = inBackup /\ thread[t].at = "awake"
    BY <1>1, <1>3 DEF TryEnter
  <2> HIDE DEF s
  <2>3. GateTypeOK'
    BY <2>1, <2>2 DEF GatesInv, GateTypeOK
  <2>4. ASSUME NEW h \in Kinds  PROVE CountOK(h)' /\ LimitsOK(h)' /\ SleepOK(h)'
    <3>1. CountOK(h) /\ LimitsOK(h) /\ SleepOK(h)
      BY DEF GatesInv
    <3>2. \A u \in Threads : thread'[u] = IF u = t THEN s ELSE thread[u]
      BY <2>2 DEF GatesInv, GateTypeOK
    <3>3. Inside(h)' = Inside(h)
      BY <1>1, <2>1, <2>2, <3>2 DEF Inside
    <3>4. \A u \in Inside(h) : thread'[u].limit = thread[u].limit
      BY <1>1, <2>1, <3>2 DEF Inside
    <3>5. \A u \in Threads : thread'[u].at = "asleep" /\ thread'[u].kind = h =>
            \/ thread[u].at = "asleep" /\ thread[u].kind = h
               /\ thread'[u].limit = thread[u].limit
            \/ active[h] >= thread'[u].limit
      BY <1>0, <1>1, <1>3, <2>1, <3>2 DEF GatesInv, GateTypeOK
    <3> QED  BY <2>2, <3>1, <3>3, <3>4, <3>5, GateQuietOK
  <2> QED  BY <2>3, <2>4 DEF GatesInv
<1> QED  BY <1>2, <1>3

LEMMA LeaveGateOK ==
  ASSUME GatesInv, NEW t \in Threads, LeaveGate(t)
  PROVE  GatesInv'
<1>0. thread[t] \in GateStates /\ thread[t].depth > 0 /\ thread[t].at = "in"
  BY DEF LeaveGate, GatesInv, GateTypeOK, GateStates
<1>1. PICK k \in Kinds : k = thread[t].kind
  BY <1>0 DEF GateStates
<1>2. CASE thread[t].depth # 1
  <2> DEFINE s == [thread[t] EXCEPT !.depth = @ - 1]
  <2>1. s \in GateStates /\ s.at = "in" /\ s.kind = thread[t].kind
        /\ s.limit = thread[t].limit /\ s.depth > 0
    BY <1>0, <1>1, <1>2 DEF GateStates
  <2>2. thread' = [thread EXCEPT ![t] = s] /\ active' = active /\ inBackup' = inBackup
    BY <1>2 DEF LeaveGate, IsOuter
  <2> HIDE DEF s
  <2> QED  BY <1>0, <1>1, <2>1, <2>2, PassiveOK DEF GatesInv, GateTypeOK
<1>3. CASE thread[t].depth = 1
  <2>1. /\ \A u \in Threads : thread'[u] =
             IF u = t THEN Outside
             ELSE IF thread[u].at = "asleep" /\ thread[u].kind = k
             THEN [thread[u] EXCEPT !.at = "awake"] ELSE thread[u]
        /\ thread' \in [Threads -> GateStates]
        /\ active' = [active EXCEPT ![k] = active[k] - 1] /\ inBackup' = inBackup
    BY <1>0, <1>1, <1>3 DEF LeaveGate, IsOuter, AllAwake, GatesInv, GateTypeOK, GateStates, Outside, Kinds
  <2>2. \A u \in Threads : u # t =>
          /\ thread'[u].kind = thread[u].kind /\ thread'[u].limit = thread[u].limit
          /\ thread'[u].depth = thread[u].depth
          /\ thread'[u].at = "in" <=> thread[u].at = "in"
          /\ thread'[u].at = "asleep" <=> thread[u].at = "asleep" /\ thread[u].kind # k
    BY <2>1 DEF GatesInv, GateTypeOK, GateStates
  <2>3. thread'[t].at = "out"
    BY <2>1 DEF Outside
  <2>4. CountOK(k) /\ LimitsOK(k) /\ SleepOK(k)
    BY <1>0, <1>1 DEF GatesInv
  <2>5. t \in Inside(k) /\ Inside(k)' = Inside(k) \ {t}
    BY <1>0, <1>1, <2>2, <2>3 DEF Inside
  <2>6. Cardinality(Inside(k)') = Cardinality(Inside(k)) - 1 /\ Cardinality(Inside(k)') \in Nat
    BY <1>0, <1>1, <2>5, InsideFinite, FS_RemoveElement, FS_CardinalityType
  <2>7. active'[k] = active[k] - 1 /\ active'[k] = Cardinality(Inside(k)')
    BY <1>0, <1>1, <2>1, <2>4, <2>6 DEF CountOK, GatesInv, GateTypeOK
  <2>8. GateTypeOK'
    BY <1>0, <1>1, <2>1, <2>2, <2>3, <2>6, <2>7 DEF GatesInv, GateTypeOK
  <2>9. ASSUME NEW h \in Kinds, h # k  PROVE CountOK(h)' /\ LimitsOK(h)' /\ SleepOK(h)'
    <3>1. CountOK(h) /\ LimitsOK(h) /\ SleepOK(h)
      BY DEF GatesInv
    <3>2. t \notin Inside(h) /\ Inside(h)' = Inside(h) /\ active'[h] = active[h]
      BY <1>0, <1>1, <2>1, <2>2, <2>3, <2>9 DEF Inside, GatesInv, GateTypeOK
    <3>3. \A u \in Inside(h) : thread'[u].limit = thread[u].limit
      BY <2>2, <3>2 DEF Inside
    <3>4. \A u \in Threads : thread'[u].at = "asleep" /\ thread'[u].kind = h =>
            thread[u].at = "asleep" /\ thread[u].kind = h /\ thread'[u].limit = thread[u].limit
      BY <2>2, <2>3
    <3> QED  BY <3>1, <3>2, <3>3, <3>4, GateQuietOK
  <2>10. CountOK(k)' /\ LimitsOK(k)' /\ SleepOK(k)'
    <3>1. CountOK(k)'
      BY <2>7 DEF CountOK
    <3>2. LimitsOK(k)'
      <4> SUFFICES ASSUME NEW n \in Nat  PROVE Cardinality(Narrow(k, n)') <= n
        BY DEF LimitsOK
      <4>1. Narrow(k, n)' \in SUBSET Narrow(k, n)
        BY <2>2, <2>5 DEF Narrow, Inside
      <4>2. Cardinality(Narrow(k, n)') <= Cardinality(Narrow(k, n))
            /\ Cardinality(Narrow(k, n)') \in Nat
        BY <1>0, <1>1, <4>1, InsideFinite, FS_Subset, FS_CardinalityType
      <4> QED  BY <1>0, <1>1, <2>4, <4>2, InsideFinite DEF LimitsOK
    <3>3. SleepOK(k)'
      BY <1>1, <2>2, <2>3 DEF SleepOK
    <3> QED  BY <3>1, <3>2, <3>3
  <2> QED  BY <2>8, <2>9, <2>10 DEF GatesInv
<1> QED  BY <1>2, <1>3

LEMMA GatesStepOK == GatesInv /\ [GateNext]_gateVars => GatesInv'
<1> SUFFICES ASSUME GatesInv, [GateNext]_gateVars PROVE GatesInv'
  OBVIOUS
<1>1. ASSUME UNCHANGED <<active, thread>>, inBackup' \in BOOLEAN  PROVE GatesInv'
  <2>1. GateTypeOK'
    BY <1>1 DEF GatesInv, GateTypeOK
  <2>2. ASSUME NEW k \in Kinds  PROVE CountOK(k)' /\ LimitsOK(k)' /\ SleepOK(k)'
    BY <1>1, <2>2, GateQuietOK DEF GatesInv, Inside
  <2> QED  BY <2>1, <2>2 DEF GatesInv
<1>2. CASE UNCHANGED gateVars
  BY <1>1, <1>2 DEF gateVars, GatesInv, GateTypeOK
<1>3. CASE SwitchBackup
  BY <1>1, <1>3 DEF SwitchBackup
<1>4. CASE GateNext
  BY <1>3, <1>4, ArriveOK, TryEnterOK, NestOK, LeaveGateOK DEF GateNext
<1> QED  BY <1>2, <1>4

\* The count of each gate, its limits and its sleepers, in every reachable state.
\* (_SQLiteConcurrencyGate.operation, sqlite.py.)
THEOREM GatesInvariance == GateSpec => []GatesInv
BY GatesInitOK, GatesStepOK, PTL DEF GateSpec

LEMMA GatesInvHolds == GatesInv => GatesHold
<1> SUFFICES ASSUME GatesInv, NEW k \in Kinds
             PROVE  /\ active[k] = Cardinality(Inside(k))
                    /\ Inside(k) # {} => \E t \in Inside(k) : active[k] <= thread[t].limit
                    /\ SleepOK(k)
  BY DEF GatesHold, Inside, SleepOK
<1>1. CountOK(k) /\ LimitsOK(k) /\ SleepOK(k) /\ active[k] \in Nat
  BY DEF GatesInv, GateTypeOK
<1>2. ASSUME Inside(k) # {}, \A t \in Inside(k) : ~(active[k] <= thread[t].limit)
      PROVE  FALSE
  <2>1. active[k] # 0
    BY <1>1, <1>2, InsideFinite, FS_EmptySet DEF CountOK
  <2>2. active[k] - 1 \in Nat
    BY <1>1, <2>1
  <2>3. \A t \in Inside(k) : thread[t].limit <= active[k] - 1
    BY <1>1, <1>2 DEF Inside, GatesInv, GateTypeOK, GateStates
  <2>4. Narrow(k, active[k] - 1) = Inside(k)
    BY <2>3 DEF Narrow
  <2> QED  BY <1>1, <2>2, <2>4 DEF CountOK, LimitsOK
<1> QED  BY <1>1, <1>2 DEF CountOK

\* Whatever the threads, the limits, and the times at which they change: a gate
\* counts who is in, never exceeds what one of them was allowed, and nobody
\* sleeps beside a free slot.  (_SQLiteConcurrencyGate.operation, sqlite.py.)
THEOREM GatesAreSound == GateSpec => []GatesHold
BY GatesInvariance, GatesInvHolds, PTL

HIDE GatesAssumption

-----------------------------------------------------------------------------
(* The audio of the archives.                                              *)

Phases == {"idle", "lookup", "claim", "download", "upsert", "release", "unwind", "wait",
           "commit", "write"}
Outcomes == {"ok", "now", "backoff", "error"}

AudioTypes ==
  /\ versions \in [Archives -> Nat] /\ watermark \in [Archives -> Nat \union {Nil}]
  /\ pending \in [Archives -> [Addresses -> {Nil, "now", "backoff"}]]
  /\ row \in [Addresses -> {"none", "good", "lost"}]
  /\ claims \in [Attachments -> Archives \union {Nil}]
  /\ phase \in [Archives -> Phases] /\ top \in [Archives -> Nat]
  /\ deferred \in [Archives -> [Addresses -> {Nil, "backoff"}]]
  /\ todo \in [Archives -> SUBSET Addresses]
  /\ own \in [Archives -> SUBSET Addresses] /\ shared \in [Archives -> SUBSET Addresses]
  /\ result \in [Archives -> [Addresses -> Outcomes \union {Nil}]]

\* Something has been stored for the attachment, once.
Saved(u) == \E w \in Addresses : Attachment[w] = Attachment[u] /\ row[w] # "none"

\* What a run has read is saved, still to be handled, or will be tried again.
Cared(a, u) ==
  \/ Saved(u) \/ u \in todo[a] \union own[a] \union shared[a]
  \/ deferred[a][u] # Nil \/ result[a][u] \in {"now", "backoff"}

ReadOK(a) ==
  /\ versions[a] <= Len(AudioIn[a]) /\ top[a] <= versions[a]
  /\ phase[a] \notin {"idle", "unwind"} =>
       \A n \in 1..top[a] : \A u \in AudioIn[a][n] : Cared(a, u)

\* A success is true, but for the moment before its row is written.
SuccessOK(a) ==
  \A u \in Addresses : result[a][u] = "ok" => Saved(u) \/ (phase[a] = "upsert" /\ u \in own[a])

\* An address is in one place, and only where the run can be with it.
PlacesOK(a) ==
  /\ own[a] \intersect shared[a] = {} /\ todo[a] \intersect (own[a] \union shared[a]) = {}
  /\ todo[a] # {} => phase[a] \in {"lookup", "claim"}
  /\ own[a] # {} => phase[a] \in {"claim", "download", "upsert", "release", "unwind"}
  /\ phase[a] \in {"idle", "lookup"} => shared[a] = {} /\ result[a] = NoRetries
  /\ phase[a] \in {"upsert", "release"} =>
       \A u \in own[a] : result[a][u] \in {"ok", "now", "backoff"}
  /\ phase[a] \in {"commit", "write"} =>
       \A u \in shared[a] : result[a][u] \in {"ok", "now", "backoff"}

\* A claim is open exactly as long as one address of its owner holds it.
HoldsOK(a) ==
  /\ \A u \in own[a] : claims[Attachment[u]] = a
  /\ \A u, w \in own[a] : Attachment[u] = Attachment[w] => u = w
ClaimsHeld ==
  \A i \in Attachments : claims[i] # Nil => \E u \in own[claims[i]] : Attachment[u] = i
AwaitsOK(a) == \A u \in shared[a] : result[a][u] = Nil => claims[Attachment[u]] # Nil

RunOK(a) == ReadOK(a) /\ SuccessOK(a) /\ PlacesOK(a) /\ HoldsOK(a) /\ AwaitsOK(a)

AudioInv == AudioTypes /\ AudioAccounted /\ ClaimsHeld /\ \A a \in Archives : RunOK(a)

-----------------------------------------------------------------------------

\* A row, once written, stays, whatever becomes of its file.
RowsKeep == \A w \in Addresses : row[w] # "none" => row'[w] # "none"

\* The run of b does not move, but it may get outcomes it waits for.
Rests(b) ==
  /\ versions'[b] \in versions[b]..Len(AudioIn[b])
  /\ phase'[b] = phase[b] /\ top'[b] = top[b] /\ deferred'[b] = deferred[b]
  /\ todo'[b] = todo[b] /\ own'[b] = own[b] /\ shared'[b] = shared[b]
  /\ \A u \in own[b] : claims'[Attachment[u]] = b
  /\ \A u \in Addresses : result'[b][u] # result[b][u] =>
       /\ u \in shared[b] /\ result[b][u] = Nil /\ result'[b][u] \in Outcomes
       /\ result'[b][u] = "ok" => Saved(u)
  /\ \A u \in shared[b] : result'[b][u] = Nil => claims'[Attachment[u]] # Nil

LEMMA SavedStays ==
  ASSUME RowsKeep, NEW u \in Addresses, Saved(u)
  PROVE  Saved(u)'
BY DEF RowsKeep, Saved

LEMMA AddressesRead ==
  ASSUME NEW a \in Archives, NEW n \in 1..Len(AudioIn[a])
  PROVE  AudioIn[a][n] \in SUBSET Addresses
<1>1. AudioIn[a] \in Seq(SUBSET Addresses)
  BY AudioAssumption
<1> QED  BY <1>1

LEMMA CaredStays ==
  ASSUME RowsKeep, NEW a \in Archives, NEW u \in Addresses, Cared(a, u),
         todo'[a] = todo[a], own'[a] = own[a], shared'[a] = shared[a],
         deferred'[a] = deferred[a],
         result[a][u] \in {"now", "backoff"} => result'[a][u] = result[a][u]
  PROVE  Cared(a, u)'
BY SavedStays DEF Cared

LEMMA RestsOK ==
  ASSUME AudioTypes, AudioTypes', RowsKeep, NEW b \in Archives, RunOK(b), Rests(b)
  PROVE  RunOK(b)'
<1>0. /\ result[b] \in [Addresses -> Outcomes \union {Nil}]
      /\ result'[b] \in [Addresses -> Outcomes \union {Nil}]
      /\ versions[b] \in Nat /\ versions'[b] \in Nat /\ top[b] \in Nat /\ top'[b] \in Nat
      /\ Len(AudioIn[b]) \in Nat /\ own[b] \in SUBSET Addresses
      /\ shared[b] \in SUBSET Addresses
  BY AudioAssumption DEF AudioTypes
<1>1. \A u \in Addresses : result[b][u] # Nil => result'[b][u] = result[b][u]
  BY DEF Rests
<1>2. ReadOK(b)'
  <2>1. versions'[b] <= Len(AudioIn[b]) /\ top'[b] <= versions'[b]
    BY <1>0 DEF Rests, RunOK, ReadOK
  <2>2. ASSUME phase[b] \notin {"idle", "unwind"}, NEW n \in 1..top[b],
               NEW u \in AudioIn[b][n]
        PROVE  Cared(b, u)'
    <3>1. u \in Addresses
      BY <1>0, AddressesRead DEF RunOK, ReadOK
    <3>2. Cared(b, u)
      BY <2>2 DEF RunOK, ReadOK
    <3>3. result[b][u] \in {"now", "backoff"} => result'[b][u] = result[b][u]
      BY <1>1, <3>1, AudioAssumption
    <3> QED  BY <3>1, <3>2, <3>3, CaredStays DEF Rests
  <2> QED  BY <2>1, <2>2 DEF ReadOK, Rests
<1>3. SuccessOK(b)'
  <2> SUFFICES ASSUME NEW u \in Addresses, result'[b][u] = "ok"
               PROVE  Saved(u)' \/ (phase[b] = "upsert" /\ u \in own[b])
    BY DEF SuccessOK, Rests
  <2>1. CASE result[b][u] = "ok"
    BY <2>1, SavedStays DEF RunOK, SuccessOK
  <2>2. CASE result'[b][u] # result[b][u]
    BY <2>2, SavedStays DEF Rests
  <2> QED  BY <2>1, <2>2
<1>4. PlacesOK(b)'
  <2>1. phase[b] \in {"idle", "lookup"} => result'[b] = NoRetries
    <3> SUFFICES ASSUME phase[b] \in {"idle", "lookup"}  PROVE result'[b] = NoRetries
      OBVIOUS
    <3>1. shared[b] = {} /\ result[b] = NoRetries
      BY DEF RunOK, PlacesOK
    <3>2. \A u \in Addresses : result'[b][u] = Nil
      BY <3>1 DEF Rests, NoRetries
    <3> QED  BY <1>0, <3>2 DEF NoRetries
  <2>2. \A u \in own[b] : result'[b][u] = result[b][u]
    BY <1>0 DEF Rests, RunOK, PlacesOK
  <2>3. phase[b] \in {"commit", "write"} =>
          \A u \in shared[b] : result'[b][u] \in {"ok", "now", "backoff"}
    BY <1>0, <1>1, AudioAssumption DEF RunOK, PlacesOK
  <2> QED  BY <2>1, <2>2, <2>3 DEF RunOK, PlacesOK, Rests
<1>5. HoldsOK(b)' /\ AwaitsOK(b)'
  BY DEF RunOK, HoldsOK, AwaitsOK, Rests
<1> QED  BY <1>2, <1>3, <1>4, <1>5 DEF RunOK

LEMMA AccountedStays ==
  ASSUME AudioAccounted, RowsKeep, watermark' = watermark, pending' = pending
  PROVE  AudioAccounted'
BY DEF AudioAccounted, RowsKeep

\* One run moves and the others rest.
LEMMA OneRunMoves ==
  ASSUME AudioInv, NEW a \in Archives, RowsKeep, AudioTypes', AudioAccounted', ClaimsHeld',
         RunOK(a)', \A b \in Archives \ {a} : Rests(b)
  PROVE  AudioInv'
<1>1. ASSUME NEW b \in Archives  PROVE RunOK(b)'
  BY RestsOK DEF AudioInv
<1> QED  BY <1>1 DEF AudioInv

\* Claims and results stay: the runs of the others rest.
LEMMA OthersRest ==
  ASSUME AudioInv, NEW b \in Archives, versions' = versions, claims' = claims,
         phase'[b] = phase[b], top'[b] = top[b], deferred'[b] = deferred[b],
         todo'[b] = todo[b], own'[b] = own[b], shared'[b] = shared[b], result'[b] = result[b]
  PROVE  Rests(b)
<1>1. versions[b] \in Nat /\ Len(AudioIn[b]) \in Nat /\ versions[b] <= Len(AudioIn[b])
  BY AudioAssumption DEF AudioInv, AudioTypes, RunOK, ReadOK
<1> QED  BY <1>1 DEF AudioInv, RunOK, HoldsOK, AwaitsOK, Rests

\* A run that ends without a claim leaves nothing behind.
LEMMA LeaveOK ==
  ASSUME AudioInv, NEW a \in Archives, own[a] = {}, Leave(a),
         UNCHANGED <<versions, row, claims>>, AudioAccounted',
         watermark' \in [Archives -> Nat \union {Nil}],
         pending' \in [Archives -> [Addresses -> {Nil, "now", "backoff"}]]
  PROVE  AudioInv'
<1>1. NoRetries \in [Addresses -> {Nil}] /\ \A u \in Addresses : NoRetries[u] = Nil
  BY DEF NoRetries
<1>2. AudioTypes
  BY DEF AudioInv
<1>3. /\ phase' \in [Archives -> Phases] /\ top' \in [Archives -> Nat]
      /\ deferred' \in [Archives -> [Addresses -> {Nil, "backoff"}]]
      /\ todo' \in [Archives -> SUBSET Addresses] /\ own' \in [Archives -> SUBSET Addresses]
      /\ shared' \in [Archives -> SUBSET Addresses]
      /\ result' \in [Archives -> [Addresses -> Outcomes \union {Nil}]]
  BY <1>1, <1>2 DEF AudioTypes, Leave, AudioAt, Set, Phases
<1>4. AudioTypes'
  BY <1>2, <1>3 DEF AudioTypes
<1>5. own' = own /\ RowsKeep
  BY <1>2 DEF AudioTypes, Leave, Set, RowsKeep
<1>6. ClaimsHeld'
  BY <1>5 DEF AudioInv, ClaimsHeld
<1>7. RunOK(a)'
  <2>1. /\ phase'[a] = "idle" /\ top'[a] = 0 /\ todo'[a] = {} /\ own'[a] = {}
        /\ shared'[a] = {} /\ result'[a] = NoRetries
    BY <1>2 DEF AudioTypes, Leave, AudioAt, Set
  <2>2. versions[a] \in Nat /\ versions[a] <= Len(AudioIn[a])
    BY <1>2 DEF AudioInv, AudioTypes, RunOK, ReadOK
  <2>3. ReadOK(a)'
    BY <2>1, <2>2 DEF ReadOK
  <2>4. SuccessOK(a)'
    BY <1>1, <2>1, AudioAssumption DEF SuccessOK
  <2>5. PlacesOK(a)' /\ HoldsOK(a)' /\ AwaitsOK(a)'
    BY <2>1 DEF PlacesOK, HoldsOK, AwaitsOK
  <2> QED  BY <2>3, <2>4, <2>5 DEF RunOK
<1>8. ASSUME NEW b \in Archives \ {a}  PROVE Rests(b)
  BY <1>2, OthersRest DEF Leave, AudioAt, Set, AudioTypes
<1> QED  BY <1>4, <1>5, <1>6, <1>7, <1>8, OneRunMoves

LEMMA AudioInitOK == AudioInit => AudioInv
<1> SUFFICES ASSUME AudioInit PROVE AudioInv
  OBVIOUS
<1>1. NoRetries \in [Addresses -> {Nil}] /\ \A u \in Addresses : NoRetries[u] = Nil
  BY DEF NoRetries
<1>2. AudioTypes
  BY <1>1 DEF AudioInit, AudioTypes, Phases
<1>3. AudioAccounted /\ ClaimsHeld
  BY DEF AudioInit, AudioAccounted, ClaimsHeld
<1>4. ASSUME NEW a \in Archives  PROVE RunOK(a)
  <2>1. /\ phase[a] = "idle" /\ top[a] = 0 /\ versions[a] = 0 /\ todo[a] = {}
        /\ own[a] = {} /\ shared[a] = {} /\ result[a] = NoRetries
    BY DEF AudioInit
  <2>2. 0 <= Len(AudioIn[a])
    BY AudioAssumption
  <2>3. ReadOK(a) /\ SuccessOK(a)
    BY <1>1, <2>1, <2>2, AudioAssumption DEF ReadOK, SuccessOK
  <2> QED  BY <2>1, <2>3 DEF RunOK, PlacesOK, HoldsOK, AwaitsOK
<1> QED  BY <1>2, <1>3, <1>4 DEF AudioInv

-----------------------------------------------------------------------------

LEMMA BeginAudioOK ==
  ASSUME AudioInv, NEW a \in Archives, NEW force \in BOOLEAN, BeginAudio(a, force)
  PROVE  AudioInv'
<1> DEFINE after == IF force \/ watermark[a] = Nil THEN 0 ELSE watermark[a]
           found == UNION {AudioIn[a][n] : n \in (after + 1)..versions[a]}
           kept == {u \in ToRetry(a) : ~Mapped(u)}
           waits == {u \in kept : ~force /\ pending[a][u] = "backoff"}
           new == {u \in found \ ToRetry(a) : ~Mapped(u)}
<1>1. PICK late \in SUBSET waits :
        /\ deferred' = Set(deferred, a, [u \in Addresses |->
                         IF u \in late THEN pending[a][u] ELSE Nil])
        /\ todo' = Set(todo, a, new \union (kept \ late))
  BY DEF BeginAudio
<1>2. /\ phase[a] = "idle" /\ top' = [top EXCEPT ![a] = versions[a]]
      /\ phase' = [phase EXCEPT ![a] = "lookup"]
      /\ UNCHANGED <<versions, watermark, pending, row, claims, own, shared, result>>
  BY DEF BeginAudio, AudioAt, Set
<1>3. AudioTypes /\ RunOK(a)
  BY DEF AudioInv
<1>4. /\ versions[a] \in Nat /\ versions[a] <= Len(AudioIn[a]) /\ after \in Nat
      /\ Len(AudioIn[a]) \in Nat
      /\ pending[a] \in [Addresses -> {Nil, "now", "backoff"}]
  BY <1>3, AudioAssumption DEF AudioTypes, RunOK, ReadOK
<1>5. new \in SUBSET Addresses /\ kept \in SUBSET Addresses
  <2>1. \A n \in (after + 1)..versions[a] : AudioIn[a][n] \in SUBSET Addresses
    BY <1>4, AddressesRead
  <2>2. found \in SUBSET Addresses
    BY <2>1
  <2> QED  BY <2>2 DEF ToRetry
<1>6. /\ deferred'[a] \in [Addresses -> {Nil, "backoff"}]
      /\ \A u \in late : deferred'[a][u] = "backoff" /\ pending[a][u] = "backoff"
      /\ deferred' \in [Archives -> [Addresses -> {Nil, "backoff"}]]
      /\ todo' \in [Archives -> SUBSET Addresses]
      /\ todo'[a] = new \union (kept \ late)
      /\ \A b \in Archives \ {a} : deferred'[b] = deferred[b] /\ todo'[b] = todo[b]
  <2>1. late \in SUBSET Addresses /\ \A u \in late : pending[a][u] = "backoff"
    BY <1>5
  <2>2. [u \in Addresses |-> IF u \in late THEN pending[a][u] ELSE Nil]
          \in [Addresses -> {Nil, "backoff"}]
    BY <2>1
  <2> HIDE DEF new, kept, waits
  <2> QED  BY <1>1, <1>3, <1>5, <2>1, <2>2 DEF Set, AudioTypes
<1>7. AudioTypes'
  BY <1>2, <1>3, <1>4, <1>6 DEF AudioTypes, Phases
<1>8. RowsKeep /\ ClaimsHeld' /\ AudioAccounted'
  BY <1>2, AccountedStays DEF RowsKeep, ClaimsHeld, AudioInv
<1>9. /\ phase'[a] = "lookup" /\ top'[a] = versions[a] /\ own'[a] = {} /\ shared'[a] = {}
      /\ result'[a] = NoRetries
  BY <1>2, <1>3 DEF AudioTypes, RunOK, PlacesOK
<1>10. ASSUME NEW n \in 1..versions[a], NEW u \in AudioIn[a][n]
       PROVE  Cared(a, u)'
  <2>1. u \in Addresses
    BY <1>4, AddressesRead
  <2>2. CASE Mapped(u)
    BY <1>2, <2>2 DEF Mapped, Saved, Cared
  <2>3. CASE ~Mapped(u) /\ u \in ToRetry(a)
    <3>1. u \in kept
      BY <2>3
    <3> HIDE DEF kept, new
    <3> QED  BY <1>6, <3>1, AudioAssumption DEF Cared
  <2>4. CASE ~Mapped(u) /\ u \notin ToRetry(a)
    <3>1. CASE n > after
      <4>1. u \in new
        BY <1>4, <2>4, <3>1
      <4> HIDE DEF kept, new
      <4> QED  BY <1>6, <4>1 DEF Cared
    <3>2. CASE ~(n > after)
      <4>1. watermark[a] # Nil /\ n \in 1..watermark[a]
        BY <1>4, <3>2
      <4>2. pending[a][u] = Nil
        BY <2>1, <2>4 DEF ToRetry
      <4>3. Saved(u)
        BY <4>1, <4>2 DEF AudioInv, AudioAccounted, Saved
      <4> QED  BY <1>8, <2>1, <4>3, SavedStays DEF Cared
    <3> QED  BY <3>1, <3>2
  <2> QED  BY <2>2, <2>3, <2>4
<1> HIDE DEF new, kept, waits, after
<1>11. RunOK(a)'
  <2>1. ReadOK(a)'
    BY <1>2, <1>4, <1>9, <1>10 DEF ReadOK
  <2>2. SuccessOK(a)'
    BY <1>9, AudioAssumption DEF SuccessOK, NoRetries
  <2>3. PlacesOK(a)' /\ HoldsOK(a)' /\ AwaitsOK(a)'
    BY <1>9 DEF PlacesOK, HoldsOK, AwaitsOK
  <2> QED  BY <2>1, <2>2, <2>3 DEF RunOK
<1>12. ASSUME NEW b \in Archives \ {a}  PROVE Rests(b)
  BY <1>2, <1>3, <1>6, OthersRest DEF AudioTypes
<1> QED  BY <1>7, <1>8, <1>11, <1>12, OneRunMoves

LEMMA LookupOK ==
  ASSUME AudioInv, NEW a \in Archives, Lookup(a)
  PROVE  AudioInv'
<1> DEFINE there == {u \in todo[a] : Mapped(u)}
           found == [u \in Addresses |-> IF u \in there THEN "ok" ELSE Nil]
<1>1. /\ phase[a] = "lookup" /\ phase' = [phase EXCEPT ![a] = "claim"]
      /\ result' = [result EXCEPT ![a] = found]
      /\ todo' = [todo EXCEPT ![a] = todo[a] \ there]
      /\ UNCHANGED <<versions, watermark, pending, row, claims, top, deferred, own, shared>>
  BY DEF Lookup, AudioAt, Set
<1>2. AudioTypes /\ RunOK(a)
  BY DEF AudioInv
<1>3. found \in [Addresses -> Outcomes \union {Nil}] /\ todo[a] \in SUBSET Addresses
  BY <1>2 DEF AudioTypes, Outcomes
<1>4. \A u \in there : Saved(u)
  BY DEF Mapped, Saved
<1>5. \A u \in Addresses : found[u] = IF u \in there THEN "ok" ELSE Nil
  OBVIOUS
<1> HIDE DEF there, found
<1>6. AudioTypes'
  BY <1>1, <1>2, <1>3 DEF AudioTypes, Phases
<1>7. RowsKeep /\ ClaimsHeld' /\ AudioAccounted'
  BY <1>1, AccountedStays DEF RowsKeep, ClaimsHeld, AudioInv
<1>8. /\ phase'[a] = "claim" /\ own'[a] = {} /\ shared'[a] = {} /\ result'[a] = found
      /\ result[a] = NoRetries /\ todo'[a] = todo[a] \ there /\ own[a] = {} /\ shared[a] = {}
  BY <1>1, <1>2 DEF AudioTypes, RunOK, PlacesOK
<1>9. RunOK(a)'
  <2>1. ASSUME NEW n \in 1..top[a], NEW u \in AudioIn[a][n]  PROVE Cared(a, u)'
    <3>1. Cared(a, u)
      BY <1>1, <1>2 DEF RunOK, ReadOK
    <3>2. u \in Addresses
      BY <1>2, AddressesRead, AudioAssumption DEF AudioTypes, RunOK, ReadOK
    <3>3. NoRetries[u] = Nil
      BY <3>2 DEF NoRetries
    <3>4. Saved(u) => Saved(u)'
      BY <1>7, <3>2, SavedStays
    <3> QED  BY <1>1, <1>4, <1>8, <3>1, <3>3, <3>4, AudioAssumption DEF Cared
  <2>2. ReadOK(a)'
    BY <1>1, <1>2, <2>1 DEF RunOK, ReadOK
  <2>3. SuccessOK(a)'
    BY <1>4, <1>5, <1>7, <1>8, SavedStays, AudioAssumption DEF SuccessOK
  <2>4. PlacesOK(a)' /\ HoldsOK(a)' /\ AwaitsOK(a)'
    BY <1>8 DEF PlacesOK, HoldsOK, AwaitsOK
  <2> QED  BY <2>2, <2>3, <2>4 DEF RunOK
<1>10. ASSUME NEW b \in Archives \ {a}  PROVE Rests(b)
  BY <1>1, <1>2, OthersRest DEF AudioTypes
<1> QED  BY <1>6, <1>7, <1>9, <1>10, OneRunMoves

LEMMA ClaimOK ==
  ASSUME AudioInv, NEW a \in Archives, Claim(a)
  PROVE  AudioInv'
<1>1. AudioTypes /\ RunOK(a) /\ ClaimsHeld /\ phase[a] = "claim"
  BY DEF AudioInv, Claim
<1>2. UNCHANGED <<versions, watermark, pending, row, top, deferred, result>>
  BY DEF Claim
<1>3. RowsKeep /\ AudioAccounted'
  BY <1>2, AccountedStays DEF RowsKeep, AudioInv
<1>4. CASE todo[a] = {}
  <2>1. phase' = [phase EXCEPT ![a] = "download"] /\ UNCHANGED <<claims, own, shared, todo>>
    BY <1>4 DEF Claim, AudioAt, Set
  <2>2. AudioTypes' /\ ClaimsHeld' /\ phase'[a] = "download"
    BY <1>1, <1>2, <2>1 DEF AudioTypes, Phases, ClaimsHeld
  <2>3. ASSUME NEW n \in 1..top[a], NEW u \in AudioIn[a][n]  PROVE Cared(a, u)'
    <3>1. Cared(a, u)
      BY <1>1 DEF RunOK, ReadOK
    <3> QED  BY <1>2, <2>1, <3>1 DEF Cared, Saved
  <2>4. ReadOK(a)'
    BY <1>1, <1>2, <2>3 DEF RunOK, ReadOK
  <2>5. SuccessOK(a)'
    BY <1>1, <1>2, <2>1, <2>2 DEF RunOK, SuccessOK, Saved
  <2>6. PlacesOK(a)' /\ HoldsOK(a)' /\ AwaitsOK(a)'
    BY <1>1, <1>2, <1>4, <2>1, <2>2 DEF RunOK, PlacesOK, HoldsOK, AwaitsOK
  <2>7. ASSUME NEW b \in Archives \ {a}  PROVE Rests(b)
    BY <1>1, <1>2, <2>1, OthersRest DEF AudioTypes
  <2> QED  BY <1>3, <2>2, <2>4, <2>5, <2>6, <2>7, OneRunMoves DEF RunOK
<1>5. CASE todo[a] # {}
  <2>1. PICK u \in todo[a] : u = First(todo[a])
    BY <1>5 DEF First
  <2>2. u \in Addresses /\ Attachment[u] \in Attachments
        /\ u \notin own[a] /\ u \notin shared[a]
    BY <1>1 DEF AudioTypes, Attachments, RunOK, PlacesOK
  <2>3. /\ todo' = [todo EXCEPT ![a] = todo[a] \ {u}] /\ phase' = phase
        /\ \/ /\ claims[Attachment[u]] = Nil /\ claims' = [claims EXCEPT ![Attachment[u]] = a]
              /\ own' = [own EXCEPT ![a] = own[a] \union {u}] /\ shared' = shared
           \/ /\ claims[Attachment[u]] # Nil /\ UNCHANGED <<claims, own>>
              /\ shared' = [shared EXCEPT ![a] = shared[a] \union {u}]
    BY <1>5, <2>1 DEF Claim, Set
  <2>4. todo[a] \in SUBSET Addresses /\ own[a] \in SUBSET Addresses
        /\ shared[a] \in SUBSET Addresses
    BY <1>1 DEF AudioTypes
  <2>5. /\ todo' \in [Archives -> SUBSET Addresses] /\ own' \in [Archives -> SUBSET Addresses]
        /\ shared' \in [Archives -> SUBSET Addresses]
        /\ claims' \in [Attachments -> Archives \union {Nil}]
    <3>1. todo' \in [Archives -> SUBSET Addresses]
      BY <1>1, <2>3, <2>4 DEF AudioTypes
    <3>2. own[a] \union {u} \in SUBSET Addresses /\ shared[a] \union {u} \in SUBSET Addresses
      BY <2>2, <2>4
    <3>3. own \in [Archives -> SUBSET Addresses] /\ shared \in [Archives -> SUBSET Addresses]
      BY <1>1 DEF AudioTypes
    <3>5. own' \in [Archives -> SUBSET Addresses] /\ shared' \in [Archives -> SUBSET Addresses]
      BY <2>3, <3>2, <3>3
    <3>4. claims' \in [Attachments -> Archives \union {Nil}]
      BY <1>1, <2>2, <2>3 DEF AudioTypes
    <3> QED  BY <3>1, <3>4, <3>5
  <2>6. AudioTypes'
    BY <1>1, <1>2, <2>3, <2>5 DEF AudioTypes
  <2>7. /\ todo'[a] = todo[a] \ {u}
        /\ \/ own'[a] = own[a] \union {u} /\ shared'[a] = shared[a]
           \/ own'[a] = own[a] /\ shared'[a] = shared[a] \union {u}
        /\ \A b \in Archives \ {a} :
             todo'[b] = todo[b] /\ own'[b] = own[b] /\ shared'[b] = shared[b]
    BY <1>1, <2>3 DEF AudioTypes
  <2>8. \A i \in Attachments : claims[i] # Nil => claims'[i] = claims[i]
    BY <1>1, <2>2, <2>3 DEF AudioTypes
  <2>9. ReadOK(a)'
    <3>1. ASSUME NEW n \in 1..top[a], NEW w \in AudioIn[a][n]  PROVE Cared(a, w)'
      <4>1. Cared(a, w)
        BY <1>1 DEF RunOK, ReadOK
      <4> QED  BY <1>2, <2>7, <4>1 DEF Cared, Saved
    <3> QED  BY <1>1, <1>2, <3>1 DEF RunOK, ReadOK
  <2>10. SuccessOK(a)'
    BY <1>1, <1>2, <2>3 DEF RunOK, SuccessOK, Saved
  <2>11. PlacesOK(a)'
    BY <1>1, <1>2, <2>2, <2>3, <2>7 DEF RunOK, PlacesOK
  <2>12. ASSUME NEW b \in Archives  PROVE HoldsOK(b)' /\ AwaitsOK(b)'
    <3>1. HoldsOK(b) /\ AwaitsOK(b) /\ own[b] \in SUBSET Addresses
          /\ shared[b] \in SUBSET Addresses
      BY <1>1 DEF AudioInv, AudioTypes, RunOK
    <3>2. \A w \in own[b] : claims[Attachment[w]] # Nil /\ Attachment[w] \in Attachments
      BY <3>1, AudioAssumption DEF HoldsOK, Attachments
    <3>3. \A w \in shared[b] : Attachment[w] \in Attachments
      BY <3>1 DEF Attachments
    <3>4. \A w \in own[b] : claims'[Attachment[w]] = b
      BY <2>8, <3>1, <3>2 DEF HoldsOK
    <3>5. CASE own'[b] = own[b]
      <4>1. HoldsOK(b)'
        BY <3>1, <3>4, <3>5 DEF HoldsOK
      <4>2. shared'[b] = shared[b]
              \/ (shared'[b] = shared[b] \union {u} /\ claims'[Attachment[u]] # Nil)
        BY <1>1, <2>2, <2>3, <3>5 DEF AudioTypes
      <4>3. \A w \in shared[b] : result'[b][w] = Nil => claims'[Attachment[w]] # Nil
        BY <1>2, <2>8, <3>1, <3>3 DEF AwaitsOK
      <4> QED  BY <4>1, <4>2, <4>3 DEF AwaitsOK
    <3>6. CASE own'[b] # own[b]
      <4>1. /\ b = a /\ own'[a] = own[a] \union {u} /\ shared'[a] = shared[a]
            /\ claims[Attachment[u]] = Nil /\ claims'[Attachment[u]] = a
        BY <1>1, <2>2, <2>3, <3>6 DEF AudioTypes
      <4>2. HoldsOK(b)'
        BY <3>1, <3>2, <3>4, <4>1 DEF HoldsOK
      <4>3. AwaitsOK(b)'
        BY <1>2, <2>8, <3>1, <3>3, <4>1 DEF AwaitsOK
      <4> QED  BY <4>2, <4>3
    <3> QED  BY <3>5, <3>6
  <2>13. ClaimsHeld'
    <3> SUFFICES ASSUME NEW i \in Attachments, claims'[i] # Nil
                 PROVE  \E w \in own'[claims'[i]] : Attachment[w] = i
      BY DEF ClaimsHeld
    <3>1. CASE claims[i] # Nil
      <4>1. claims'[i] = claims[i] /\ claims[i] \in Archives
        BY <1>1, <2>8, <3>1 DEF AudioTypes
      <4>2. PICK w \in own[claims[i]] : Attachment[w] = i
        BY <1>1, <3>1 DEF ClaimsHeld
      <4>3. w \in own'[claims[i]]
        BY <2>7, <4>1
      <4> QED  BY <4>1, <4>2, <4>3
    <3>2. CASE claims[i] = Nil
      <4>1. i = Attachment[u] /\ claims'[i] = a /\ u \in own'[a]
        BY <1>1, <2>2, <2>3, <3>2 DEF AudioTypes
      <4> QED  BY <4>1
    <3> QED  BY <3>1, <3>2
  <2>14. ASSUME NEW b \in Archives \ {a}  PROVE Rests(b)
    <3>1. HoldsOK(b)' /\ AwaitsOK(b)' /\ own'[b] = own[b] /\ shared'[b] = shared[b]
      BY <2>7, <2>12
    <3>2. versions[b] \in Nat /\ Len(AudioIn[b]) \in Nat /\ versions[b] <= Len(AudioIn[b])
      BY AudioAssumption DEF AudioInv, AudioTypes, RunOK, ReadOK
    <3> QED  BY <1>2, <2>3, <2>7, <3>1, <3>2 DEF Rests, HoldsOK, AwaitsOK
  <2>15. RunOK(a)'
    BY <2>9, <2>10, <2>11, <2>12 DEF RunOK
  <2> QED  BY <1>3, <2>6, <2>13, <2>14, <2>15, OneRunMoves
<1> QED  BY <1>4, <1>5

LEMMA DownloadOK ==
  ASSUME AudioInv, NEW a \in Archives, Download(a)
  PROVE  AudioInv'
<1>1. AudioTypes /\ RunOK(a) /\ phase[a] = "download"
  BY DEF AudioInv, Download
<1>2. UNCHANGED <<versions, watermark, pending, row, claims, top, deferred, todo, own, shared>>
  BY DEF Download
<1>3. RowsKeep /\ ClaimsHeld' /\ AudioAccounted'
  BY <1>2, AccountedStays DEF RowsKeep, ClaimsHeld, AudioInv
<1>4. /\ result[a] \in [Addresses -> Outcomes \union {Nil}] /\ own[a] \in SUBSET Addresses
      /\ todo[a] = {}
  BY <1>1 DEF AudioTypes, RunOK, PlacesOK
<1>5. /\ result'[a] \in [Addresses -> Outcomes \union {Nil}]
      /\ \A u \in Addresses : u \notin own[a] => result'[a][u] = result[a][u]
      /\ \/ phase'[a] = "upsert" /\ \A u \in own[a] : result'[a][u] \in {"ok", "now", "backoff"}
         \/ phase'[a] = "unwind" /\ result'[a] = result[a]
      /\ phase' \in [Archives -> Phases]
      /\ result' \in [Archives -> [Addresses -> Outcomes \union {Nil}]]
      /\ \A b \in Archives \ {a} : phase'[b] = phase[b] /\ result'[b] = result[b]
  <2>1. CASE phase' = [phase EXCEPT ![a] = "unwind"] /\ result' = result
    BY <1>1, <1>4, <2>1 DEF AudioTypes, Phases
  <2>2. ASSUME NEW out \in [own[a] -> {"ok", "now", "backoff"}],
               result' = [result EXCEPT ![a] = [u \in Addresses |->
                            IF u \in own[a] THEN out[u] ELSE result[a][u]]],
               phase' = [phase EXCEPT ![a] = "upsert"]
        PROVE  <1>5!1 /\ <1>5!2 /\ <1>5!3 /\ <1>5!4 /\ <1>5!5 /\ <1>5!6
    <3> DEFINE new == [u \in Addresses |-> IF u \in own[a] THEN out[u] ELSE result[a][u]]
    <3>1. \A u \in Addresses : new[u] = IF u \in own[a] THEN out[u] ELSE result[a][u]
      OBVIOUS
    <3>2. new \in [Addresses -> Outcomes \union {Nil}]
      BY <1>4 DEF Outcomes
    <3>3. result' = [result EXCEPT ![a] = new]
      BY <2>2
    <3> HIDE DEF new
    <3>4. result'[a] = new /\ phase'[a] = "upsert"
      BY <1>1, <2>2, <3>3 DEF AudioTypes
    <3> QED  BY <1>1, <1>4, <2>2, <3>1, <3>2, <3>3, <3>4 DEF AudioTypes, Phases
  <2> QED  BY <2>1, <2>2 DEF Download, AudioAt, Set
<1>6. AudioTypes'
  BY <1>1, <1>2, <1>5 DEF AudioTypes
<1>7. RunOK(a)'
  <2>1. ASSUME NEW n \in 1..top[a], NEW u \in AudioIn[a][n]  PROVE Cared(a, u)'
    <3>1. Cared(a, u)
      BY <1>1 DEF RunOK, ReadOK
    <3>2. u \in Addresses
      BY <1>1, AddressesRead, AudioAssumption DEF AudioTypes, RunOK, ReadOK
    <3> QED  BY <1>2, <1>5, <3>1, <3>2 DEF Cared, Saved
  <2>2. ReadOK(a)'
    BY <1>1, <1>2, <2>1 DEF RunOK, ReadOK
  <2>3. SuccessOK(a)'
    BY <1>1, <1>2, <1>5 DEF RunOK, SuccessOK, Saved
  <2>4. PlacesOK(a)'
    BY <1>1, <1>2, <1>5 DEF RunOK, PlacesOK
  <2>5. HoldsOK(a)' /\ AwaitsOK(a)'
    BY <1>1, <1>2, <1>4, <1>5 DEF AudioTypes, RunOK, PlacesOK, HoldsOK, AwaitsOK
  <2> QED  BY <2>2, <2>3, <2>4, <2>5 DEF RunOK
<1>8. ASSUME NEW b \in Archives \ {a}  PROVE Rests(b)
  BY <1>2, <1>5, OthersRest
<1> QED  BY <1>3, <1>6, <1>7, <1>8, OneRunMoves

LEMMA UpsertOK ==
  ASSUME AudioInv, NEW a \in Archives, Upsert(a)
  PROVE  AudioInv'
<1>1. AudioTypes /\ RunOK(a) /\ phase[a] = "upsert" /\ phase' = [phase EXCEPT ![a] = "release"]
  BY DEF AudioInv, Upsert, AudioAt, Set
<1>2. UNCHANGED <<versions, watermark, pending, claims, top, deferred, todo, own, shared>>
  BY DEF Upsert
<1>3. /\ result[a] \in [Addresses -> Outcomes \union {Nil}] /\ own[a] \in SUBSET Addresses
      /\ todo[a] = {}
  BY <1>1 DEF AudioTypes, RunOK, PlacesOK
<1>4. \/ /\ result' = result
         /\ row' = [u \in Addresses |->
              IF u \in own[a] /\ result[a][u] = "ok" THEN "good" ELSE row[u]]
      \/ row' = row /\ result' = [result EXCEPT ![a] = AfterFailedUpsert(a)]
  BY DEF Upsert, Set
<1>5. RowsKeep /\ row' \in [Addresses -> {"none", "good", "lost"}]
  BY <1>1, <1>4 DEF AudioTypes, RowsKeep
<1>6. /\ result' \in [Archives -> [Addresses -> Outcomes \union {Nil}]]
      /\ \A b \in Archives \ {a} : result'[b] = result[b]
      /\ \A u \in Addresses :
           \/ result'[a][u] = result[a][u]
           \/ u \in own[a] /\ result[a][u] = "ok" /\ result'[a][u] = "now"
      /\ \A u \in own[a] : result'[a][u] = "ok" => row'[u] = "good"
  <2>1. CASE row' = row /\ result' = [result EXCEPT ![a] = AfterFailedUpsert(a)]
    <3>1. \A u \in Addresses : AfterFailedUpsert(a)[u] =
            IF u \in own[a] /\ result[a][u] = "ok" THEN "now" ELSE result[a][u]
      BY DEF AfterFailedUpsert
    <3>2. AfterFailedUpsert(a) \in [Addresses -> Outcomes \union {Nil}]
      BY <1>3 DEF AfterFailedUpsert, Outcomes
    <3>3. result'[a] = AfterFailedUpsert(a)
      BY <1>1, <2>1 DEF AudioTypes
    <3>4. \A u \in own[a] : result'[a][u] # "ok"
      BY <1>3, <3>1, <3>3
    <3> QED  BY <1>1, <1>3, <2>1, <3>1, <3>2, <3>3, <3>4 DEF AudioTypes
  <2>2. CASE result' = result /\ \A u \in Addresses :
               row'[u] = IF u \in own[a] /\ result[a][u] = "ok" THEN "good" ELSE row[u]
    BY <1>1, <1>3, <2>2 DEF AudioTypes
  <2> QED  BY <1>4, <2>1, <2>2
<1>7. AudioTypes'
  BY <1>1, <1>2, <1>5, <1>6 DEF AudioTypes, Phases
<1>8. ClaimsHeld' /\ AudioAccounted'
  BY <1>2, <1>5, AccountedStays DEF ClaimsHeld, AudioInv
<1>9. phase'[a] = "release"
  BY <1>1 DEF AudioTypes
<1>10. RunOK(a)'
  <2>1. ASSUME NEW n \in 1..top[a], NEW u \in AudioIn[a][n]  PROVE Cared(a, u)'
    <3>1. Cared(a, u)
      BY <1>1 DEF RunOK, ReadOK
    <3>2. u \in Addresses
      BY <1>1, AddressesRead, AudioAssumption DEF AudioTypes, RunOK, ReadOK
    <3>3. result[a][u] \in {"now", "backoff"} => result'[a][u] = result[a][u]
      BY <1>6, <3>2
    <3> QED  BY <1>2, <1>5, <3>1, <3>2, <3>3, CaredStays
  <2>2. ReadOK(a)'
    BY <1>1, <1>2, <2>1 DEF RunOK, ReadOK
  <2>3. SuccessOK(a)'
    <3> SUFFICES ASSUME NEW u \in Addresses, result'[a][u] = "ok"  PROVE Saved(u)'
      BY DEF SuccessOK
    <3>1. CASE u \in own[a]
      BY <1>6, <3>1 DEF Saved
    <3>2. CASE u \notin own[a]
      <4>1. Saved(u)
        BY <1>1, <1>6, <3>2 DEF RunOK, SuccessOK
      <4> QED  BY <1>5, <4>1, SavedStays
    <3> QED  BY <3>1, <3>2
  <2>4. PlacesOK(a)'
    BY <1>1, <1>2, <1>3, <1>6, <1>9 DEF RunOK, PlacesOK
  <2>5. HoldsOK(a)'
    BY <1>1, <1>2 DEF RunOK, HoldsOK
  <2>6. AwaitsOK(a)'
    <3>1. \A u \in shared[a] : u \in Addresses /\ u \notin own[a]
      BY <1>1 DEF AudioTypes, RunOK, PlacesOK
    <3>2. \A u \in shared[a] : result'[a][u] = result[a][u]
      BY <1>6, <3>1
    <3> QED  BY <1>1, <1>2, <3>2 DEF RunOK, AwaitsOK
  <2> QED  BY <2>2, <2>3, <2>4, <2>5, <2>6 DEF RunOK
<1>11. ASSUME NEW b \in Archives \ {a}  PROVE Rests(b)
  BY <1>1, <1>2, <1>6, OthersRest DEF AudioTypes
<1> QED  BY <1>5, <1>7, <1>8, <1>10, <1>11, OneRunMoves

\* A claim is released with an outcome, and all who wait for it get that.
LEMMA ReleaseOneOK ==
  ASSUME AudioInv, NEW a \in Archives, NEW u \in own[a], NEW o \in Outcomes,
         ReleaseOne(a, u, o), o = "ok" => Saved(u),
         phase[a] = "unwind" \/ (phase[a] = "release" /\ o = result[a][u] /\ o # "error"),
         UNCHANGED <<versions, watermark, pending, row, phase, top, deferred, todo, shared>>
  PROVE  AudioInv'
<1>1. AudioTypes /\ RunOK(a) /\ ClaimsHeld /\ o # Nil
  BY AudioAssumption DEF AudioInv, Outcomes
<1>2. /\ u \in Addresses /\ Attachment[u] \in Attachments /\ claims[Attachment[u]] = a
      /\ own[a] \in SUBSET Addresses /\ u \notin shared[a]
  BY <1>1 DEF AudioTypes, Attachments, RunOK, HoldsOK, PlacesOK
<1>3. /\ claims' = [claims EXCEPT ![Attachment[u]] = Nil]
      /\ own' = [own EXCEPT ![a] = own[a] \ {u}]
      /\ \A b \in Archives : \A w \in Addresses : result'[b][w] =
           IF w \in shared[b] /\ result[b][w] = Nil /\ Attachment[w] = Attachment[u]
           THEN o ELSE result[b][w]
      /\ result' \in [Archives -> [Addresses -> Outcomes \union {Nil}]]
  <2>1. result' = Answered(u, o)
    BY DEF ReleaseOne
  <2>2. result' \in [Archives -> [Addresses -> Outcomes \union {Nil}]]
    BY <1>1, <2>1 DEF Answered, AudioTypes
  <2> QED  BY <2>1, <2>2 DEF ReleaseOne, Set, Answered
<1>4. /\ own'[a] = own[a] \ {u} /\ \A b \in Archives \ {a} : own'[b] = own[b]
      /\ claims'[Attachment[u]] = Nil
      /\ \A i \in Attachments : i # Attachment[u] => claims'[i] = claims[i]
  BY <1>1, <1>2, <1>3 DEF AudioTypes
<1>5. AudioTypes'
  BY <1>1, <1>2, <1>3 DEF AudioTypes
<1>6. RowsKeep /\ AudioAccounted'
  BY AccountedStays DEF RowsKeep, AudioInv
<1>7. ClaimsHeld'
  <2> SUFFICES ASSUME NEW i \in Attachments, claims'[i] # Nil
               PROVE  \E w \in own'[claims'[i]] : Attachment[w] = i
    BY DEF ClaimsHeld
  <2>1. i # Attachment[u] /\ claims'[i] = claims[i] /\ claims[i] \in Archives
    BY <1>1, <1>4 DEF AudioTypes
  <2>2. PICK w \in own[claims[i]] : Attachment[w] = i
    BY <1>1, <2>1 DEF ClaimsHeld
  <2>3. w \in own'[claims[i]]
    BY <1>4, <2>1, <2>2
  <2> QED  BY <2>1, <2>2, <2>3
<1>8. ASSUME NEW b \in Archives  PROVE HoldsOK(b)' /\ AwaitsOK(b)'
  <2>1. HoldsOK(b) /\ AwaitsOK(b) /\ own[b] \in SUBSET Addresses
        /\ shared[b] \in SUBSET Addresses /\ own'[b] \in SUBSET own[b]
    BY <1>1, <1>4 DEF AudioInv, AudioTypes, RunOK
  <2>2. \A w \in own'[b] : Attachment[w] \in Attachments /\ Attachment[w] # Attachment[u]
    <3>1. CASE b = a
      BY <1>4, <2>1, <3>1 DEF HoldsOK, Attachments
    <3>2. CASE b # a
      BY <1>2, <2>1, <3>2 DEF HoldsOK, Attachments
    <3> QED  BY <3>1, <3>2
  <2>3. HoldsOK(b)'
    BY <1>4, <2>1, <2>2 DEF HoldsOK
  <2>4. AwaitsOK(b)'
    <3> SUFFICES ASSUME NEW w \in shared[b], result'[b][w] = Nil
                 PROVE  claims'[Attachment[w]] # Nil
      BY DEF AwaitsOK
    <3>1. result[b][w] = Nil /\ Attachment[w] # Attachment[u] /\ Attachment[w] \in Attachments
      BY <1>1, <1>3, <2>1 DEF Attachments
    <3> QED  BY <1>4, <2>1, <3>1 DEF AwaitsOK
  <2> QED  BY <2>3, <2>4
<1>9. RunOK(a)'
  <2>1. \A w \in Addresses : result[a][w] # Nil => result'[a][w] = result[a][w]
    BY <1>3
  <2>2. ASSUME phase[a] # "unwind", NEW n \in 1..top[a], NEW w \in AudioIn[a][n]
        PROVE  Cared(a, w)'
    <3>1. Cared(a, w)
      BY <1>1, <2>2 DEF RunOK, ReadOK
    <3>2. w \in Addresses
      BY <1>1, AddressesRead, AudioAssumption DEF AudioTypes, RunOK, ReadOK
    <3>3. Saved(w) => Saved(w)'
      BY <1>6, <3>2, SavedStays
    <3>4. CASE w = u
      <4>1. o = result[a][u] /\ o \in {"ok", "now", "backoff"} /\ result'[a][u] = o
        BY <1>1, <1>2, <2>1, <2>2 DEF Outcomes
      <4> QED  BY <3>3, <3>4, <4>1 DEF Cared
    <3>5. CASE w # u
      <4>1. result[a][w] \in {"now", "backoff"} => result'[a][w] = result[a][w]
        BY <2>1, <3>2, AudioAssumption
      <4> QED  BY <1>4, <3>1, <3>3, <3>5, <4>1 DEF Cared
    <3> QED  BY <3>4, <3>5
  <2>3. ReadOK(a)'
    BY <1>1, <2>2 DEF RunOK, ReadOK
  <2>4. SuccessOK(a)'
    <3> SUFFICES ASSUME NEW w \in Addresses, result'[a][w] = "ok"  PROVE Saved(w)'
      BY DEF SuccessOK
    <3>1. CASE result[a][w] = "ok"
      BY <1>1, <1>6, <3>1, SavedStays DEF RunOK, SuccessOK
    <3>2. CASE result[a][w] # "ok"
      <4>1. o = "ok" /\ Attachment[w] = Attachment[u]
        BY <1>3, <3>2
      <4>2. Saved(w)
        BY <4>1 DEF Saved
      <4> QED  BY <1>6, <4>2, SavedStays
    <3> QED  BY <3>1, <3>2
  <2>5. PlacesOK(a)'
    <3>1. \A w \in own[a] : result'[a][w] = result[a][w]
      BY <1>1, <1>2, <1>3 DEF RunOK, PlacesOK
    <3> QED  BY <1>1, <1>2, <1>4, <3>1 DEF RunOK, PlacesOK
  <2> QED  BY <1>8, <2>3, <2>4, <2>5 DEF RunOK
<1>10. ASSUME NEW b \in Archives \ {a}  PROVE Rests(b)
  <2>1. HoldsOK(b)' /\ AwaitsOK(b)' /\ own'[b] = own[b]
    BY <1>4, <1>8
  <2>2. versions[b] \in Nat /\ Len(AudioIn[b]) \in Nat /\ versions[b] <= Len(AudioIn[b])
    BY AudioAssumption DEF AudioInv, AudioTypes, RunOK, ReadOK
  <2>3. \A w \in Addresses : result'[b][w] # result[b][w] =>
          /\ w \in shared[b] /\ result[b][w] = Nil /\ result'[b][w] = o
          /\ o = "ok" => Saved(w)
    BY <1>3 DEF Saved
  <2> QED  BY <2>1, <2>2, <2>3 DEF Rests, HoldsOK, AwaitsOK
<1> QED  BY <1>5, <1>6, <1>7, <1>9, <1>10, OneRunMoves

LEMMA ReleaseOK ==
  ASSUME AudioInv, NEW a \in Archives, Release(a)
  PROVE  AudioInv'
<1>1. AudioTypes /\ RunOK(a) /\ phase[a] = "release"
  BY DEF AudioInv, Release
<1>2. UNCHANGED <<versions, watermark, pending, row, top, deferred, todo, shared>>
  BY DEF Release
<1>3. CASE own[a] = {}
  <2>1. phase' = [phase EXCEPT ![a] = "wait"] /\ UNCHANGED <<claims, own, result>>
    BY <1>3 DEF Release, AudioAt, Set
  <2>2. AudioTypes' /\ phase'[a] = "wait"
    BY <1>1, <1>2, <2>1 DEF AudioTypes, Phases
  <2>3. RowsKeep /\ ClaimsHeld' /\ AudioAccounted'
    BY <1>2, <2>1, AccountedStays DEF RowsKeep, ClaimsHeld, AudioInv
  <2>4. ASSUME NEW n \in 1..top[a], NEW u \in AudioIn[a][n]  PROVE Cared(a, u)'
    <3>1. Cared(a, u)
      BY <1>1 DEF RunOK, ReadOK
    <3> QED  BY <1>2, <2>1, <3>1 DEF Cared, Saved
  <2>5. ReadOK(a)'
    BY <1>1, <1>2, <2>4 DEF RunOK, ReadOK
  <2>6. SuccessOK(a)'
    BY <1>1, <1>2, <2>1 DEF RunOK, SuccessOK, Saved
  <2>7. PlacesOK(a)' /\ HoldsOK(a)' /\ AwaitsOK(a)'
    BY <1>1, <1>2, <1>3, <2>1, <2>2 DEF RunOK, PlacesOK, HoldsOK, AwaitsOK
  <2>8. ASSUME NEW b \in Archives \ {a}  PROVE Rests(b)
    BY <1>1, <1>2, <2>1, OthersRest DEF AudioTypes
  <2> QED  BY <2>2, <2>3, <2>5, <2>6, <2>7, <2>8, OneRunMoves DEF RunOK
<1>4. CASE own[a] # {}
  <2>1. PICK u \in own[a] : u = First(own[a])
    BY <1>4 DEF First
  <2>2. PICK o \in Outcomes : o = result[a][u] /\ o # "error"
    BY <1>1 DEF RunOK, PlacesOK, Outcomes
  <2>3. ReleaseOne(a, u, o) /\ phase' = phase
    BY <1>4, <2>1, <2>2 DEF Release
  <2>4. o = "ok" => Saved(u)
    BY <1>1, <2>2 DEF AudioTypes, RunOK, SuccessOK
  <2> QED  BY <1>1, <1>2, <2>2, <2>3, <2>4, ReleaseOneOK
<1> QED  BY <1>3, <1>4

LEMMA UnwindOK ==
  ASSUME AudioInv, NEW a \in Archives, Unwind(a)
  PROVE  AudioInv'
<1>1. phase[a] = "unwind" /\ UNCHANGED <<versions, watermark, pending, row>> /\ AudioTypes
  BY DEF Unwind, AudioInv
<1>2. CASE own[a] = {}
  <2>1. Leave(a) /\ UNCHANGED claims
    BY <1>2 DEF Unwind, ToUnwind
  <2>2. AudioAccounted'
    BY <1>1, AccountedStays DEF RowsKeep, AudioInv
  <2> QED  BY <1>1, <1>2, <2>1, <2>2, LeaveOK DEF AudioTypes
<1>3. CASE own[a] # {}
  <2>1. PICK u \in own[a] : u = First(own[a])
    BY <1>3 DEF First
  <2>2. ReleaseOne(a, u, "error") /\ UNCHANGED <<phase, top, deferred, todo, shared>>
    BY <1>3, <2>1 DEF Unwind, ToUnwind
  <2> QED  BY <1>1, <2>2, ReleaseOneOK DEF Outcomes
<1> QED  BY <1>2, <1>3

LEMMA WaitOK ==
  ASSUME AudioInv, NEW a \in Archives, Wait(a)
  PROVE  AudioInv'
<1>1. AudioTypes /\ RunOK(a) /\ phase[a] = "wait"
      /\ UNCHANGED <<versions, watermark, pending, row, claims>>
  BY DEF AudioInv, Wait
<1>2. RowsKeep /\ AudioAccounted'
  BY <1>1, AccountedStays DEF RowsKeep, AudioInv
<1>3. own[a] = {} /\ todo[a] = {} /\ shared[a] \in SUBSET Addresses
  BY <1>1 DEF RunOK, PlacesOK, AudioTypes
<1>4. CASE Leave(a)
  BY <1>1, <1>2, <1>3, <1>4, LeaveOK DEF AudioTypes
<1>5. CASE /\ \A u \in shared[a] : result[a][u] \notin {Nil, "error"}
           /\ AudioAt(a, "commit")
           /\ UNCHANGED <<top, deferred, todo, own, shared, result>>
  <2>1. phase' = [phase EXCEPT ![a] = "commit"]
        /\ UNCHANGED <<top, deferred, todo, own, shared, result>>
    BY <1>5 DEF AudioAt, Set
  <2>2. AudioTypes' /\ phase'[a] = "commit" /\ ClaimsHeld'
    BY <1>1, <2>1 DEF AudioTypes, Phases, ClaimsHeld, AudioInv
  <2>3. ASSUME NEW n \in 1..top[a], NEW u \in AudioIn[a][n]  PROVE Cared(a, u)'
    <3>1. Cared(a, u)
      BY <1>1 DEF RunOK, ReadOK
    <3> QED  BY <1>1, <2>1, <3>1 DEF Cared, Saved
  <2>4. ReadOK(a)'
    BY <1>1, <2>1, <2>3 DEF RunOK, ReadOK
  <2>5. SuccessOK(a)'
    BY <1>1, <2>1 DEF RunOK, SuccessOK, Saved
  <2>6. \A u \in shared[a] : result[a][u] \in {"ok", "now", "backoff"}
    BY <1>1, <1>3, <1>5 DEF AudioTypes, Outcomes
  <2>7. PlacesOK(a)' /\ HoldsOK(a)' /\ AwaitsOK(a)'
    BY <1>1, <1>3, <2>1, <2>2, <2>6 DEF RunOK, PlacesOK, HoldsOK, AwaitsOK
  <2>8. ASSUME NEW b \in Archives \ {a}  PROVE Rests(b)
    BY <1>1, <2>1, OthersRest DEF AudioTypes
  <2> QED  BY <1>2, <2>2, <2>4, <2>5, <2>7, <2>8, OneRunMoves DEF RunOK
<1> QED  BY <1>4, <1>5 DEF Wait

LEMMA CommitOK ==
  ASSUME AudioInv, NEW a \in Archives, Commit(a)
  PROVE  AudioInv'
<1>1. AudioTypes /\ RunOK(a) /\ phase[a] = "commit"
      /\ UNCHANGED <<versions, watermark, pending, row, claims>>
  BY DEF AudioInv, Commit
<1>2. RowsKeep /\ AudioAccounted'
  BY <1>1, AccountedStays DEF RowsKeep, AudioInv
<1>3. own[a] = {} /\ todo[a] = {}
  BY <1>1 DEF RunOK, PlacesOK
<1>4. CASE Leave(a)
  BY <1>1, <1>2, <1>3, <1>4, LeaveOK DEF AudioTypes
<1>5. CASE AudioAt(a, "write") /\ UNCHANGED <<top, deferred, todo, own, shared, result>>
  <2>1. phase' = [phase EXCEPT ![a] = "write"]
        /\ UNCHANGED <<top, deferred, todo, own, shared, result>>
    BY <1>5 DEF AudioAt, Set
  <2>2. AudioTypes' /\ phase'[a] = "write" /\ ClaimsHeld'
    BY <1>1, <2>1 DEF AudioTypes, Phases, ClaimsHeld, AudioInv
  <2>3. ASSUME NEW n \in 1..top[a], NEW u \in AudioIn[a][n]  PROVE Cared(a, u)'
    <3>1. Cared(a, u)
      BY <1>1 DEF RunOK, ReadOK
    <3> QED  BY <1>1, <2>1, <3>1 DEF Cared, Saved
  <2>4. ReadOK(a)'
    BY <1>1, <2>1, <2>3 DEF RunOK, ReadOK
  <2>5. SuccessOK(a)'
    BY <1>1, <2>1 DEF RunOK, SuccessOK, Saved
  <2>6. PlacesOK(a)' /\ HoldsOK(a)' /\ AwaitsOK(a)'
    BY <1>1, <1>3, <2>1, <2>2 DEF RunOK, PlacesOK, HoldsOK, AwaitsOK
  <2>7. ASSUME NEW b \in Archives \ {a}  PROVE Rests(b)
    BY <1>1, <2>1, OthersRest DEF AudioTypes
  <2> QED  BY <1>2, <2>2, <2>4, <2>5, <2>6, <2>7, OneRunMoves DEF RunOK
<1> QED  BY <1>4, <1>5 DEF Commit

\* The watermark moves to the newest version read: all up to there is cared for.
LEMMA WriteOK ==
  ASSUME AudioInv, NEW a \in Archives, Write(a)
  PROVE  AudioInv'
<1>1. AudioTypes /\ RunOK(a) /\ phase[a] = "write" /\ Leave(a)
      /\ UNCHANGED <<versions, row, claims>>
  BY DEF AudioInv, Write
<1>2. /\ watermark' = [watermark EXCEPT ![a] = top[a]]
      /\ pending' = [pending EXCEPT ![a] = RetriesAfter(a)]
  BY DEF Write, Set, ReadVersion
<1>3. /\ own[a] = {} /\ todo[a] = {}
      /\ \A u \in shared[a] : result[a][u] \in {"ok", "now", "backoff"}
  BY <1>1 DEF RunOK, PlacesOK
<1>4. /\ RetriesAfter(a) \in [Addresses -> {Nil, "now", "backoff"}]
      /\ \A u \in Addresses : result[a][u] \in {"now", "backoff"} \/ deferred[a][u] # Nil
                                => RetriesAfter(a)[u] # Nil
  BY <1>1, AudioAssumption DEF RetriesAfter, Failed, AudioTypes
<1>5. /\ watermark' \in [Archives -> Nat \union {Nil}] /\ top[a] \in Nat
      /\ pending' \in [Archives -> [Addresses -> {Nil, "now", "backoff"}]]
  BY <1>1, <1>2, <1>4 DEF AudioTypes
<1>6. watermark'[a] = top[a] /\ pending'[a] = RetriesAfter(a)
  BY <1>1, <1>2 DEF AudioTypes
<1>7. ASSUME NEW n \in 1..top[a], NEW u \in AudioIn[a][n]
      PROVE  pending'[a][u] # Nil \/ Saved(u)
  <2>1. Cared(a, u)
    BY <1>1 DEF RunOK, ReadOK
  <2>2. u \in Addresses
    BY <1>1, AddressesRead, AudioAssumption DEF AudioTypes, RunOK, ReadOK
  <2>3. result[a][u] = "ok" => Saved(u)
    BY <1>1, <2>2 DEF RunOK, SuccessOK
  <2> QED  BY <1>3, <1>4, <1>6, <2>1, <2>2, <2>3 DEF Cared
<1>8. AudioAccounted'
  <2> SUFFICES ASSUME NEW b \in Archives, watermark'[b] # Nil, NEW n \in 1..watermark'[b],
                      NEW u \in AudioIn[b][n]
               PROVE  pending'[b][u] # Nil
                        \/ \E w \in Addresses : Attachment[w] = Attachment[u] /\ row'[w] # "none"
    BY DEF AudioAccounted
  <2>1. CASE b = a
    BY <1>1, <1>6, <1>7, <2>1 DEF Saved
  <2>2. CASE b # a
    <3>1. watermark'[b] = watermark[b] /\ pending'[b] = pending[b]
      BY <1>1, <1>2, <2>2 DEF AudioTypes
    <3> QED  BY <1>1, <3>1 DEF AudioInv, AudioAccounted
  <2> QED  BY <2>1, <2>2
<1> QED  BY <1>1, <1>3, <1>5, <1>8, LeaveOK

\* A version comes, a file is lost: the runs rest.
LEMMA AroundOK ==
  ASSUME AudioInv, UNCHANGED <<watermark, pending, claims, runVars>>, RowsKeep,
         row' \in [Addresses -> {"none", "good", "lost"}],
         versions' \in [Archives -> Nat],
         \A b \in Archives : versions'[b] \in versions[b]..Len(AudioIn[b])
  PROVE  AudioInv'
<1>1. AudioTypes /\ AudioTypes'
  BY DEF AudioInv, AudioTypes, runVars
<1>2. ClaimsHeld' /\ AudioAccounted'
  BY AccountedStays DEF AudioInv, ClaimsHeld, runVars
<1>3. ASSUME NEW b \in Archives  PROVE RunOK(b)'
  <2>1. RunOK(b)
    BY DEF AudioInv
  <2>2. Rests(b)
    BY <2>1 DEF Rests, RunOK, HoldsOK, AwaitsOK, runVars
  <2> QED  BY <1>1, <2>1, <2>2, RestsOK
<1> QED  BY <1>1, <1>2, <1>3 DEF AudioInv

LEMMA VersionsInRange ==
  ASSUME AudioInv, NEW b \in Archives
  PROVE  versions[b] \in Nat /\ Len(AudioIn[b]) \in Nat /\ versions[b] \in versions[b]..Len(AudioIn[b])
BY AudioAssumption DEF AudioInv, AudioTypes, RunOK, ReadOK

LEMMA InsertOK ==
  ASSUME AudioInv, NEW a \in Archives, Insert(a)
  PROVE  AudioInv'
<1>1. versions' = [versions EXCEPT ![a] = versions[a] + 1] /\ versions[a] < Len(AudioIn[a])
      /\ UNCHANGED <<watermark, pending, row, claims, runVars>>
  BY DEF Insert, Set
<1>2. versions \in [Archives -> Nat] /\ row \in [Addresses -> {"none", "good", "lost"}]
  BY DEF AudioInv, AudioTypes
<1>3. versions' \in [Archives -> Nat]
  BY <1>1, <1>2
<1>4. ASSUME NEW b \in Archives  PROVE versions'[b] \in versions[b]..Len(AudioIn[b])
  <2>1. versions'[b] = IF b = a THEN versions[b] + 1 ELSE versions[b]
    BY <1>1, <1>2
  <2> QED  BY <1>1, <2>1, VersionsInRange
<1> QED  BY <1>1, <1>2, <1>3, <1>4, AroundOK DEF RowsKeep

LEMMA LoseOK ==
  ASSUME AudioInv, NEW i \in Attachments, Lose(i)
  PROVE  AudioInv'
<1>1. UNCHANGED <<versions, watermark, pending, claims, runVars>>
  BY DEF Lose
<1>2. versions \in [Archives -> Nat] /\ row \in [Addresses -> {"none", "good", "lost"}]
  BY DEF AudioInv, AudioTypes
<1>3. RowsKeep /\ row' \in [Addresses -> {"none", "good", "lost"}]
  BY <1>2 DEF Lose, RowsKeep
<1>4. \A b \in Archives : versions'[b] \in versions[b]..Len(AudioIn[b])
  BY <1>1, VersionsInRange
<1> QED  BY <1>1, <1>2, <1>3, <1>4, AroundOK

LEMMA KillOK ==
  ASSUME AudioInv, Kill
  PROVE  AudioInv'
<1>1. NoRetries \in [Addresses -> {Nil}] /\ \A u \in Addresses : NoRetries[u] = Nil
  BY DEF NoRetries
<1>2. /\ claims' = [i \in Attachments |-> Nil] /\ phase' = [a \in Archives |-> "idle"]
      /\ top' = [a \in Archives |-> 0] /\ deferred' = [a \in Archives |-> NoRetries]
      /\ todo' = [a \in Archives |-> {}] /\ own' = [a \in Archives |-> {}]
      /\ shared' = [a \in Archives |-> {}] /\ result' = [a \in Archives |-> NoRetries]
      /\ UNCHANGED <<versions, watermark, pending, row>>
  BY DEF Kill
<1>3. AudioTypes'
  BY <1>1, <1>2 DEF AudioInv, AudioTypes, Phases
<1>4. AudioAccounted' /\ ClaimsHeld'
  BY <1>2, AccountedStays DEF RowsKeep, ClaimsHeld, AudioInv
<1>5. ASSUME NEW a \in Archives  PROVE RunOK(a)'
  <2>1. /\ phase'[a] = "idle" /\ top'[a] = 0 /\ todo'[a] = {} /\ own'[a] = {}
        /\ shared'[a] = {} /\ result'[a] = NoRetries /\ versions'[a] = versions[a]
    BY <1>2
  <2>2. versions[a] \in Nat /\ versions[a] <= Len(AudioIn[a])
    BY DEF AudioInv, AudioTypes, RunOK, ReadOK
  <2>3. ReadOK(a)' /\ SuccessOK(a)'
    BY <1>1, <2>1, <2>2, AudioAssumption DEF ReadOK, SuccessOK
  <2> QED  BY <2>1, <2>3 DEF RunOK, PlacesOK, HoldsOK, AwaitsOK
<1> QED  BY <1>3, <1>4, <1>5 DEF AudioInv

LEMMA AudioStepOK == AudioInv /\ [AudioNext]_audioVars => AudioInv'
<1> SUFFICES ASSUME AudioInv, [AudioNext]_audioVars PROVE AudioInv'
  OBVIOUS
<1>1. CASE UNCHANGED audioVars
  BY <1>1, AroundOK, VersionsInRange DEF audioVars, RowsKeep, AudioInv, AudioTypes
<1>2. ASSUME NEW a \in Archives, Step(a)  PROVE AudioInv'
  BY <1>2, LookupOK, ClaimOK, DownloadOK, UpsertOK, ReleaseOK, UnwindOK, WaitOK, CommitOK,
     WriteOK DEF Step
<1>3. CASE AudioNext
  BY <1>2, <1>3, InsertOK, BeginAudioOK, LoseOK, KillOK DEF AudioNext
<1> QED  BY <1>1, <1>3

\* What a run has read is stored, in its hands or owed another attempt, and a
\* claim is open exactly while one address of its owner holds it.
\* (maintain_archived_audio, audio_pipeline.py; download_audio_tasks, audio_store.py.)
THEOREM AudioInvariance == AudioSpec => []AudioInv
BY AudioInitOK, AudioStepOK, PTL DEF AudioSpec

LEMMA AudioInvHolds == AudioInv => AudioIsCared
<1> SUFFICES ASSUME AudioInv PROVE AudioIsCared
  OBVIOUS
<1>1. AudioTypes /\ ClaimsHeld /\ \A a \in Archives : RunOK(a)
  BY DEF AudioInv
<1>2. AudioTypeOK
  <2>1. ASSUME NEW a \in Archives
        PROVE  versions[a] \in 0..Len(AudioIn[a]) /\ top[a] <= versions[a]
    BY <1>1, VersionsInRange DEF RunOK, ReadOK
  <2> QED  BY <1>1, <2>1 DEF AudioTypeOK, AudioTypes, RunOK, PlacesOK
<1>3. ASSUME NEW i \in Attachments, claims[i] # Nil
      PROVE  /\ \E u \in own[claims[i]] : Attachment[u] = i
             /\ phase[claims[i]] \notin {"idle", "wait", "commit", "write"}
  <2>1. PICK u \in own[claims[i]] : Attachment[u] = i
    BY <1>1, <1>3 DEF ClaimsHeld
  <2>2. claims[i] \in Archives
    BY <1>1, <1>3 DEF AudioTypes
  <2> QED  BY <1>1, <2>1, <2>2 DEF RunOK, PlacesOK
<1>4. WaitersAreServed
  BY <1>1, <1>3 DEF WaitersAreServed, RunOK, AwaitsOK
<1> QED  BY <1>2, <1>4 DEF AudioIsCared, AudioInv

\* For any archives, aliases, versions and failures: nothing below a watermark is
\* passed over, and a run waits for a download only while its claim is held by
\* one that has yet to release it.
\* (maintain_archived_audio, audio_pipeline.py; download_audio_tasks, audio_store.py.)
THEOREM AudioStaysCared == AudioSpec => []AudioIsCared
BY AudioInvariance, AudioInvHolds, PTL

-----------------------------------------------------------------------------
(* The schedule of the missing floors.                                     *)

Times == Nat \union {-1}

\* Floors are posted in order, and the history is what the code has written down.
RetryInv ==
  /\ now \in Nat /\ ticket \in Tickets /\ justRan \in BOOLEAN
  /\ posted \in [Posted -> Times] /\ attempts \in [Posted -> Times] /\ tried = attempts
  /\ \A l \in hidden : l \in Posted /\ posted[l] # -1
  /\ \A l \in Posted : posted[l] # -1 =>
       /\ posted[l] <= now
       /\ \A k \in 0..(l - 1) : posted[k] # -1 /\ posted[k] <= posted[l]

LEMMA HasLeast ==
  ASSUME NEW S \in SUBSET Nat, S # {}
  PROVE  \E x \in S : \A y \in S : x <= y
<1>1. \E x \in S : \A y \in S : <<y, x>> \notin OpToRel(<, Nat)
  BY NatLessThanWellFounded, WFMin
<1>2. PICK x \in S : \A y \in S : ~(y < x)
  BY <1>1 DEF OpToRel
<1>3. \A y \in S : x <= y
  BY <1>2
<1> QED  BY <1>3

LEMMA HasMost ==
  ASSUME NEW S \in SUBSET Nat, S # {}, NEW n \in Nat, \A x \in S : x <= n
  PROVE  \E x \in S : \A y \in S : y <= x
<1> DEFINE D == {n - x : x \in S}
<1>1. D \in SUBSET Nat /\ D # {}
  <2>1. \A x \in S : n - x \in Nat
    OBVIOUS
  <2> QED  BY <2>1
<1>2. \E d \in D : \A e \in D : d <= e
  <2> HIDE DEF D
  <2> QED  BY <1>1, HasLeast
<1>3. PICK x \in S : \A e \in D : n - x <= e
  BY <1>2
<1>4. \A y \in S : y <= x
  <2> SUFFICES ASSUME NEW y \in S  PROVE y <= x
    OBVIOUS
  <2>1. n - y \in D
    OBVIOUS
  <2>2. n - x <= n - y
    BY <1>3, <2>1
  <2> QED  BY <2>2
<1> QED  BY <1>4

\* Every missing floor lies in a gap.
LEMMA GapAround ==
  ASSUME NEW missing \in SUBSET Posted, NEW l \in missing
  PROVE  \E a, b \in missing : a <= l /\ l <= b /\ a..b \in Gaps(missing)
<1>1. missing \in SUBSET Nat /\ l \in Nat /\ MaxPosted \in Nat
      /\ \A x \in missing : x <= MaxPosted
  BY RetryAssumption DEF Posted
<1> DEFINE ups == {x \in missing : l <= x /\ l..x \in SUBSET missing}
           downs == {x \in missing : x <= l /\ x..l \in SUBSET missing}
<1>2. l..l \in SUBSET missing
  BY <1>1
<1>3. /\ l \in ups /\ l \in downs /\ ups \in SUBSET Nat /\ downs \in SUBSET Nat
      /\ \A x \in ups : x <= MaxPosted
  <2>1. l <= l
    BY <1>1
  <2>2. l \in ups /\ l \in downs
    BY <1>2, <2>1
  <2>3. ups \in SUBSET missing /\ downs \in SUBSET missing
    OBVIOUS
  <2> HIDE DEF ups, downs
  <2> QED  BY <1>1, <2>2, <2>3
<1>4. PICK b \in ups : \A x \in ups : x <= b
  <2> HIDE DEF ups
  <2> QED  BY <1>1, <1>3, HasMost
<1>5. PICK a \in downs : \A x \in downs : a <= x
  <2> HIDE DEF downs
  <2> QED  BY <1>3, HasLeast
<1>6. /\ a \in missing /\ b \in missing /\ a <= l /\ l <= b /\ a \in Nat /\ b \in Nat
      /\ l..b \in SUBSET missing /\ a..l \in SUBSET missing
  BY <1>1, <1>4, <1>5
<1>7. a..b \in SUBSET missing
  <2> SUFFICES ASSUME NEW x \in a..b  PROVE x \in missing
    OBVIOUS
  <2>1. x \in a..l \/ x \in l..b
    BY <1>1, <1>6
  <2> QED  BY <1>6, <2>1
<1>8. b + 1 \notin missing
  <2> SUFFICES ASSUME b + 1 \in missing  PROVE FALSE
    OBVIOUS
  <2>1. \A x \in l..(b + 1) : x \in l..b \/ x = b + 1
    BY <1>1, <1>6
  <2>2. b + 1 \in ups
    BY <1>1, <1>6, <2>1
  <2> QED  BY <1>4, <1>6, <2>2
<1>9. a - 1 \notin missing
  <2> SUFFICES ASSUME a - 1 \in missing  PROVE FALSE
    OBVIOUS
  <2>1. \A x \in (a - 1)..l : x \in a..l \/ x = a - 1
    BY <1>1, <1>6
  <2>2. a - 1 \in downs
    BY <1>1, <1>6, <2>1
  <2> QED  BY <1>5, <1>6, <2>2
<1>10. a <= b
  BY <1>1, <1>6
<1>11. a..b \in Gaps(missing)
  BY <1>6, <1>7, <1>8, <1>9, <1>10 DEF Gaps
<1> QED  BY <1>6, <1>11

\* The end of a gap is its greatest floor.
LEMMA SinceTheEnd ==
  ASSUME NEW a \in Nat, NEW b \in Nat, a <= b
  PROVE  MissingSince(a..b) = posted[1 + b]
<1>1. b \in a..b /\ \A k \in a..b : k <= b
  OBVIOUS
<1>2. \A l \in a..b : (\A k \in a..b : k <= l) => l = b
  OBVIOUS
<1>3. (CHOOSE l \in a..b : \A k \in a..b : k <= l) = b
  BY <1>1, <1>2
<1> QED  BY <1>3 DEF MissingSince

\* Within a gap, the attempt that counts is the first of the last ones.
LEMMA LastAttemptIsLeast ==
  ASSUME NEW a \in Posted, NEW b \in Posted, attempts \in [Posted -> Times],
         NEW l \in a..b, LastAttempt(a..b, attempts) # -1
  PROVE  /\ LastAttempt(a..b, attempts) \in Nat /\ attempts[l] \in Nat
         /\ LastAttempt(a..b, attempts) <= attempts[l]
<1> DEFINE all == {attempts[k] : k \in a..b}
<1>1. \A k \in a..b : k \in Posted
  BY RetryAssumption DEF Posted
<1>2. \A k \in a..b : attempts[k] # -1
  BY DEF LastAttempt
<1>3. all \in SUBSET Nat /\ attempts[l] \in all
  BY <1>1, <1>2 DEF Times
<1>4. \E t \in all : \A k \in a..b : t <= attempts[k]
  <2>1. PICK t \in all : \A e \in all : t <= e
    <3> HIDE DEF all
    <3> QED  BY <1>3, HasLeast
  <2>2. \A k \in a..b : attempts[k] \in all
    OBVIOUS
  <2> QED  BY <2>1, <2>2
<1>5. LastAttempt(a..b, attempts) = CHOOSE t \in all : \A k \in a..b : t <= attempts[k]
  BY <1>2 DEF LastAttempt
<1>6. LastAttempt(a..b, attempts) \in all
      /\ \A k \in a..b : LastAttempt(a..b, attempts) <= attempts[k]
  <2> HIDE DEF all
  <2> QED  BY <1>4, <1>5
<1> QED  BY <1>3, <1>6

\* A gap that is not due has been tried: within the interval, and the sooner the
\* younger it is.
LEMMA NotDueTried ==
  ASSUME NEW last \in Times, NEW since \in Nat, NEW n \in Nat, NEW t, NEW G,
         NEW tries, last = LastAttempt(G, tries),
         ~GapIsDue(G, tries, since, n, t, Window, MaxInterval, FALSE)
  PROVE  last # -1 /\ n - last < MaxInterval /\ n - last < n - since - Window
<1> DEFINE age == IF n < since THEN 0 ELSE n - since
<1>1. ~(age <= Window) /\ ~ShouldRun(t, last, n, Least(age - Window, MaxInterval))
  BY DEF GapIsDue
<1>2. age = n - since /\ age \in Int
  BY <1>1, RetryAssumption
<1> HIDE DEF age
<1>3. last # -1 /\ ~(n - last >= Least(age - Window, MaxInterval))
  BY <1>1 DEF ShouldRun
<1>4. n - last < age - Window /\ n - last < MaxInterval
  BY <1>2, <1>3, RetryAssumption DEF Least, Times
<1> QED  BY <1>2, <1>3, <1>4

LEMMA RetryInitOK == RetryInit => RetryInv /\ ~justRan
<1> SUFFICES ASSUME RetryInit PROVE RetryInv /\ ~justRan
  OBVIOUS
<1>1. /\ now = 0 /\ ticket \in Tickets /\ hidden = {} /\ justRan = FALSE
      /\ attempts = posted /\ tried = posted /\ posted = [l \in Posted |-> -1]
  BY DEF RetryInit
<1>2. posted \in [Posted -> Times] /\ \A l \in Posted : posted[l] = -1
  BY <1>1 DEF Times
<1> QED  BY <1>1, <1>2 DEF RetryInv

LEMMA PostOK ==
  ASSUME RetryInv, NEW l \in Posted, NEW hides \in BOOLEAN, Post(l, hides)
  PROVE  RetryInv'
<1>1. /\ posted[l] = -1 /\ \A k \in 0..(l - 1) : posted[k] # -1
      /\ posted' = [posted EXCEPT ![l] = now] /\ justRan' = FALSE
      /\ hidden' \in {hidden, hidden \union {l}} /\ UNCHANGED <<now, ticket, attempts, tried>>
  BY DEF Post
<1>2. /\ now \in Nat /\ posted \in [Posted -> Times] /\ now \in Times
      /\ \A k \in Posted : posted'[k] = IF k = l THEN now ELSE posted[k]
      /\ posted' \in [Posted -> Times] /\ now # -1
  BY <1>1 DEF RetryInv, Times
<1>3. \A k \in hidden' : k \in Posted /\ posted'[k] # -1
  BY <1>1, <1>2 DEF RetryInv
<1>4. ASSUME NEW h \in Posted, posted'[h] # -1
      PROVE  /\ posted'[h] <= now
             /\ \A k \in 0..(h - 1) : posted'[k] # -1 /\ posted'[k] <= posted'[h]
  <2>1. \A k \in 0..(h - 1) : k \in Posted
    BY RetryAssumption DEF Posted
  <2>2. CASE h = l
    <3>1. \A k \in 0..(l - 1) : k # l /\ posted[k] <= now
      BY <1>1, <2>1, <2>2 DEF RetryInv, Posted
    <3> QED  BY <1>1, <1>2, <2>1, <2>2, <3>1
  <2>3. CASE h # l
    <3>1. posted[h] # -1 /\ posted'[h] = posted[h]
      BY <1>2, <1>4, <2>3
    <3>2. posted[h] <= now /\ \A k \in 0..(h - 1) : posted[k] # -1 /\ posted[k] <= posted[h]
      BY <3>1 DEF RetryInv
    <3>3. \A k \in 0..(h - 1) : k # l
      BY <1>1, <3>2
    <3> QED  BY <1>2, <2>1, <3>1, <3>2, <3>3
  <2> QED  BY <2>2, <2>3
<1> QED  BY <1>1, <1>2, <1>3, <1>4 DEF RetryInv

\* Of the floors that were missing, those found are not any more; the others still are.
LEMMA StillMissing ==
  ASSUME NEW found \in SUBSET MissingNow, hidden \in SUBSET Posted,
         hidden' = hidden \ found, posted' = posted
  PROVE  MissingNow' = MissingNow \ found
<1>1. ASSUME NEW l \in MissingNow \ found  PROVE l \in MissingNow'
  BY <1>1 DEF MissingNow
<1>2. ASSUME NEW l \in MissingNow'  PROVE l \in MissingNow \ found
  <2>1. l \in hidden /\ l \notin found
    BY <1>2 DEF MissingNow
  <2>2. PICK k \in Posted \ hidden' : k > l /\ posted[k] # -1
    BY <1>2 DEF MissingNow
  <2>3. CASE k \notin hidden
    BY <2>1, <2>2, <2>3 DEF MissingNow
  <2>4. CASE k \in found
    <3>1. PICK m \in Posted \ hidden : m > k /\ posted[m] # -1
      BY <2>4 DEF MissingNow
    <3>2. l \in Int /\ k \in Int /\ m \in Int
      BY <2>1, <2>2, <3>1 DEF Posted
    <3>3. m > l
      BY <2>2, <3>1, <3>2
    <3> QED  BY <2>1, <3>1, <3>3 DEF MissingNow
  <2> QED  BY <2>2, <2>3, <2>4
<1> QED  BY <1>1, <1>2

\* Before the first floor that is shown after a gap all have been posted, in order.
LEMMA BehindAGap ==
  ASSUME RetryInv, NEW l \in MissingNow, NEW h \in MissingNow, l <= h
  PROVE  /\ l \in Nat /\ h \in Nat /\ 1 + l \in Posted /\ 1 + h \in Posted
         /\ posted[1 + l] \in Nat /\ posted[1 + h] \in Nat /\ posted[1 + l] <= posted[1 + h]
<1>1. PICK k \in Posted \ hidden : k > h /\ posted[k] # -1
  BY DEF MissingNow
<1>2. l \in Nat /\ h \in Nat /\ k \in Nat /\ MaxPosted \in Nat /\ k <= MaxPosted - 1
  BY RetryAssumption DEF RetryInv, MissingNow, Posted
<1>3. 1 + l \in Posted /\ 1 + h \in Posted
  BY <1>1, <1>2 DEF Posted
<1>4. \A j \in 0..(k - 1) : posted[j] # -1
  BY <1>1 DEF RetryInv
<1>5. posted[1 + h] # -1
  <2>1. 1 + h = k \/ 1 + h \in 0..(k - 1)
    BY <1>1, <1>2
  <2> QED  BY <1>1, <1>4, <2>1
<1>6. posted[1 + l] # -1
  <2>1. 1 + l = k \/ 1 + l \in 0..(k - 1)
    BY <1>1, <1>2
  <2> QED  BY <1>1, <1>4, <2>1
<1>7. posted[1 + l] \in Nat /\ posted[1 + h] \in Nat
  BY <1>3, <1>5, <1>6 DEF RetryInv, Times
<1>8. posted[1 + l] <= posted[1 + h]
  <2>1. CASE l = h
    BY <1>7, <2>1
  <2>2. CASE l # h
    <3>1. 1 + l \in 0..((1 + h) - 1)
      BY <1>2, <2>2
    <3> QED  BY <1>3, <1>5, <3>1 DEF RetryInv
  <2> QED  BY <2>1, <2>2
<1> QED  BY <1>2, <1>3, <1>7, <1>8

LEMMA BackupOK ==
  ASSUME RetryInv, NEW force \in BOOLEAN, Backup(force)
  PROVE  RetryInv' /\ NotPutOffForEver'
<1> DEFINE missing == MissingNow
           due == UNION {G \in Gaps(missing) : GapIsDue(G, attempts, MissingSince(G), now,
                                                 ticket, Window, MaxInterval, force)}
<1>1. PICK found \in SUBSET due :
        /\ hidden' = hidden \ found
        /\ attempts' = NewAttempts(missing \ found, due)
        /\ tried' = [l \in Posted |-> IF l \in found \/ l \notin missing THEN -1
                                      ELSE IF l \in due THEN now ELSE tried[l]]
        /\ justRan' = TRUE /\ UNCHANGED <<now, ticket, posted>>
  BY DEF Backup
<1>2. /\ missing \in SUBSET Posted /\ hidden \in SUBSET Posted /\ now \in Nat
      /\ attempts \in [Posted -> Times] /\ posted \in [Posted -> Times] /\ tried = attempts
  BY DEF RetryInv, MissingNow
<1>3. due \in SUBSET missing /\ found \in SUBSET missing
  <2>1. \A G \in Gaps(missing) : G \in SUBSET missing
    BY DEF Gaps
  <2>2. due \in SUBSET missing
    <3> HIDE DEF missing
    <3> QED  BY <2>1
  <2> QED  BY <2>2
<1>4. \A G \in Gaps(missing) : GapIsDue(G, attempts, MissingSince(G), now, ticket, Window,
                                        MaxInterval, force) => G \in SUBSET due
  OBVIOUS
<1>5. MissingNow' = missing \ found
  BY <1>1, <1>2, <1>3, StillMissing
<1> HIDE DEF missing, due
<1>6. /\ tried' \in [Posted -> Times] /\ attempts' = tried'
      /\ \A l \in missing \ found : tried'[l] = IF l \in due THEN now ELSE tried[l]
  <2>1. now \in Times /\ -1 \in Times
    BY <1>2 DEF Times
  <2>2. tried' \in [Posted -> Times]
    BY <1>1, <1>2, <2>1
  <2>3. attempts' = [l \in Posted |-> IF l \notin missing \ found THEN -1
                                      ELSE IF l \in due THEN now ELSE attempts[l]]
    BY <1>1, <1>2 DEF NewAttempts, AttemptsAfter
  <2>4. attempts' = tried'
    BY <1>1, <1>2, <2>3
  <2>5. \A l \in missing \ found : tried'[l] = IF l \in due THEN now ELSE tried[l]
    BY <1>1, <1>2
  <2> QED  BY <2>2, <2>4, <2>5
<1>7. RetryInv'
  BY <1>1, <1>2, <1>6 DEF RetryInv
<1>8. ASSUME NEW G \in Gaps(missing \ found), NEW l \in G
      PROVE  /\ tried'[l] # -1
             /\ now - tried'[l] < MaxInterval
             /\ tried'[l] = now \/ now - tried'[l] < now - MissingSince(G) - Window
  <2>1. PICK c, e \in missing \ found : G = c..e /\ c <= e
    BY DEF Gaps
  <2>2. G \in SUBSET (missing \ found)
    BY DEF Gaps
  <2>3. l \in missing \ found /\ l \in Posted /\ c \in Nat /\ e \in Nat /\ l \in Nat /\ l <= e
        /\ c \in Posted /\ e \in Posted
    BY <1>2, <2>1, <2>2 DEF Posted
  <2>4. CASE l \in due
    BY <1>2, <1>6, <2>3, <2>4, RetryAssumption
  <2>5. CASE l \notin due
    <3>1. PICK a, b \in missing : a <= l /\ l <= b /\ a..b \in Gaps(missing)
      BY <1>2, <2>3, GapAround
    <3>2. a \in Nat /\ b \in Nat /\ a <= b /\ l \in a..b /\ a \in Posted /\ b \in Posted
      BY <1>2, <2>3, <3>1 DEF Posted
    <3>3. ~GapIsDue(a..b, attempts, MissingSince(a..b), now, ticket, Window, MaxInterval, force)
      BY <1>4, <2>5, <3>1, <3>2
    <3>4. force = FALSE
      BY <3>3 DEF GapIsDue
    <3>5. e <= b
      <4> SUFFICES ASSUME b < e  PROVE FALSE
        BY <2>3, <3>2
      <4>1. b + 1 \in c..e
        BY <2>1, <2>3, <3>2
      <4>2. b + 1 \in missing
        BY <2>1, <2>2, <4>1
      <4>3. b + 1 \notin missing
        <5>1. PICK d, f \in missing : a..b = d..f /\ d <= f /\ f + 1 \notin missing
          BY <3>1 DEF Gaps
        <5>2. d \in Nat /\ f \in Nat
          BY <1>2, <5>1 DEF Posted
        <5>3. f \in a..b /\ b \in d..f
          BY <3>2, <5>1, <5>2
        <5>4. f = b
          BY <3>2, <5>2, <5>3
        <5> QED  BY <5>1, <5>4
      <4> QED  BY <4>2, <4>3
    <3>6. /\ MissingSince(a..b) \in Nat /\ MissingSince(G) \in Nat
          /\ MissingSince(G) <= MissingSince(a..b)
      <4>1. MissingSince(a..b) = posted[1 + b] /\ MissingSince(G) = posted[1 + e]
        BY <2>1, <2>3, <3>2, SinceTheEnd
      <4>2. e \in MissingNow /\ b \in MissingNow
        BY <2>1, <3>1 DEF missing
      <4> QED  BY <3>5, <4>1, <4>2, BehindAGap
    <3>7. PICK last : last = LastAttempt(a..b, attempts)
      OBVIOUS
    <3>8. last \in Times
      <4>1. CASE last = -1
        BY <4>1 DEF Times
      <4>2. CASE last # -1
        BY <1>2, <3>2, <3>7, <4>2, LastAttemptIsLeast DEF Times
      <4> QED  BY <4>1, <4>2
    <3>9. last # -1 /\ now - last < MaxInterval
          /\ now - last < now - MissingSince(a..b) - Window
      BY <1>2, <3>3, <3>4, <3>6, <3>7, <3>8, NotDueTried
    <3>10. last \in Nat /\ attempts[l] \in Nat /\ last <= attempts[l]
      BY <1>2, <3>2, <3>7, <3>9, LastAttemptIsLeast
    <3>11. tried'[l] = attempts[l]
      BY <1>2, <1>6, <2>3, <2>5
    <3> QED  BY <1>2, <3>6, <3>9, <3>10, <3>11, RetryAssumption
  <2> QED  BY <2>4, <2>5
<1>9. NotPutOffForEver'
  <2>1. \A G : MissingSince(G)' = MissingSince(G)
    BY <1>1 DEF MissingSince
  <2> QED  BY <1>1, <1>5, <1>8, <2>1 DEF NotPutOffForEver
<1> QED  BY <1>7, <1>9

LEMMA RetryStepOK ==
  RetryInv /\ NotPutOffForEver /\ [RetryNext]_retryVars => RetryInv' /\ NotPutOffForEver'
<1> SUFFICES ASSUME RetryInv, NotPutOffForEver, [RetryNext]_retryVars
             PROVE  RetryInv' /\ NotPutOffForEver'
  OBVIOUS
<1>1. CASE UNCHANGED retryVars
  BY <1>1 DEF retryVars, RetryInv, NotPutOffForEver, MissingNow, MissingSince
<1>2. CASE Tick
  <2>1. /\ now' = now + 1 /\ now \in Nat /\ justRan' = FALSE
        /\ UNCHANGED <<ticket, posted, hidden, attempts, tried>>
    BY <1>2 DEF Tick, RetryInv
  <2>2. ASSUME NEW l \in Posted, posted[l] # -1  PROVE posted[l] <= now + 1
    <3>1. posted[l] \in Nat
      BY <2>2 DEF RetryInv, Times
    <3>2. posted[l] <= now
      BY <2>2 DEF RetryInv
    <3>3. now \in Nat
      BY <2>1
    <3> QED  BY <3>1, <3>2, <3>3
  <2>3. now' \in Nat
    BY <2>1
  <2>4. RetryInv'
    BY <2>1, <2>2, <2>3 DEF RetryInv
  <2> QED  BY <2>1, <2>4 DEF NotPutOffForEver
<1>3. ASSUME NEW l \in Posted, Reveal(l)  PROVE RetryInv' /\ NotPutOffForEver'
  BY <1>3 DEF Reveal, RetryInv, NotPutOffForEver
<1>4. ASSUME NEW l \in Posted, NEW hides \in BOOLEAN, Post(l, hides)
      PROVE  RetryInv' /\ NotPutOffForEver'
  BY <1>4, PostOK DEF Post, NotPutOffForEver
<1>5. CASE RetryNext
  BY <1>2, <1>3, <1>4, <1>5, BackupOK DEF RetryNext
<1> QED  BY <1>1, <1>5

\* Whatever the floors, the clock, the ticket, the windows and the gaps: after a
\* backup every missing floor has been looked for within the longest interval,
\* and the sooner, the younger its gap.
\* (select_missing_floor_retries, pending_missing_floor_retries_after_attempt,
\* missing_floor_retry.py; retry_schedule_decision_for_ticket, retry_schedule.py.)
THEOREM NobodyIsPutOff == RetrySpec => []NotPutOffForEver
<1>1. RetryInit => RetryInv /\ NotPutOffForEver
  BY RetryInitOK DEF NotPutOffForEver
<1> QED  BY <1>1, RetryStepOK, PTL DEF RetrySpec

-----------------------------------------------------------------------------
(* The locks, and a command over all threads.  The locks are sound by      *)
(* themselves: an actor that is not out has the lock of its process, and   *)
(* one that is in has the file lock (LockInv).  The five ways in which     *)
(* they move preserve that, each by a lemma.  That a job is never in the   *)
(* same folder as an edit, which has only the lock of the root, needs the  *)
(* order in which a command takes and frees its locks (OrderInv).          *)

USE NamesAssumption

JobOutcomes == {"done", "failed", "hidden"}
Exits == {"ok", "failures", "refused", "killed"}

LockTypes ==
  /\ processLock \in [Processes \X Paths -> Actors \union {Nobody}]
  /\ fileLock \in [Paths -> Processes \union {Nobody}]
  /\ at \in [Actors -> {"out", "locking", "in"}]

\* Who is not out has its process lock, and who is in has the file lock.
HoldersHave ==
  \A x \in Actors :
    /\ at[x] # "out" => processLock[<<Process(x), Path(x)>>] = x
    /\ at[x] = "in" => fileLock[Path(x)] = Process(x)

\* A lock that is taken is the lock of somebody who is not out.
LocksAreHeld ==
  /\ \A p \in Processes \X Paths : processLock[p] # Nobody =>
       at[processLock[p]] # "out" /\ p = <<Process(processLock[p]), Path(processLock[p])>>
  /\ \A f \in Paths : fileLock[f] # Nobody =>
       \E x \in Actors : at[x] = "in" /\ Path(x) = f /\ Process(x) = fileLock[f]

LockInv == LockTypes /\ HoldersHave /\ LocksAreHeld

\* Jobs run within their command, and a command that has an exit is out.
OrderTypes ==
  /\ outcome \in [Jobs -> JobOutcomes \union {Nobody}]
  /\ exit \in [Commands -> Exits \union {Nobody}]

JobsWithin ==
  \A k \in Commands, c \in Configs : at[<<k, c>>] # "out" => at[k] = "in"

EndedAreOut == \A k \in Commands : exit[k] # Nobody => at[k] = "out"

IsTrue(k) ==
  /\ exit[k] \in {"ok", "failures"} => \A c \in Configs : outcome[<<k, c>>] # Nobody
  /\ exit[k] = "ok" => \A c \in Configs : outcome[<<k, c>>] # "failed"
  /\ exit[k] = "failures" => \E c \in Configs : outcome[<<k, c>>] = "failed"

ExitsAreTrue == \A k \in Commands : IsTrue(k)

OrderInv == OrderTypes /\ JobsWithin /\ EndedAreOut /\ ExitsAreTrue

BatchInv == LockInv /\ OrderInv

-----------------------------------------------------------------------------
(* Names.                                                                  *)

LEMMA LockNames ==
  /\ \A k \in Commands : k \in Actors /\ Process(k) = k /\ Path(k) = Root
  /\ \A k \in Commands, c \in Configs :
       <<k, c>> \in Actors /\ Process(<<k, c>>) = k /\ Path(<<k, c>>) = Folder[c]
  /\ \A y \in Verifiers : y \in Actors /\ Process(y) = y /\ Path(y) = Work[y]
  /\ \A e \in Edits : e \in Actors /\ Process(e) = Viewer /\ Path(e) = Root
<1>1. ASSUME NEW k \in Commands
      PROVE  k \in Actors /\ Process(k) = k /\ Path(k) = Root
  <2>1. k \notin Jobs /\ k \notin Edits /\ k \notin Verifiers
    OBVIOUS
  <2> QED  BY <2>1 DEF Process, Path, Actors
<1>2. ASSUME NEW k \in Commands, NEW c \in Configs
      PROVE  <<k, c>> \in Actors /\ Process(<<k, c>>) = k /\ Path(<<k, c>>) = Folder[c]
  <2>1. <<k, c>> \in Jobs
    BY DEF Jobs
  <2>2. <<k, c>> \notin Verifiers /\ <<k, c>> \notin Edits
    BY <2>1
  <2> QED  BY <2>1, <2>2 DEF Process, Path, Actors
<1>3. ASSUME NEW y \in Verifiers
      PROVE  y \in Actors /\ Process(y) = y /\ Path(y) = Work[y]
  <2>1. y \notin Jobs /\ y \notin Edits
    OBVIOUS
  <2> QED  BY <2>1 DEF Process, Path, Actors
<1>4. ASSUME NEW e \in Edits
      PROVE  e \in Actors /\ Process(e) = Viewer /\ Path(e) = Root
  <2>1. e \notin Jobs /\ e \notin Verifiers
    OBVIOUS
  <2> QED  BY <2>1 DEF Process, Path, Actors
<1> QED  BY <1>1, <1>2, <1>3, <1>4

LEMMA JobsDiffer ==
  \A k \in Commands, c \in Configs :
    /\ <<k, c>> \in Jobs /\ <<k, c>> \in Actors
    /\ <<k, c>> \notin Commands /\ <<k, c>> \notin Verifiers \union Edits
<1> SUFFICES ASSUME NEW k \in Commands, NEW c \in Configs
             PROVE  /\ <<k, c>> \in Jobs /\ <<k, c>> \in Actors
                    /\ <<k, c>> \notin Commands /\ <<k, c>> \notin Verifiers \union Edits
  OBVIOUS
<1>1. <<k, c>> \in Jobs
  BY DEF Jobs
<1> QED  BY <1>1 DEF Actors

LEMMA NamesInRange ==
  \A x \in Actors : Process(x) \in Processes /\ Path(x) \in Paths
<1> SUFFICES ASSUME NEW x \in Actors
             PROVE  Process(x) \in Processes /\ Path(x) \in Paths
  OBVIOUS
<1>1. CASE x \in Commands
  BY <1>1, LockNames DEF Processes, Paths
<1>2. CASE x \in Jobs
  <2>1. PICK k \in Commands, c \in Configs : x = <<k, c>>
    BY <1>2 DEF Jobs
  <2> QED  BY <2>1, LockNames DEF Processes, Paths
<1>3. CASE x \in Verifiers
  BY <1>3, LockNames DEF Processes, Paths
<1>4. CASE x \in Edits
  BY <1>4, LockNames DEF Processes, Paths
<1> QED  BY <1>1, <1>2, <1>3, <1>4 DEF Actors

-----------------------------------------------------------------------------
(* The five ways in which locks move.                                      *)

\* Mine is the key of the process lock of x.
Mine(x) == <<Process(x), Path(x)>>

LEMMA EntersOK ==
  ASSUME LockInv, NEW x \in Actors, at[x] = "out", Enters(x)
  PROVE  LockInv'
<1> USE DEF LockInv, Move
<1>1. /\ Process(x) \in Processes /\ Path(x) \in Paths
      /\ processLock[Mine(x)] = Nobody
      /\ processLock' = [processLock EXCEPT ![Mine(x)] = x]
      /\ at' = [at EXCEPT ![x] = "locking"] /\ fileLock' = fileLock
  BY NamesInRange DEF Enters, Mine
<1>2. LockTypes'
  BY <1>1 DEF LockTypes, Mine
<1>3. HoldersHave'
  BY <1>1, NamesInRange DEF LockTypes, HoldersHave, Mine
<1>4. LocksAreHeld'
  BY <1>1, NamesInRange DEF LockTypes, LocksAreHeld, Mine
<1> QED  BY <1>2, <1>3, <1>4

LEMMA LocksOK ==
  ASSUME LockInv, NEW x \in Actors, Locks(x)
  PROVE  LockInv'
<1> USE DEF LockInv, Move
<1>1. /\ Process(x) \in Processes /\ Path(x) \in Paths
      /\ at[x] = "locking" /\ fileLock[Path(x)] = Nobody
      /\ fileLock' = [fileLock EXCEPT ![Path(x)] = Process(x)]
      /\ at' = [at EXCEPT ![x] = "in"] /\ processLock' = processLock
  BY NamesInRange DEF Locks, FileIsFree
<1>2. LockTypes'
  BY <1>1 DEF LockTypes
<1>3. HoldersHave'
  BY <1>1, NamesInRange DEF LockTypes, HoldersHave
<1>4. LocksAreHeld'
  BY <1>1, NamesInRange DEF LockTypes, LocksAreHeld
<1> QED  BY <1>2, <1>3, <1>4

\* Nobody else is in the way of the locks of x.
LEMMA OnlyHolder ==
  ASSUME LockInv, NEW x \in Actors, NEW y \in Actors, x # y, at[x] # "out", at[y] # "out"
  PROVE  /\ Mine(x) # Mine(y)
         /\ at[x] = "in" /\ at[y] = "in" => Path(x) # Path(y)
<1>1. Mine(x) # Mine(y)
  BY DEF LockInv, HoldersHave, Mine
<1>2. ASSUME at[x] = "in", at[y] = "in", Path(x) = Path(y)  PROVE FALSE
  BY <1>1, <1>2 DEF LockInv, HoldersHave, Mine
<1> QED  BY <1>1, <1>2

LEMMA RefusedOK ==
  ASSUME LockInv, NEW x \in Actors, at[x] = "locking", IsRefused(x), Move(x, "out")
  PROVE  LockInv'
<1> USE DEF LockInv, Move
<1>1. /\ Process(x) \in Processes /\ Path(x) \in Paths
      /\ processLock' = [processLock EXCEPT ![Mine(x)] = Nobody]
      /\ at' = [at EXCEPT ![x] = "out"] /\ fileLock' = fileLock
  BY NamesInRange DEF IsRefused, FreeProcessLock, Mine
<1>2. LockTypes'
  BY <1>1 DEF LockTypes, Mine
<1>3. HoldersHave'
  BY <1>1, OnlyHolder, NamesInRange DEF LockTypes, HoldersHave, Mine
<1>4. LocksAreHeld'
  BY <1>1, NamesInRange DEF LockTypes, LocksAreHeld, HoldersHave, Mine
<1> QED  BY <1>2, <1>3, <1>4

LEMMA FreesOK ==
  ASSUME LockInv, NEW x \in Actors, at[x] = "in", Frees(x), Move(x, "out")
  PROVE  LockInv'
<1> USE DEF LockInv, Move
<1>1. /\ Process(x) \in Processes /\ Path(x) \in Paths
      /\ processLock' = [processLock EXCEPT ![Mine(x)] = Nobody]
      /\ fileLock' = [fileLock EXCEPT ![Path(x)] = Nobody]
      /\ at' = [at EXCEPT ![x] = "out"]
  BY NamesInRange DEF Frees, FreeProcessLock, Mine
<1>2. LockTypes'
  BY <1>1 DEF LockTypes, Mine
<1>3. HoldersHave'
  BY <1>1, OnlyHolder, NamesInRange DEF LockTypes, HoldersHave, Mine
<1>4. LocksAreHeld'
  <2>1. ASSUME NEW p \in Processes \X Paths, processLock'[p] # Nobody
        PROVE  /\ at'[processLock'[p]] # "out"
               /\ p = <<Process(processLock'[p]), Path(processLock'[p])>>
    BY <1>1, <2>1, NamesInRange DEF LockTypes, LocksAreHeld, HoldersHave, Mine
  <2>2. ASSUME NEW f \in Paths, fileLock'[f] # Nobody
        PROVE  \E y \in Actors : at'[y] = "in" /\ Path(y) = f /\ Process(y) = fileLock'[f]
    BY <1>1, <2>2 DEF LockTypes, LocksAreHeld
  <2> QED  BY <2>1, <2>2 DEF LocksAreHeld
<1> QED  BY <1>2, <1>3, <1>4

LEMMA BatchKillOK ==
  ASSUME LockInv, NEW k \in Commands, KillCommand(k)
  PROVE  LockInv'
<1> USE DEF LockInv
<1>1. /\ at' = [x \in Actors |-> IF Process(x) = k THEN "out" ELSE at[x]]
      /\ processLock' = [p \in Processes \X Paths |->
                           IF p[1] = k THEN Nobody ELSE processLock[p]]
      /\ fileLock' = [f \in Paths |-> IF fileLock[f] = k THEN Nobody ELSE fileLock[f]]
  BY DEF KillCommand
<1>2. LockTypes'
  BY <1>1 DEF LockTypes
<1>3. HoldersHave'
  BY <1>1, NamesInRange DEF LockTypes, HoldersHave
<1>4. LocksAreHeld'
  <2>1. ASSUME NEW p \in Processes \X Paths, processLock'[p] # Nobody
        PROVE  /\ at'[processLock'[p]] # "out"
               /\ p = <<Process(processLock'[p]), Path(processLock'[p])>>
    BY <1>1, <2>1 DEF LockTypes, LocksAreHeld
  <2>2. ASSUME NEW f \in Paths, fileLock'[f] # Nobody
        PROVE  \E y \in Actors : at'[y] = "in" /\ Path(y) = f /\ Process(y) = fileLock'[f]
    <3>1. fileLock[f] # Nobody /\ fileLock[f] # k /\ fileLock'[f] = fileLock[f]
      BY <1>1, <2>2
    <3>2. PICK y \in Actors : at[y] = "in" /\ Path(y) = f /\ Process(y) = fileLock[f]
      BY <3>1 DEF LocksAreHeld
    <3> QED  BY <1>1, <3>1, <3>2
  <2> QED  BY <2>1, <2>2 DEF LocksAreHeld
<1> QED  BY <1>2, <1>3, <1>4

-----------------------------------------------------------------------------
(* The steps of commands and jobs.                                         *)

LEMMA StaysTrue ==
  ASSUME NEW k \in Commands, IsTrue(k), exit'[k] = exit[k],
         \A c \in Configs : outcome'[<<k, c>>] = outcome[<<k, c>>]
  PROVE  IsTrue(k)'
<1>1. (exit[k] \in {"ok", "failures"} => \A c \in Configs : outcome[<<k, c>>] # Nobody)'
  BY DEF IsTrue
<1>2. (exit[k] = "ok" => \A c \in Configs : outcome[<<k, c>>] # "failed")'
  BY DEF IsTrue
<1>3. (exit[k] = "failures" => \E c \in Configs : outcome[<<k, c>>] = "failed")'
  BY DEF IsTrue
<1> QED  BY <1>1, <1>2, <1>3 DEF IsTrue

LEMMA BatchInitOK == BatchInit => BatchInv
<1> SUFFICES ASSUME BatchInit PROVE BatchInv
  OBVIOUS
<1>1. LockInv
  BY NamesInRange DEF BatchInit, LockInv, LockTypes, HoldersHave, LocksAreHeld
<1>2. OrderInv
  BY JobsDiffer, LockNames
     DEF BatchInit, OrderInv, OrderTypes, JobsWithin, EndedAreOut, ExitsAreTrue, IsTrue
<1> QED  BY <1>1, <1>2 DEF BatchInv

\* Steps that no command and no job takes.
LEMMA OthersKeepOrder ==
  ASSUME OrderInv, LockTypes, NEW x \in Verifiers \union Edits, NEW l, Move(x, l),
         UNCHANGED <<outcome, exit>>
  PROVE  OrderInv'
<1>1. \A k \in Commands : k \in Actors /\ k # x
  BY LockNames
<1>2. \A k \in Commands, c \in Configs : <<k, c>> \in Actors /\ <<k, c>> # x
  BY JobsDiffer
<1>3. /\ \A k \in Commands : at'[k] = at[k]
      /\ \A k \in Commands, c \in Configs : at'[<<k, c>>] = at[<<k, c>>]
  BY <1>1, <1>2 DEF LockTypes, Move
<1>4. OrderTypes' /\ JobsWithin' /\ EndedAreOut'
  BY <1>3 DEF OrderInv, OrderTypes, JobsWithin, EndedAreOut
<1>5. ExitsAreTrue'
  BY StaysTrue DEF OrderInv, ExitsAreTrue
<1> QED  BY <1>4, <1>5 DEF OrderInv

\* A command moves whose jobs are out.
LEMMA CommandKeepsOrder ==
  ASSUME OrderInv, LockTypes, NEW k \in Commands, NEW l, Move(k, l),
         \A c \in Configs : at[<<k, c>>] = "out",
         l = "out" \/ exit[k] = Nobody, UNCHANGED outcome,
         \/ UNCHANGED exit
         \/ l = "out" /\ exit' = [exit EXCEPT ![k] = "refused"]
  PROVE  OrderInv'
<1>1. \A h \in Commands : h \in Actors
  BY LockNames
<1>2. \A h \in Commands, c \in Configs : <<h, c>> \in Actors /\ <<h, c>> # k
  BY JobsDiffer
<1>3. /\ \A h \in Commands : at'[h] = IF h = k THEN l ELSE at[h]
      /\ \A h \in Commands, c \in Configs : at'[<<h, c>>] = at[<<h, c>>]
  BY <1>1, <1>2 DEF Move, LockTypes
<1>4. \A h \in Commands : exit'[h] # exit[h] => h = k /\ l = "out" /\ exit'[h] = "refused"
  BY DEF OrderInv, OrderTypes
<1>5. OrderTypes'
  BY DEF OrderInv, OrderTypes, Exits
<1>6. JobsWithin'
  BY <1>3 DEF OrderInv, JobsWithin
<1>7. EndedAreOut'
  BY <1>3, <1>4 DEF OrderInv, EndedAreOut
<1>8. ExitsAreTrue'
  <2> SUFFICES ASSUME NEW h \in Commands  PROVE IsTrue(h)'
    BY DEF ExitsAreTrue
  <2>1. IsTrue(h)
    BY DEF OrderInv, ExitsAreTrue
  <2>2. CASE exit'[h] = exit[h]
    BY <2>1, <2>2, StaysTrue
  <2>3. CASE exit'[h] # exit[h]
    BY <1>4, <2>3 DEF IsTrue
  <2> QED  BY <2>2, <2>3
<1> QED  BY <1>5, <1>6, <1>7, <1>8 DEF OrderInv

\* A job moves whose command is in.
LEMMA JobKeepsOrder ==
  ASSUME OrderInv, LockTypes, NEW k \in Commands, NEW c \in Configs, at[k] = "in",
         NEW l, Move(<<k, c>>, l), UNCHANGED exit,
         \/ UNCHANGED outcome
         \/ \E o \in JobOutcomes : outcome' = [outcome EXCEPT ![<<k, c>>] = o]
  PROVE  OrderInv'
<1>1. \A h \in Commands : h \in Actors /\ h # <<k, c>>
  BY LockNames, JobsDiffer
<1>2. \A h \in Commands, d \in Configs : <<h, d>> \in Actors /\ <<h, d>> \in Jobs
  BY JobsDiffer
<1>3. exit[k] = Nobody
  BY DEF OrderInv, EndedAreOut
<1>4. /\ \A h \in Commands : at'[h] = at[h]
      /\ \A h \in Commands, d \in Configs :
           <<h, d>> # <<k, c>> => at'[<<h, d>>] = at[<<h, d>>]
  BY <1>1, <1>2 DEF Move, LockTypes
<1>5. \A h \in Commands, d \in Configs : h # k => outcome'[<<h, d>>] = outcome[<<h, d>>]
  BY <1>2 DEF OrderInv, OrderTypes
<1>6. OrderTypes'
  <2>1. <<k, c>> \in Jobs
    BY <1>2
  <2>2. CASE UNCHANGED outcome
    BY <2>2 DEF OrderInv, OrderTypes
  <2>3. ASSUME NEW o \in JobOutcomes, outcome' = [outcome EXCEPT ![<<k, c>>] = o]
        PROVE  OrderTypes'
    BY <2>1, <2>3 DEF OrderInv, OrderTypes
  <2> QED  BY <2>2, <2>3
<1>7. JobsWithin'
  <2> SUFFICES ASSUME NEW h \in Commands, NEW d \in Configs, at'[<<h, d>>] # "out"
               PROVE  at'[h] = "in"
    BY DEF JobsWithin
  <2>1. CASE h = k
    BY <1>4, <2>1
  <2>2. CASE h # k
    <3>1. <<h, d>> # <<k, c>>
      BY <2>2
    <3> QED  BY <1>4, <3>1 DEF OrderInv, JobsWithin
  <2> QED  BY <2>1, <2>2
<1>8. EndedAreOut'
  BY <1>4 DEF OrderInv, EndedAreOut
<1>9. ExitsAreTrue'
  <2> SUFFICES ASSUME NEW h \in Commands  PROVE IsTrue(h)'
    BY DEF ExitsAreTrue
  <2>1. IsTrue(h)
    BY DEF OrderInv, ExitsAreTrue
  <2>2. CASE h = k
    BY <1>3, <2>2 DEF IsTrue
  <2>3. CASE h # k
    BY <1>5, <2>1, <2>3, StaysTrue
  <2> QED  BY <2>2, <2>3
<1> QED  BY <1>6, <1>7, <1>8, <1>9 DEF OrderInv

LEMMA EndOK ==
  ASSUME BatchInv, NEW k \in Commands, End(k)
  PROVE  BatchInv'
<1> USE DEF BatchInv
<1>1. k \in Actors
  BY LockNames
<1>2. LockInv'
  BY <1>1, FreesOK DEF End
<1>3. \A c \in Configs : at[<<k, c>>] = "out" /\ Ran(<<k, c>>)
  BY DEF End, AllRan, Running
<1>4. OrderInv'
  <2>1. \A h \in Commands : h \in Actors
    BY LockNames
  <2>2. \A h \in Commands, c \in Configs : <<h, c>> \in Actors /\ <<h, c>> # k
    BY JobsDiffer
  <2>3. /\ at' = [at EXCEPT ![k] = "out"] /\ outcome' = outcome
        /\ exit' = [exit EXCEPT ![k] = IF UnexpectedFailure(k) THEN "failures" ELSE "ok"]
    BY DEF End, Move
  <2>4. /\ \A h \in Commands : at'[h] = IF h = k THEN "out" ELSE at[h]
        /\ \A h \in Commands, c \in Configs : at'[<<h, c>>] = at[<<h, c>>]
    BY <2>1, <2>2, <2>3 DEF LockInv, LockTypes
  <2>5. \A h \in Commands : exit'[h] = IF h = k THEN IF UnexpectedFailure(k) THEN "failures"
                                                    ELSE "ok"
                                       ELSE exit[h]
    BY <2>3 DEF OrderInv, OrderTypes
  <2>6. OrderTypes'
    BY <2>3 DEF OrderInv, OrderTypes, Exits
  <2>7. JobsWithin'
    BY <1>3, <2>4 DEF OrderInv, JobsWithin
  <2>8. EndedAreOut'
    BY <2>4, <2>5 DEF OrderInv, EndedAreOut
  <2>9. ExitsAreTrue'
    <3> SUFFICES ASSUME NEW h \in Commands  PROVE IsTrue(h)'
      BY DEF ExitsAreTrue
    <3>1. IsTrue(h)
      BY DEF OrderInv, ExitsAreTrue
    <3>2. CASE h # k
      BY <2>3, <2>5, <3>1, <3>2, StaysTrue
    <3>3. CASE h = k /\ UnexpectedFailure(k)
      <4>1. exit'[h] = "failures"
        BY <2>5, <3>3
      <4>2. \A c \in Configs : outcome'[<<h, c>>] # Nobody
        BY <1>3, <2>3, <3>3 DEF Ran
      <4>3. PICK c \in Configs : outcome'[<<h, c>>] = "failed"
        BY <2>3, <3>3 DEF UnexpectedFailure
      <4> QED  BY <4>1, <4>2, <4>3 DEF IsTrue
    <3>4. CASE h = k /\ ~UnexpectedFailure(k)
      <4>1. exit'[h] = "ok"
        BY <2>5, <3>4
      <4>2. \A c \in Configs : outcome'[<<h, c>>] # Nobody
        BY <1>3, <2>3, <3>4 DEF Ran
      <4>3. \A c \in Configs : outcome'[<<h, c>>] # "failed"
        BY <2>3, <3>4 DEF UnexpectedFailure
      <4> QED  BY <4>1, <4>2, <4>3 DEF IsTrue
    <3> QED  BY <3>2, <3>3, <3>4
  <2> QED  BY <2>6, <2>7, <2>8, <2>9 DEF OrderInv
<1> QED  BY <1>2, <1>4

LEMMA KillKeepsOrder ==
  ASSUME BatchInv, NEW k \in Commands, KillCommand(k)
  PROVE  OrderInv'
<1>1. /\ at' = [x \in Actors |-> IF Process(x) = k THEN "out" ELSE at[x]]
      /\ exit' = [exit EXCEPT ![k] = "killed"] /\ outcome' = outcome
  BY DEF KillCommand
<1>2. \A h \in Commands : at'[h] = IF h = k THEN "out" ELSE at[h]
  BY <1>1, LockNames
<1>3. \A h \in Commands, c \in Configs :
        at'[<<h, c>>] = IF h = k THEN "out" ELSE at[<<h, c>>]
  BY <1>1, LockNames
<1>4. \A h \in Commands : exit'[h] = IF h = k THEN "killed" ELSE exit[h]
  BY <1>1 DEF BatchInv, OrderInv, OrderTypes
<1>5. OrderTypes'
  BY <1>1 DEF BatchInv, OrderInv, OrderTypes, Exits
<1>6. JobsWithin'
  BY <1>2, <1>3 DEF BatchInv, OrderInv, JobsWithin
<1>7. EndedAreOut'
  BY <1>2, <1>4 DEF BatchInv, OrderInv, EndedAreOut
<1>8. ExitsAreTrue'
  <2> SUFFICES ASSUME NEW h \in Commands  PROVE IsTrue(h)'
    BY DEF ExitsAreTrue
  <2>1. IsTrue(h)
    BY DEF BatchInv, OrderInv, ExitsAreTrue
  <2>2. CASE h = k
    BY <1>4, <2>2 DEF IsTrue
  <2>3. CASE h # k
    BY <1>1, <1>4, <2>1, <2>3, StaysTrue
  <2> QED  BY <2>2, <2>3
<1> QED  BY <1>5, <1>6, <1>7, <1>8 DEF OrderInv

LEMMA CommandStepOK ==
  ASSUME BatchInv, NEW k \in Commands, BeginCommand(k) \/ RootRefused(k)
  PROVE  BatchInv'
<1> USE DEF BatchInv
<1>1. k \in Actors
  BY LockNames
<1>2. ASSUME at[k] # "in"  PROVE \A c \in Configs : at[<<k, c>>] = "out"
  BY <1>2 DEF OrderInv, JobsWithin
<1>3. CASE BeginCommand(k) /\ Enters(k) /\ UNCHANGED exit
  <2>1. LockInv'
    BY <1>1, <1>3, EntersOK DEF BeginCommand
  <2>2. OrderInv'
    BY <1>2, <1>3, CommandKeepsOrder DEF BeginCommand, Enters, LockInv
  <2> QED  BY <2>1, <2>2
<1>4. CASE BeginCommand(k) /\ IsRefused(k) /\ UNCHANGED at
  <2>1. UNCHANGED <<processLock, fileLock, at, outcome>> /\ at[k] = "out"
        /\ exit' = [exit EXCEPT ![k] = "refused"]
    BY <1>4, <1>1 DEF BeginCommand, IsRefused, Enters, Move, LockInv, LockTypes
  <2>2. LockInv'
    BY <2>1 DEF LockInv, LockTypes, HoldersHave, LocksAreHeld
  <2>3. OrderInv'
    <3>1. Move(k, "out") /\ \A c \in Configs : at[<<k, c>>] = "out"
      BY <1>1, <1>2, <2>1 DEF Move, LockInv, LockTypes
    <3> QED  BY <2>1, <3>1, CommandKeepsOrder DEF LockInv
  <2> QED  BY <2>2, <2>3
<1>5. CASE RootRefused(k)
  <2>1. LockInv'
    BY <1>1, <1>5, RefusedOK DEF RootRefused
  <2>2. OrderInv'
    BY <1>2, <1>5, CommandKeepsOrder DEF RootRefused, LockInv
  <2> QED  BY <2>1, <2>2
<1> QED  BY <1>3, <1>4, <1>5 DEF BeginCommand, Enters, Move

LEMMA JobStepOK ==
  ASSUME BatchInv, NEW k \in Commands, NEW c \in Configs,
         StartJob(k, c) \/ JobRefused(<<k, c>>) \/ EndJob(<<k, c>>)
  PROVE  BatchInv'
<1> USE DEF BatchInv
<1>1. <<k, c>> \in Actors
  BY LockNames
<1>2. at[k] = "in"
  BY DEF StartJob, JobRefused, EndJob, OrderInv, JobsWithin
<1>3. CASE StartJob(k, c) /\ Enters(<<k, c>>) /\ UNCHANGED outcome
  <2>1. LockInv'
    BY <1>1, <1>3, EntersOK DEF StartJob
  <2>2. OrderInv'
    BY <1>2, <1>3, JobKeepsOrder DEF StartJob, Enters, LockInv
  <2> QED  BY <2>1, <2>2
<1>4. CASE StartJob(k, c) /\ IsRefused(<<k, c>>) /\ UNCHANGED at
                         /\ outcome' = [outcome EXCEPT ![<<k, c>>] = "failed"]
  <2>1. UNCHANGED <<processLock, fileLock, at, exit>>
    BY <1>4 DEF StartJob, IsRefused
  <2>2. LockInv'
    BY <2>1 DEF LockInv, LockTypes, HoldersHave, LocksAreHeld
  <2>3. OrderInv'
    <3>1. Move(<<k, c>>, at[<<k, c>>])
      BY <2>1, <1>1 DEF Move, LockInv, LockTypes
    <3> QED  BY <1>2, <1>4, <2>1, <3>1, JobKeepsOrder DEF LockInv, JobOutcomes
  <2> QED  BY <2>2, <2>3
<1>5. CASE JobRefused(<<k, c>>)
  <2>1. LockInv'
    BY <1>1, <1>5, RefusedOK DEF JobRefused
  <2>2. OrderInv'
    BY <1>2, <1>5, JobKeepsOrder DEF JobRefused, LockInv, JobOutcomes
  <2> QED  BY <2>1, <2>2
<1>6. CASE EndJob(<<k, c>>)
  <2>1. LockInv'
    BY <1>1, <1>6, FreesOK DEF EndJob
  <2>2. OrderInv'
    BY <1>2, <1>6, JobKeepsOrder DEF EndJob, LockInv, JobOutcomes
  <2> QED  BY <2>1, <2>2
<1> QED  BY <1>3, <1>4, <1>5, <1>6 DEF StartJob

\* Any actor gets its file lock.
LEMMA LocksKeepsOrder ==
  ASSUME BatchInv, NEW x \in Actors, Locks(x)
  PROVE  OrderInv'
<1> USE DEF BatchInv, LockInv, Locks
<1>1. CASE x \in Commands
  <2>1. at[x] = "locking" /\ exit[x] = Nobody /\ \A c \in Configs : at[<<x, c>>] = "out"
    BY <1>1 DEF OrderInv, JobsWithin, EndedAreOut
  <2> QED  BY <1>1, <2>1, CommandKeepsOrder
<1>2. CASE x \in Jobs
  <2>1. PICK k \in Commands, c \in Configs : x = <<k, c>>
    BY <1>2 DEF Jobs
  <2>2. at[k] = "in"
    BY <2>1 DEF OrderInv, JobsWithin
  <2> QED  BY <2>1, <2>2, JobKeepsOrder
<1>3. CASE x \in Verifiers \union Edits
  BY <1>3, OthersKeepOrder
<1> QED  BY <1>1, <1>2, <1>3 DEF Actors

LEMMA VisitorStepOK ==
  ASSUME BatchInv, NEW x \in Verifiers \union Edits, Visit(x) \/ VisitRefused(x) \/ Depart(x)
  PROVE  BatchInv'
<1> USE DEF BatchInv
<1>1. x \in Actors
  BY LockNames
<1>2. CASE Visit(x)
  BY <1>1, <1>2, EntersOK, OthersKeepOrder DEF Visit, Enters, LockInv
<1>3. CASE VisitRefused(x)
  BY <1>1, <1>3, RefusedOK, OthersKeepOrder DEF VisitRefused, LockInv
<1>4. CASE Depart(x)
  BY <1>1, <1>4, FreesOK, OthersKeepOrder DEF Depart, LockInv
<1> QED  BY <1>2, <1>3, <1>4

LEMMA BatchStepOK == BatchInv /\ [BatchNext]_batchVars => BatchInv'
<1> SUFFICES ASSUME BatchInv, [BatchNext]_batchVars PROVE BatchInv'
  OBVIOUS
<1>1. ASSUME NEW x \in Actors, Locks(x)  PROVE BatchInv'
  BY <1>1, LocksOK, LocksKeepsOrder DEF BatchInv
<1>2. ASSUME NEW k \in Commands, RootRefused(k) \/ BeginCommand(k)  PROVE BatchInv'
  BY <1>2, CommandStepOK
<1>3. ASSUME NEW k \in Commands, End(k)  PROVE BatchInv'
  BY <1>3, EndOK
<1>4. ASSUME NEW k \in Commands, NEW c \in Configs, StartJob(k, c)  PROVE BatchInv'
  BY <1>4, JobStepOK
<1>5. ASSUME NEW j \in Jobs, JobRefused(j) \/ EndJob(j)  PROVE BatchInv'
  <2>1. PICK k \in Commands, c \in Configs : j = <<k, c>>
    BY DEF Jobs
  <2> QED  BY <1>5, <2>1, JobStepOK
<1>6. ASSUME NEW x \in Verifiers \union Edits, Visit(x) \/ VisitRefused(x) \/ Depart(x)
      PROVE  BatchInv'
  BY <1>6, VisitorStepOK
<1>7. ASSUME NEW k \in Commands, KillCommand(k)  PROVE BatchInv'
  BY <1>7, BatchKillOK, KillKeepsOrder DEF BatchInv
<1>8. CASE UNCHANGED batchVars
  <2>1. LockInv'
    BY <1>8 DEF batchVars, BatchInv, LockInv, LockTypes, HoldersHave, LocksAreHeld
  <2>2. OrderTypes' /\ JobsWithin' /\ EndedAreOut'
    BY <1>8 DEF batchVars, BatchInv, OrderInv, OrderTypes, JobsWithin, EndedAreOut
  <2>3. ExitsAreTrue'
    BY <1>8, StaysTrue DEF batchVars, BatchInv, OrderInv, ExitsAreTrue
  <2> QED  BY <2>1, <2>2, <2>3 DEF BatchInv, OrderInv
<1>9. CASE BatchNext
  <2>1. ASSUME NEW x \in Actors, Ends(x)  PROVE BatchInv'
    BY <2>1, <1>1, <1>2, <1>3, <1>4, <1>5, <1>6 DEF Ends
  <2> QED  BY <1>9, <2>1, <1>2, <1>6, <1>7 DEF BatchNext
<1> QED  BY <1>8, <1>9

THEOREM BatchInvariance == BatchSpec => []BatchInv
BY BatchInitOK, BatchStepOK, PTL DEF BatchSpec

-----------------------------------------------------------------------------
(* What follows.                                                           *)

LEMMA InvExcludes == BatchInv => WritersExclude
<1> SUFFICES ASSUME BatchInv, NEW f \in Folders,
                    NEW x \in Actors, NEW y \in Actors, Writes(x, f), Writes(y, f)
             PROVE  x = y
  BY DEF WritersExclude
<1> USE DEF BatchInv, LockInv, HoldersHave
<1>1. ASSUME NEW a \in Actors, Writes(a, f), a \in Jobs
      PROVE  \E k \in Commands, c \in Configs :
               /\ a = <<k, c>> /\ at[a] = "in" /\ Folder[c] = f
               /\ fileLock[f] = k /\ fileLock[Root] = k
               /\ processLock[<<k, f>>] = a
  <2>1. PICK k \in Commands, c \in Configs : a = <<k, c>>
    BY <1>1 DEF Jobs
  <2>2. a \notin Edits
    BY <1>1
  <2>3. at[a] = "in" /\ Folder[a[2]] = f
    BY <1>1, <2>2 DEF Writes
  <2>4. Process(a) = k /\ Path(a) = f
    BY <2>1, <2>3, LockNames
  <2>5. at[k] = "in" /\ k \in Actors /\ Process(k) = k /\ Path(k) = Root
    BY <2>1, <2>3, LockNames DEF OrderInv, JobsWithin
  <2> QED  BY <2>1, <2>3, <2>4, <2>5
<1>2. ASSUME NEW a \in Actors, Writes(a, f), a \notin Jobs
      PROVE  /\ a \in Edits /\ processLock[<<Viewer, Root>>] = a
             /\ fileLock[Root] = Viewer
  <2>1. a \in Edits /\ at[a] = "in"
    BY <1>2 DEF Writes
  <2>2. Process(a) = Viewer /\ Path(a) = Root
    BY <2>1, LockNames
  <2> QED  BY <2>1, <2>2
<1>3. CASE x \in Jobs /\ y \in Jobs
  <2>1. PICK k \in Commands : fileLock[f] = k /\ processLock[<<k, f>>] = x
    BY <1>1, <1>3
  <2>2. PICK h \in Commands : fileLock[f] = h /\ processLock[<<h, f>>] = y
    BY <1>1, <1>3
  <2> QED  BY <2>1, <2>2
<1>4. CASE x \notin Jobs /\ y \notin Jobs
  BY <1>2, <1>4
<1>5. ASSUME NEW a \in Actors, NEW b \in Actors, Writes(a, f), Writes(b, f),
             a \in Jobs, b \notin Jobs
      PROVE  FALSE
  <2>1. PICK k \in Commands : fileLock[Root] = k
    BY <1>5, <1>1
  <2>2. fileLock[Root] = Viewer
    BY <1>2, <1>5
  <2> QED  BY <2>1, <2>2
<1> QED  BY <1>3, <1>4, <1>5

LEMMA InvEnded == BatchInv => EndedLeaveNothing
<1> SUFFICES ASSUME BatchInv PROVE EndedLeaveNothing
  OBVIOUS
<1>1. ASSUME NEW p \in Processes \X Paths, processLock[p] # Nobody
      PROVE  at[processLock[p]] # "out" /\ Process(processLock[p]) = p[1]
  BY <1>1 DEF BatchInv, LockInv, LocksAreHeld
<1>2. ASSUME NEW k \in Commands, exit[k] \in {"ok", "failures"}
      PROVE  /\ \A c \in Configs : at[<<k, c>>] = "out" /\ Ran(<<k, c>>)
             /\ exit[k] = "failures" <=> \E c \in Configs : outcome[<<k, c>>] = "failed"
  BY <1>2 DEF BatchInv, OrderInv, JobsWithin, EndedAreOut, ExitsAreTrue, IsTrue, Ran
<1> QED  BY <1>1, <1>2 DEF EndedLeaveNothing, BatchInv, LockInv, LocksAreHeld

\* Whatever the commands, configs, folders, edits and workers: no two writers are in
\* one folder, and who is done, refused or killed holds no lock.
\* (use_output_folder_lock, use_output_root_lock, run_thread_config_batch.)
THEOREM FoldersSafe == BatchSpec => []FoldersAreSafe
<1>1. BatchInv => FoldersAreSafe
  BY InvExcludes, InvEnded DEF FoldersAreSafe
<1> QED  BY <1>1, BatchInvariance, PTL

-----------------------------------------------------------------------------
(* The attempts to download a file.                                        *)

FailureKinds == {"connection", "timeout", "payload", "http_3xx", "http_4xx", "http_5xx"}
AttemptFailures ==
  {NoAnswer(kind) : kind \in {"connection", "timeout", "payload"}}
    \union {BadAnswer(s) : s \in Statuses}

\* A failure with a status has the class and the hope of its status.
IsFailure(f) ==
  /\ f.kind \in FailureKinds /\ f.status \in Statuses \union {-1}
  /\ f.status # -1 => (f.retryable <=> f.status \in RetryStatuses)
  /\ f.kind = "http_3xx" => f.status \in 300..399
  /\ f.kind = "http_4xx" => f.status \in 400..499

\* While the file is tried some URL has not failed yet; only a file that has come to
\* its end is replaced.
AttemptInv ==
  /\ stage \in {"idle", "request", "body", "replace"}
  /\ failures \in Seq(AttemptFailures)
  /\ stage # "idle" => reported.kind = "nothing"
  /\ reported.kind = "nothing" =>
       reported = NoAnswer("nothing") /\ Len(failures) < RequestUrls
  /\ stage = "replace" => temp = "whole"
  /\ AttemptsAreTrue

LEMMA FailuresAre ==
  ASSUME NEW f \in AttemptFailures
  PROVE  IsFailure(f)
<1>1. CASE \E kind \in {"connection", "timeout", "payload"} : f = NoAnswer(kind)
  BY <1>1 DEF NoAnswer, IsFailure, FailureKinds
<1>2. CASE \E s \in Statuses : f = BadAnswer(s)
  <2>1. PICK s \in Statuses : f = BadAnswer(s)
    BY <1>2
  <2>2. s \in Nat /\ s >= 300 /\ s # -1
    BY AttemptAssumption
  <2>3. f.kind = IF s < 400 THEN "http_3xx" ELSE IF s < 500 THEN "http_4xx" ELSE "http_5xx"
    BY <2>1 DEF BadAnswer
  <2>4. f.status = s
    BY <2>1 DEF BadAnswer
  <2>5. f.retryable <=> s \in RetryStatuses
    BY <2>1, ZenonT(30) DEF BadAnswer
  <2>6. (f.kind = "http_3xx" => s \in 300..399) /\ (f.kind = "http_4xx" => s \in 400..499)
    BY <2>2, <2>3
  <2>7. f.kind \in FailureKinds
    BY <2>3 DEF FailureKinds
  <2> QED  BY <2>2, <2>4, <2>5, <2>6, <2>7 DEF IsFailure
<1> QED  BY <1>1, <1>2 DEF AttemptFailures

\* NoAnswer has no status.
LEMMA NoAnswerIs ==
  ASSUME NEW kind
  PROVE  NoAnswer(kind).kind = kind /\ NoAnswer(kind).status = -1 /\ ~UsesBackoff(NoAnswer(kind))
BY DEF NoAnswer, UsesBackoff

LEMMA PriorityIs ==
  ASSUME NEW f
  PROVE  /\ Priority(f) \in Nat
         /\ Priority(f) >= 2 => ~(f.status # -1 /\ f.retryable) /\ f.kind # "payload"
         /\ f.status # -1 /\ ~f.retryable /\ f.kind # "payload" => Priority(f) = 2
BY DEF Priority

\* The failures are combined into one of them, and none has a lesser priority.
LEMMA CombinedIsLeast ==
  ASSUME NEW fs \in Seq(AttemptFailures), Len(fs) > 0
  PROVE  \E i \in DOMAIN fs :
           Combined(fs) = fs[i] /\ \A k \in DOMAIN fs : Priority(fs[i]) <= Priority(fs[k])
<1> DEFINE Leads(i) == \A k \in DOMAIN fs : /\ Priority(fs[i]) <= Priority(fs[k])
                                            /\ k < i => Priority(fs[i]) # Priority(fs[k])
<1>1. DOMAIN fs \subseteq Nat /\ 1 \in DOMAIN fs
  OBVIOUS
<1>2. PICK P : P = {Priority(fs[i]) : i \in DOMAIN fs}
  OBVIOUS
<1>3. P \in SUBSET Nat /\ P # {}
  BY <1>1, <1>2, PriorityIs
<1>4. PICK m \in P : \A n \in P : m <= n
  BY <1>3, HasLeast
<1>5. PICK I : I = {i \in DOMAIN fs : Priority(fs[i]) = m}
  OBVIOUS
<1>6. I \in SUBSET Nat /\ I # {}
  BY <1>1, <1>2, <1>4, <1>5
<1>7. PICK i \in I : \A k \in I : i <= k
  BY <1>6, HasLeast
<1>8. i \in DOMAIN fs /\ Leads(i)
  <2>1. ASSUME NEW k \in DOMAIN fs  PROVE Priority(fs[i]) <= Priority(fs[k])
    BY <1>2, <1>4, <1>5, <1>7
  <2>2. ASSUME NEW k \in DOMAIN fs, k < i  PROVE Priority(fs[i]) # Priority(fs[k])
    BY <1>1, <1>5, <1>7, <2>2
  <2> QED  BY <1>5, <1>7, <2>1, <2>2
<1>9. PICK j : j = CHOOSE k \in DOMAIN fs : Leads(k)
  OBVIOUS
<1>10. j \in DOMAIN fs /\ Leads(j)
  <2> HIDE DEF Leads
  <2> QED  BY <1>8, <1>9
<1>11. Combined(fs) = fs[j]
  BY <1>9 DEF Combined
<1> QED  BY <1>10, <1>11

LEMMA AttemptInitOK == AttemptInit => AttemptInv
<1> SUFFICES ASSUME AttemptInit  PROVE AttemptInv
  OBVIOUS
<1>1. failures \in Seq(AttemptFailures) /\ Len(failures) < RequestUrls
  BY AttemptAssumption DEF AttemptInit
<1>2. AttemptsAreTrue
  BY NoAnswerIs DEF AttemptInit, AttemptsAreTrue, GoneOnlyIfTold, FilesAreWhole
<1> QED  BY <1>1, <1>2 DEF AttemptInit, AttemptInv

\* What the failure of all URLs says: each is less than a word that the file may come,
\* and one is the word that it is gone.
LEMMA AllSayGone ==
  ASSUME NEW fs \in Seq(AttemptFailures), Len(fs) > 0, UsesBackoff(Combined(fs))
  PROVE  /\ \E i \in DOMAIN fs : fs[i].status \in (300..499) \ RetryStatuses
         /\ \A i \in DOMAIN fs : fs[i].status \notin RetryStatuses /\ fs[i].kind # "payload"
<1>1. PICK i \in DOMAIN fs :
        Combined(fs) = fs[i] /\ \A k \in DOMAIN fs : Priority(fs[i]) <= Priority(fs[k])
  BY CombinedIsLeast
<1>2. \A k \in DOMAIN fs : fs[k] \in AttemptFailures
  OBVIOUS
<1>3. PICK f \in AttemptFailures : f = fs[i]
  BY <1>2
<1>4. /\ IsFailure(f) /\ f.status # -1 /\ f.kind # "payload"
      /\ f.status \in 300..499 /\ f.status \notin RetryStatuses
  <2>1. IsFailure(f)
    BY <1>3, FailuresAre
  <2>2. UsesBackoff(f)
    <3>1. f = Combined(fs)
      BY <1>1, <1>3
    <3> QED  BY <3>1, Zenon
  <2>3. f.status # -1 /\ (f.kind = "http_3xx" \/ (f.kind = "http_4xx" /\ f.status # 429))
    BY <2>2, Zenon DEF UsesBackoff
  <2>4. /\ f.kind = "http_3xx" => f.status \in 300..399
        /\ f.kind = "http_4xx" => f.status \in 400..499
    BY <2>1, Zenon DEF IsFailure
  <2>5. PICK k, s : k = f.kind /\ s = f.status
    OBVIOUS
  <2>6. k # "payload" /\ s \in 300..499 /\ s # 429
    <3>1. CASE k = "http_3xx"
      <4>1. s \in 300..399
        BY <2>4, <2>5, <3>1
      <4> QED  BY <3>1, <4>1
    <3>2. CASE k = "http_4xx" /\ s # 429
      <4>1. s \in 400..499
        BY <2>4, <2>5, <3>2
      <4> QED  BY <3>2, <4>1
    <3> QED  BY <2>3, <2>5, <3>1, <3>2, Zenon
  <2>7. s \notin RetryStatuses
    BY <2>6, AttemptAssumption
  <2> QED  BY <2>1, <2>3, <2>5, <2>6, <2>7, Zenon
<1>5. ~f.retryable
  BY <1>4 DEF IsFailure
<1>6. Priority(f) = 2
  BY <1>4, <1>5, PriorityIs
<1>7. ASSUME NEW k \in DOMAIN fs
      PROVE  fs[k].status \notin RetryStatuses /\ fs[k].kind # "payload"
  <2>1. PICK g \in AttemptFailures : g = fs[k]
    BY <1>2
  <2>2. IsFailure(g) /\ Priority(g) >= 2
    BY <1>1, <1>3, <1>6, <2>1, FailuresAre
  <2>3. ~(g.status # -1 /\ g.retryable) /\ g.kind # "payload"
    BY <2>2, PriorityIs
  <2>4. g.status \notin RetryStatuses
    BY <2>2, <2>3, AttemptAssumption DEF IsFailure
  <2> QED  BY <2>1, <2>3, <2>4
<1> QED  BY <1>3, <1>4, <1>7

LEMMA FailsOK ==
  ASSUME AttemptInv, stage # "idle", NEW f \in AttemptFailures, Fails(f)
  PROVE  AttemptInv'
<1>1. PICK all \in Seq(AttemptFailures) : all = Append(failures, f)
  <2>1. failures \in Seq(AttemptFailures)
    BY DEF AttemptInv
  <2>2. Append(failures, f) \in Seq(AttemptFailures)
    BY <2>1
  <2> QED  BY <2>2, Zenon
<1>2. /\ Len(failures) \in Nat /\ Len(failures) < RequestUrls /\ Len(all) = Len(failures) + 1
      /\ failures \in Seq(AttemptFailures) /\ RequestUrls \in Nat \ {0}
  BY <1>1, NoAnswerIs, AttemptAssumption DEF AttemptInv
<1>3. temp' = NoFile /\ target' = target /\ reported = NoAnswer("nothing")
  BY DEF Fails, AttemptInv
<1>4. target \in {NoFile, "old", "whole"}
  BY DEF AttemptInv, AttemptsAreTrue, FilesAreWhole
<1>5. CASE /\ stage' = "request" /\ failures' \in {all, <<>>} /\ Len(failures') < RequestUrls
           /\ reported' = reported
  <2>1. failures' \in Seq(AttemptFailures)
    <3>1. << >> \in Seq(AttemptFailures)
      OBVIOUS
    <3> QED  BY <1>1, <1>5, <3>1
  <2>2. AttemptsAreTrue'
    BY <1>3, <1>4, <1>5, NoAnswerIs DEF AttemptsAreTrue, GoneOnlyIfTold, FilesAreWhole, UsesBackoff
  <2> QED  BY <1>3, <1>5, <2>1, <2>2 DEF AttemptInv
<1>6. CASE /\ Len(all) >= RequestUrls
           /\ stage' = "idle" /\ failures' = all /\ reported' = Combined(all)
  <2>1. Len(all) = RequestUrls
    BY <1>2, <1>6
  <2>2. PICK w \in AttemptFailures : w = Combined(all)
    <3>1. \A i \in DOMAIN all : all[i] \in AttemptFailures
      OBVIOUS
    <3> QED  BY <1>2, <3>1, CombinedIsLeast
  <2>3. w.kind \notin {"nothing", "stored"}
    BY FailuresAre DEF IsFailure, FailureKinds
  <2>4. GoneOnlyIfTold'
    <3>1. PICK c \in AttemptFailures : c = reported' /\ c = Combined(all)
      BY <1>6, <2>2
    <3> SUFFICES ASSUME UsesBackoff(c)
                 PROVE  /\ Len(all) = RequestUrls
                        /\ \E i \in DOMAIN all : all[i].status \in (300..499) \ RetryStatuses
                        /\ \A i \in DOMAIN all :
                             all[i].status \notin RetryStatuses /\ all[i].kind # "payload"
      BY <1>6, <3>1 DEF GoneOnlyIfTold, UsesBackoff
    <3>2. UsesBackoff(Combined(all))
      <4>1. c = Combined(all)
        BY <3>1
      <4> QED  BY <4>1
    <3>3. Len(all) > 0
      BY <1>2, <2>1
    <3>4. /\ \E i \in DOMAIN all : all[i].status \in (300..499) \ RetryStatuses
          /\ \A i \in DOMAIN all :
               all[i].status \notin RetryStatuses /\ all[i].kind # "payload"
      BY <3>2, <3>3, AllSayGone, Zenon
    <3> QED  BY <2>1, <3>4
  <2>5. FilesAreWhole'
    BY <1>3, <1>4, <1>6, <2>2, <2>3 DEF FilesAreWhole
  <2> QED  BY <1>6, <2>2, <2>3, <2>4, <2>5 DEF AttemptInv, AttemptsAreTrue
<1> QED
  <2>1. CASE Len(all) < RequestUrls
    BY <1>1, <1>5, <2>1 DEF Fails
  <2>2. CASE /\ Len(all) >= RequestUrls
             /\ stage' = "request" /\ failures' = <<>> /\ reported' = reported
    BY <1>2, <1>5, <2>2
  <2> QED  BY <1>1, <1>2, <1>6, <2>1, <2>2 DEF Fails

LEMMA AttemptStepOK == AttemptInv /\ [AttemptNext]_attemptVars => AttemptInv'
<1> SUFFICES ASSUME AttemptInv, [AttemptNext]_attemptVars  PROVE AttemptInv'
  OBVIOUS
<1> USE DEF AttemptsAreTrue
<1>1. CASE Start
  BY <1>1, NoAnswerIs DEF Start, AttemptInv, GoneOnlyIfTold, FilesAreWhole
<1>2. CASE Unreachable \/ Refused \/ BodyBreaks
  <2>1. PICK f \in AttemptFailures : Fails(f)
    BY <1>2 DEF Unreachable, Refused, BodyBreaks, AttemptFailures
  <2>2. stage # "idle"
    BY <1>2 DEF Unreachable, Refused, BodyBreaks
  <2> QED  BY <2>1, <2>2, FailsOK
<1>3. CASE Headers
  BY <1>3 DEF Headers, AttemptInv, GoneOnlyIfTold, FilesAreWhole
<1>4. CASE BodyEnds
  <2>1. CASE /\ stage = "body" /\ stage' = "replace" /\ temp' = "whole"
             /\ UNCHANGED <<target, failures, left, reported>>
    BY <2>1 DEF AttemptInv, GoneOnlyIfTold, FilesAreWhole
  <2>2. CASE stage = "body" /\ Fails(NoAnswer("payload"))
    <3>1. NoAnswer("payload") \in AttemptFailures
      BY DEF AttemptFailures
    <3> QED  BY <2>2, <3>1, FailsOK
  <2> QED  BY <1>4, <2>1, <2>2 DEF BodyEnds, LengthIsRight
<1>5. CASE Replace
  <2>1. target' = "whole" /\ temp' = NoFile /\ stage' = "idle" /\ failures' = failures
    BY <1>5 DEF Replace, AttemptInv
  <2>2. reported' = NoAnswer("stored")
    BY <1>5 DEF Replace
  <2>3. reported'.kind = "stored" /\ ~UsesBackoff(reported')
    BY <2>2, NoAnswerIs
  <2> QED  BY <2>1, <2>3 DEF AttemptInv, GoneOnlyIfTold, FilesAreWhole, UsesBackoff
<1>6. CASE Interrupted
  <2>1. reported'.kind = "unexpected" /\ ~UsesBackoff(reported')
    BY <1>6, NoAnswerIs DEF Interrupted
  <2> QED  BY <1>6, <2>1 DEF Interrupted, AttemptInv, GoneOnlyIfTold, FilesAreWhole, UsesBackoff
<1>7. CASE Killed
  <2>1. failures' \in Seq(AttemptFailures) /\ Len(failures') < RequestUrls
    BY <1>7, AttemptAssumption DEF Killed
  <2>2. reported' = NoAnswer("nothing") /\ reported'.kind = "nothing" /\ ~UsesBackoff(reported')
    BY <1>7, NoAnswerIs DEF Killed, AttemptInv
  <2> QED  BY <1>7, <2>1, <2>2 DEF Killed, AttemptInv, GoneOnlyIfTold, FilesAreWhole, UsesBackoff
<1>8. CASE Again
  <2>1. failures' \in Seq(AttemptFailures) /\ Len(failures') < RequestUrls
    BY <1>8, AttemptAssumption DEF Again
  <2>2. reported' = NoAnswer("nothing") /\ reported'.kind = "nothing" /\ ~UsesBackoff(reported')
    BY <1>8, NoAnswerIs DEF Again
  <2> QED  BY <1>8, <2>1, <2>2 DEF Again, AttemptInv, GoneOnlyIfTold, FilesAreWhole, UsesBackoff
<1>9. CASE UNCHANGED attemptVars
  BY <1>9 DEF attemptVars, AttemptInv, GoneOnlyIfTold, FilesAreWhole, UsesBackoff
<1> QED  BY <1>1, <1>2, <1>3, <1>4, <1>5, <1>6, <1>7, <1>8, <1>9 DEF AttemptNext

\* A file is left alone for long only if a host said that it is gone and no host that
\* it may come; it is replaced by a whole file only, and no temporary file stays: for
\* any URLs, statuses and retries.  (image_download_runtime.py, media_retry.py.)
THEOREM AttemptsStayTrue == AttemptSpec => []AttemptsAreTrue
<1>1. AttemptInv => AttemptsAreTrue
  BY DEF AttemptInv
<1> QED  BY <1>1, AttemptInitOK, AttemptStepOK, PTL DEF AttemptSpec

-----------------------------------------------------------------------------
(* The pages of a client.                                                  *)

CallsOf ==
  [kind : {"none", "stream", "get"}, want : Seq(Pages), cached : SUBSET Pages,
   asked : BOOLEAN, failed : BOOLEAN, running : SUBSET Pages, arrived : SUBSET Pages,
   completed : SUBSET Pages]

\* A stream fetches only what was not kept; what it has and has not handed out is
\* exactly what it fetched.
StreamOK(k) ==
  /\ unused = prefetch \union k.completed /\ k.completed = k.arrived
  /\ prefetch \intersect (k.running \union k.arrived) = {} /\ k.running \intersect k.arrived = {}
  /\ Range(k.want) \intersect prefetch \subseteq k.cached

PageInv ==
  /\ call \in CallsOf
  /\ call.kind = "stream" => StreamOK(call)
  /\ call.kind # "stream" => prefetch = unused

LEMMA NoCallTyped == NoCall \in CallsOf /\ NoCall.kind = "none"
BY DEF NoCall, CallsOf

LEMMA PageInitOK == PageInit => PageInv
BY NoCallTyped DEF PageInit, PageInv

\* A step within a call.
LEMMA WithinCall ==
  ASSUME NEW k \in CallsOf, call' = k,
         k.kind = "stream" => StreamOK(k)', k.kind # "stream" => prefetch' = unused'
  PROVE  PageInv'
BY DEF PageInv, StreamOK

LEMMA CallOK ==
  ASSUME PageInv, NEW kind \in {"stream", "get"}, NEW from \in Pages, NEW to \in Pages,
         from <= to, Call(kind, from, to)
  PROVE  PageInv'
<1>1. PICK w : w = [i \in 1..(to - from + 1) |-> from + i - 1]
  OBVIOUS
<1>2. PICK c \in SUBSET Pages : c = (from..to) \intersect Known(kind)
  <2>1. from..to \subseteq Pages
    BY PageAssumption DEF Pages
  <2> QED  BY <2>1
<1>3. w \in Seq(Pages) /\ Range(w) \subseteq from..to
  <2>1. from \in Int /\ to \in Int /\ from >= 1 /\ to - from + 1 \in Nat
    BY PageAssumption DEF Pages
  <2>2. \A i \in 1..(to - from + 1) : w[i] \in from..to /\ w[i] \in Pages
    <3> SUFFICES ASSUME NEW i \in 1..(to - from + 1)  PROVE w[i] \in from..to /\ w[i] \in Pages
      OBVIOUS
    <3>1. w[i] = from + i - 1 /\ i \in Int /\ 1 <= i /\ i <= to - from + 1
      BY <1>1, <2>1
    <3>2. to <= LastPage
      BY PageAssumption DEF Pages
    <3> QED  BY <2>1, <3>1, <3>2, PageAssumption DEF Pages
  <2>3. w \in [1..(to - from + 1) -> Pages]
    BY <1>1, <2>2
  <2>4. w \in Seq(Pages)
    BY <2>1, <2>3
  <2>5. DOMAIN w = 1..(to - from + 1)
    BY <1>1
  <2> QED  BY <2>2, <2>4, <2>5 DEF Range
<1>4. PICK b, no : b = (kind = "get") /\ no = FALSE
  OBVIOUS
<1>5. PICK k : k = [kind |-> kind, want |-> w, cached |-> c, asked |-> b, failed |-> no,
                    running |-> {}, arrived |-> {}, completed |-> {}]
  OBVIOUS
<1>6. call' = k
  <2>1. call' = [NoCall EXCEPT !.kind = kind, !.asked = b, !.want = w, !.cached = c]
    BY <1>1, <1>2, <1>4, Zenon DEF Call
  <2>2. PICK u : u = [NoCall EXCEPT !.kind = kind, !.asked = b]
    OBVIOUS
  <2>3. u = [kind |-> kind, want |-> <<>>, cached |-> {}, asked |-> b, failed |-> no,
             running |-> {}, arrived |-> {}, completed |-> {}]
    BY <1>4, <2>2 DEF NoCall
  <2>4. PICK v : v = [u EXCEPT !.want = w]
    OBVIOUS
  <2>5. v = [kind |-> kind, want |-> w, cached |-> {}, asked |-> b, failed |-> no,
             running |-> {}, arrived |-> {}, completed |-> {}]
    BY <2>3, <2>4
  <2>6. [v EXCEPT !.cached = c] = k
    <3>1. PICK o : o = [v EXCEPT !.cached = c]
      OBVIOUS
    <3>2. o = [kind |-> kind, want |-> w, cached |-> c, asked |-> b, failed |-> no,
               running |-> {}, arrived |-> {}, completed |-> {}]
      BY <2>5, <3>1
    <3> QED  BY <1>5, <3>1, <3>2, Zenon
  <2>7. [NoCall EXCEPT !.kind = kind, !.asked = b, !.want = w, !.cached = c]
          = [u EXCEPT !.want = w, !.cached = c]
    BY <2>2
  <2>8. [u EXCEPT !.want = w, !.cached = c] = [v EXCEPT !.cached = c]
    BY <2>4
  <2> QED  BY <2>1, <2>6, <2>7, <2>8
<1>7. k \in CallsOf
  BY <1>2, <1>3, <1>4, <1>5 DEF CallsOf
<1>8. UNCHANGED <<prefetch, unused>> /\ prefetch = unused
  BY DEF Call, PageInv
<1>9. ASSUME kind = "stream"  PROVE StreamOK(k)'
  <2>1. c = (from..to) \intersect (pageCache \union prefetch)
    BY <1>2, <1>9 DEF Known
  <2> QED  BY <1>3, <1>5, <1>8, <2>1 DEF StreamOK
<1> QED  BY <1>5, <1>6, <1>7, <1>8, <1>9, WithinCall

LEMMA AskRuntimeOK == PageInv /\ AskRuntime => PageInv'
<1> SUFFICES ASSUME PageInv, AskRuntime  PROVE PageInv'
  OBVIOUS
<1>1. PICK o \in CallsOf : o = call
  BY DEF PageInv
<1>2. PICK k : k = [o EXCEPT !.asked = TRUE]
  OBVIOUS
<1>3. k \in CallsOf /\ call' = k
  BY <1>1, <1>2 DEF CallsOf, AskRuntime
<1>4. /\ k.kind = o.kind /\ k.want = o.want /\ k.cached = o.cached /\ k.running = o.running
      /\ k.arrived = o.arrived /\ k.completed = o.completed
  BY <1>1, <1>2 DEF CallsOf
<1> QED  BY <1>1, <1>3, <1>4, WithinCall DEF PageInv, StreamOK, AskRuntime

LEMMA FetchOK ==
  ASSUME PageInv, NEW p \in Pages, Fetch(p)
  PROVE  PageInv'
<1>1. PICK o \in CallsOf : o = call
  BY DEF PageInv
<1>2. PICK R : R = o.running \union {p}
  OBVIOUS
<1>3. PICK k : k = [o EXCEPT !.running = R]
  OBVIOUS
<1>4. k \in CallsOf /\ call' = k /\ UNCHANGED <<prefetch, unused>>
  BY <1>1, <1>2, <1>3 DEF CallsOf, Fetch
<1>5. /\ k.kind = o.kind /\ k.want = o.want /\ k.cached = o.cached /\ k.running = R
      /\ k.arrived = o.arrived /\ k.completed = o.completed
  BY <1>1, <1>3 DEF CallsOf
<1>6. p \in Range(o.want) /\ p \notin o.cached /\ p \notin o.arrived
  BY <1>1 DEF Fetch, InWindow, Missing
<1>7. ASSUME o.kind = "stream"  PROVE StreamOK(k)'
  <2>1. StreamOK(o)
    BY <1>1, <1>7 DEF PageInv
  <2>2. p \notin prefetch
    BY <1>6, <2>1 DEF StreamOK
  <2> QED  BY <1>2, <1>4, <1>5, <1>6, <2>1, <2>2 DEF StreamOK
<1>8. o.kind # "stream" => prefetch = unused
  BY <1>1 DEF PageInv
<1> QED  BY <1>4, <1>5, <1>7, <1>8, WithinCall

LEMMA ArrivesOK ==
  ASSUME PageInv, NEW p \in Pages, Arrives(p)
  PROVE  PageInv'
<1>1. PICK o \in CallsOf : o = call
  BY DEF PageInv
<1>2. PICK R, A, C : R = o.running \ {p} /\ A = o.arrived \union {p} /\ C = o.completed \union {p}
  OBVIOUS
<1>3. p \in o.running /\ prefetch' = prefetch
  BY <1>1 DEF Arrives
<1>4. CASE /\ call' = [call EXCEPT !.running = @ \ {p}, !.arrived = @ \union {p},
                                   !.completed = @ \union {p}]
           /\ unused' = IF call.kind = "stream" THEN unused \union {p} ELSE unused
  <2>1. PICK k : k = [kind |-> o.kind, want |-> o.want, cached |-> o.cached, asked |-> o.asked,
                      failed |-> o.failed, running |-> R, arrived |-> A, completed |-> C]
    OBVIOUS
  <2>2. call' = k
    <3>1. PICK u : u = [o EXCEPT !.running = R]
      OBVIOUS
    <3>2. u = [kind |-> o.kind, want |-> o.want, cached |-> o.cached, asked |-> o.asked,
               failed |-> o.failed, running |-> R, arrived |-> o.arrived,
               completed |-> o.completed]
      BY <1>1, <3>1 DEF CallsOf
    <3>3. [u EXCEPT !.arrived = A, !.completed = C] = k
      <4>1. PICK v : v = [u EXCEPT !.arrived = A]
        OBVIOUS
      <4>2. v = [kind |-> o.kind, want |-> o.want, cached |-> o.cached, asked |-> o.asked,
                 failed |-> o.failed, running |-> R, arrived |-> A, completed |-> o.completed]
        BY <3>2, <4>1
      <4>3. [v EXCEPT !.completed = C] = k
        BY <2>1, <4>2
      <4> QED  BY <4>1, <4>3
    <3>4. call' = [u EXCEPT !.arrived = A, !.completed = C]
      BY <1>1, <1>2, <1>4, <3>1
    <3> QED  BY <3>3, <3>4
  <2>3. k \in CallsOf
    BY <1>1, <1>2, <2>1 DEF CallsOf
  <2>4. ASSUME o.kind = "stream"  PROVE StreamOK(k)'
    <3>1. StreamOK(o) /\ unused' = unused \union {p}
      BY <1>1, <1>4, <2>4 DEF PageInv
    <3> QED  BY <1>2, <1>3, <2>1, <3>1 DEF StreamOK
  <2>5. o.kind # "stream" => prefetch' = unused'
    BY <1>1, <1>3, <1>4 DEF PageInv
  <2> QED  BY <2>1, <2>2, <2>3, <2>4, <2>5, WithinCall
<1>5. CASE /\ call' = [call EXCEPT !.running = @ \ {p}, !.failed = TRUE]
           /\ UNCHANGED unused
  <2>1. PICK k : k = [[o EXCEPT !.running = R] EXCEPT !.failed = TRUE]
    OBVIOUS
  <2>2. call' = k
    BY <1>1, <1>2, <1>5, <2>1
  <2>3. PICK u \in CallsOf : u = [o EXCEPT !.running = R]
    BY <1>1, <1>2 DEF CallsOf
  <2>4. k = [u EXCEPT !.failed = TRUE]
    BY <2>1, <2>3
  <2>5. k \in CallsOf
    BY <2>3, <2>4 DEF CallsOf
  <2>6. /\ k.kind = o.kind /\ k.want = o.want /\ k.cached = o.cached /\ k.running = R
        /\ k.arrived = o.arrived /\ k.completed = o.completed
    BY <1>1, <2>3, <2>4 DEF CallsOf
  <2>7. ASSUME o.kind = "stream"  PROVE StreamOK(k)'
    <3>1. StreamOK(o)
      BY <1>1, <2>7 DEF PageInv
    <3> QED  BY <1>2, <1>3, <1>5, <2>6, <3>1 DEF StreamOK
  <2>8. o.kind # "stream" => prefetch' = unused'
    BY <1>1, <1>3, <1>5 DEF PageInv
  <2> QED  BY <2>2, <2>5, <2>6, <2>7, <2>8, WithinCall
<1> QED  BY <1>4, <1>5 DEF Arrives

LEMMA YieldOK == PageInv /\ Yield => PageInv'
<1> SUFFICES ASSUME PageInv, Yield  PROVE PageInv'
  OBVIOUS
<1>1. PICK o \in CallsOf : o = call
  BY DEF PageInv
<1>2. o.kind = "stream" /\ o.want # <<>> /\ o.want \in Seq(Pages) /\ StreamOK(o)
  BY <1>1 DEF Yield, PageInv, CallsOf
<1>3. PICK p, w : p = Head(o.want) /\ w = Tail(o.want)
  OBVIOUS
<1>4. p \in Pages /\ w \in Seq(Pages) /\ Range(w) \subseteq Range(o.want)
  <2>1. /\ w \in Seq(Pages) /\ Len(o.want) \in Nat /\ Len(w) = Len(o.want) - 1
        /\ \A i \in 1..Len(w) : w[i] = o.want[i + 1] /\ i + 1 \in 1..Len(o.want)
    BY <1>2, <1>3
  <2>2. DOMAIN w = 1..Len(w) /\ DOMAIN o.want = 1..Len(o.want)
    BY <1>2, <2>1
  <2>3. p \in Pages
    BY <1>2, <1>3
  <2> QED  BY <2>1, <2>2, <2>3 DEF Range
<1>5. PICK A, C : A = o.arrived \ {p} /\ C = o.completed \ {p}
  OBVIOUS
<1>6. PICK k : k = [kind |-> o.kind, want |-> w, cached |-> o.cached, asked |-> o.asked,
                    failed |-> o.failed, running |-> o.running, arrived |-> A, completed |-> C]
  OBVIOUS
<1>7. call' = k
  <2>1. PICK u : u = [o EXCEPT !.want = w]
    OBVIOUS
  <2>2. u = [kind |-> o.kind, want |-> w, cached |-> o.cached, asked |-> o.asked,
             failed |-> o.failed, running |-> o.running, arrived |-> o.arrived,
             completed |-> o.completed]
    BY <1>1, <2>1 DEF CallsOf
  <2>3. [u EXCEPT !.arrived = A, !.completed = C] = k
    <3>1. PICK v : v = [u EXCEPT !.arrived = A]
      OBVIOUS
    <3>2. v = [kind |-> o.kind, want |-> w, cached |-> o.cached, asked |-> o.asked,
               failed |-> o.failed, running |-> o.running, arrived |-> A,
               completed |-> o.completed]
      BY <2>2, <3>1
    <3>3. [v EXCEPT !.completed = C] = k
      BY <1>6, <3>2
    <3> QED  BY <3>1, <3>3
  <2>4. call' = [u EXCEPT !.arrived = A, !.completed = C]
    BY <1>1, <1>3, <1>5, <2>1 DEF Yield
  <2> QED  BY <2>3, <2>4
<1>8. k \in CallsOf
  BY <1>1, <1>4, <1>5, <1>6 DEF CallsOf
<1>9. /\ unused' = unused \ {p}
      /\ \/ p \in o.cached /\ prefetch' = prefetch \ {p}
         \/ p \in o.arrived /\ prefetch' = prefetch
  BY <1>1, <1>3 DEF Yield
<1>10. StreamOK(k)'
  BY <1>2, <1>4, <1>5, <1>6, <1>9 DEF StreamOK
<1>11. k.kind = "stream"
  BY <1>2, <1>6
<1> QED  BY <1>7, <1>8, <1>10, <1>11, WithinCall

LEMMA PageStepOK == PageInv /\ [PageNext]_pageVars => PageInv'
<1> SUFFICES ASSUME PageInv, [PageNext]_pageVars  PROVE PageInv'
  OBVIOUS
<1>1. ASSUME NEW kind \in {"stream", "get"}, NEW from \in Pages, NEW to \in Pages,
             from <= to, Call(kind, from, to)
      PROVE  PageInv'
  BY <1>1, CallOK
<1>2. ASSUME NEW p \in Pages, Fetch(p) \/ Arrives(p)  PROVE PageInv'
  BY <1>2, FetchOK, ArrivesOK
<1>3. CASE EndStream
  BY <1>3, NoCallTyped, WithinCall DEF EndStream, PageInv, StreamOK, Left
<1>4. CASE EndGet
  <2>1. call.kind # "stream" /\ call' = NoCall /\ UNCHANGED <<prefetch, unused>>
    BY <1>4 DEF EndGet
  <2> QED  BY <2>1, NoCallTyped, WithinCall DEF PageInv
<1>5. CASE ClearCache
  BY <1>5 DEF ClearCache, PageInv
<1>6. CASE UNCHANGED pageVars
  BY <1>6 DEF pageVars, PageInv, StreamOK
<1> QED  BY <1>1, <1>2, <1>3, <1>4, <1>5, <1>6, AskRuntimeOK, YieldOK DEF PageNext

\* A page fetched ahead is kept exactly until it is handed out, and not fetched
\* again, for any pages, calls and window.  (NGAClient.iter_pages, client.py.)
THEOREM PrefetchStaysExact == PageSpec => []PrefetchIsExact
<1>1. PageInv => PrefetchIsExact
  BY DEF PageInv, StreamOK, PrefetchIsExact
<1> QED  BY <1>1, PageInitOK, PageStepOK, PTL DEF PageSpec

-----------------------------------------------------------------------------
(* The caches of the viewer.                                               *)

Prints == [Files -> Nat \union {-1}]
Progress == [at : {"idle", "print", "build", "reprint", "served"}, refresh : BOOLEAN,
             start : Prints, print : Prints, item : Prints, torn : BOOLEAN]

ViewerTypes ==
  /\ version \in [Files -> Nat] /\ request \in [Requests -> Progress]
  /\ cached \in [print : Prints, item : Prints, torn : BOOLEAN]

\* What is kept has the fingerprint of its own reading, if no file was written
\* meanwhile.
KeptOK ==
  ~cached.torn =>
    cached.item = Nothing \/ \A f \in Seen : cached.item[f] = cached.print[f]

\* A request knows nothing older than itself, and nothing but the present as
\* long as no file is written.
MakingOK(q, f) ==
  /\ q.start[f] <= version[f]
  /\ q.print[f] # -1 => q.start[f] <= q.print[f]
  /\ q.item[f] # -1 => q.start[f] <= q.item[f]
  /\ ~q.torn => /\ q.start[f] = version[f]
                /\ q.print[f] \in {-1, version[f]} /\ q.item[f] \in {-1, version[f]}
  /\ q.at = "reprint" => q.item[f] # -1

RequestOK(q) ==
  /\ q.at \in {"print", "build", "reprint"} => \A f \in Files : MakingOK(q, f)
  /\ q.at = "served" =>
       \A f \in Files : (f \in Seen /\ ~q.torn) \/ q.refresh => q.item[f] >= q.start[f]

ViewerInv == ViewerTypes /\ KeptOK /\ \A r \in Requests : RequestOK(request[r])

LEMMA NothingIsPrint == Nothing \in Prints /\ \A f \in Files : Nothing[f] = -1
BY DEF Nothing, Prints

LEMMA IdleIsProgress == Idle \in Progress /\ RequestOK(Idle)
BY NothingIsPrint DEF Idle, Progress, RequestOK

LEMMA ViewerInitOK == ViewerInit => ViewerInv
<1> SUFFICES ASSUME ViewerInit  PROVE ViewerInv
  OBVIOUS
<1>1. ViewerTypes
  BY IdleIsProgress, NothingIsPrint DEF ViewerInit, ViewerTypes
<1>2. KeptOK
  BY DEF ViewerInit, KeptOK
<1>3. ASSUME NEW r \in Requests  PROVE RequestOK(request[r])
  <2>1. request[r] = Idle
    BY DEF ViewerInit
  <2> QED  BY <2>1, IdleIsProgress
<1> QED  BY <1>1, <1>2, <1>3 DEF ViewerInv

\* A step of one request.
LEMMA OneRequest ==
  ASSUME ViewerInv, NEW r \in Requests, NEW q \in Progress, request' = [request EXCEPT ![r] = q],
         version' = version, cached' \in [print : Prints, item : Prints, torn : BOOLEAN],
         KeptOK', RequestOK(q)
  PROVE  ViewerInv'
<1>1. ViewerTypes'
  BY DEF ViewerInv, ViewerTypes
<1>2. ASSUME NEW s \in Requests  PROVE RequestOK(request[s])'
  <2>1. request'[s] = IF s = r THEN q ELSE request[s]
    BY DEF ViewerInv, ViewerTypes
  <2>2. RequestOK(request[s])
    BY DEF ViewerInv
  <2>3. RequestOK(request'[s])
    BY <2>1, <2>2
  <2> QED  BY <2>3 DEF RequestOK, MakingOK
<1> QED  BY <1>1, <1>2 DEF ViewerInv

LEMMA AskOK ==
  ASSUME ViewerInv, NEW r \in Requests, NEW refresh \in BOOLEAN, Ask(r, refresh)
  PROVE  ViewerInv'
<1>1. PICK i : i = [f \in Files |-> IF f \in Early THEN version[f] ELSE -1]
  OBVIOUS
<1>2. PICK s : s = version
  OBVIOUS
<1>3. i \in Prints /\ s \in Prints
  BY <1>1, <1>2 DEF ViewerInv, ViewerTypes, Prints
<1>b. PICK b, n : b = refresh /\ n = FALSE
  OBVIOUS
<1>4. PICK q : q = [at |-> "print", refresh |-> b, start |-> s, print |-> Nothing,
                    item |-> i, torn |-> n]
  OBVIOUS
<1>5. request' = [request EXCEPT ![r] = q] /\ UNCHANGED <<version, cached>>
  <2>1. request' = [request EXCEPT ![r] = [Idle EXCEPT !.at = "print", !.refresh = b,
                                                       !.start = s, !.item = i]]
    BY <1>1, <1>2, <1>b, Zenon DEF Ask, Advance
  <2>2. PICK u : u = [Idle EXCEPT !.at = "print", !.refresh = b]
    OBVIOUS
  <2>3. u = [at |-> "print", refresh |-> b, start |-> Nothing, print |-> Nothing,
             item |-> Nothing, torn |-> n]
    BY <1>b, <2>2 DEF Idle
  <2>4. [Idle EXCEPT !.at = "print", !.refresh = b, !.start = s, !.item = i]
          = [u EXCEPT !.start = s, !.item = i]
    BY <2>2
  <2>5. PICK v : v = [u EXCEPT !.start = s]
    OBVIOUS
  <2>6. v = [at |-> "print", refresh |-> b, start |-> s, print |-> Nothing,
             item |-> Nothing, torn |-> n]
    BY <2>3, <2>5
  <2>7. [u EXCEPT !.start = s, !.item = i] = [v EXCEPT !.item = i]
    BY <2>5
  <2>8. [v EXCEPT !.item = i] = q
    BY <1>4, <2>6
  <2> QED  BY <2>1, <2>4, <2>7, <2>8 DEF Ask
<1>6. q \in Progress
  BY <1>3, <1>b, <1>4, NothingIsPrint DEF Progress
<1>7. RequestOK(q)
  <2>1. ASSUME NEW f \in Files  PROVE MakingOK(q, f)
    BY <1>1, <1>2, <1>b, <1>4, NothingIsPrint DEF MakingOK, ViewerInv, ViewerTypes
  <2> QED  BY <1>4, <2>1 DEF RequestOK
<1>8. cached' \in [print : Prints, item : Prints, torn : BOOLEAN] /\ KeptOK'
  BY <1>5 DEF ViewerInv, ViewerTypes, KeptOK
<1> QED  BY <1>5, <1>6, <1>7, <1>8, OneRequest

\* A file is read, for the fingerprint or for the item.
LEMMA FingerprintOK ==
  ASSUME ViewerInv, NEW r \in Requests, Fingerprint(r)
  PROVE  ViewerInv'
<1>1. PICK f \in Seen : /\ request[r].print[f] = -1
                         /\ request' = [request EXCEPT ![r] = [request[r] EXCEPT !.print[f] = version[f]]]
  BY DEF Fingerprint, Advance
<1>f. f \in Files
  BY DEF Seen
<1>2. PICK o \in Progress : o = request[r]
  BY DEF ViewerInv, ViewerTypes
<1>3. PICK n \in Nat : n = version[f]
  BY <1>f DEF ViewerInv, ViewerTypes
<1>4. PICK q : q = [o EXCEPT !.print[f] = n]
  OBVIOUS
<1>5. /\ q = [at |-> o.at, refresh |-> o.refresh, start |-> o.start,
              print |-> [o.print EXCEPT ![f] = n], item |-> o.item, torn |-> o.torn]
      /\ [o.print EXCEPT ![f] = n] \in Prints
  BY <1>2, <1>3, <1>4 DEF Progress, Prints
<1>6. q \in Progress
  BY <1>2, <1>5 DEF Progress
<1>7. RequestOK(q)
  <2>1. o.at \in {"print", "reprint"} /\ RequestOK(o)
    BY <1>2 DEF Fingerprint, ViewerInv
  <2>2. ASSUME NEW g \in Files  PROVE MakingOK(q, g)
    <3>1. MakingOK(o, g) /\ version[g] \in Nat
      BY <2>1 DEF RequestOK, ViewerInv, ViewerTypes
    <3>2. q.print[g] = IF g = f THEN version[g] ELSE o.print[g]
      BY <1>2, <1>3, <1>5 DEF Progress, Prints
    <3>3. q.start[g] = o.start[g] /\ q.item[g] = o.item[g] /\ q.torn = o.torn /\ q.at = o.at
      BY <1>5
    <3> QED  BY <3>1, <3>2, <3>3 DEF MakingOK
  <2>3. q.at = o.at
    BY <1>5
  <2> QED  BY <2>1, <2>2, <2>3 DEF RequestOK
<1>8. UNCHANGED <<version, cached>> /\ request' = [request EXCEPT ![r] = q]
  BY <1>1, <1>2, <1>3, <1>4 DEF Fingerprint
<1>9. cached' \in [print : Prints, item : Prints, torn : BOOLEAN] /\ KeptOK'
  BY <1>8 DEF ViewerInv, ViewerTypes, KeptOK
<1> QED  BY <1>6, <1>7, <1>8, <1>9, OneRequest

LEMMA ReadFileOK ==
  ASSUME ViewerInv, NEW r \in Requests, Read(r)
  PROVE  ViewerInv'
<1>1. PICK f \in Files : /\ request[r].item[f] = -1
                         /\ request' = [request EXCEPT ![r] = [request[r] EXCEPT !.item[f] = version[f]]]
  BY DEF Read, Advance
<1>2. PICK o \in Progress : o = request[r]
  BY DEF ViewerInv, ViewerTypes
<1>3. PICK n \in Nat : n = version[f]
  BY DEF ViewerInv, ViewerTypes
<1>4. PICK q : q = [o EXCEPT !.item[f] = n]
  OBVIOUS
<1>5. /\ q = [at |-> o.at, refresh |-> o.refresh, start |-> o.start, print |-> o.print,
              item |-> [o.item EXCEPT ![f] = n], torn |-> o.torn]
      /\ [o.item EXCEPT ![f] = n] \in Prints
  BY <1>2, <1>3, <1>4 DEF Progress, Prints
<1>6. q \in Progress
  BY <1>2, <1>5 DEF Progress
<1>7. RequestOK(q)
  <2>1. o.at = "build" /\ RequestOK(o)
    BY <1>2 DEF Read, ViewerInv
  <2>2. ASSUME NEW g \in Files  PROVE MakingOK(q, g)
    <3>1. MakingOK(o, g) /\ version[g] \in Nat
      BY <2>1 DEF RequestOK, ViewerInv, ViewerTypes
    <3>2. q.item[g] = IF g = f THEN version[g] ELSE o.item[g]
      BY <1>2, <1>3, <1>5 DEF Progress, Prints
    <3>3. q.start[g] = o.start[g] /\ q.print[g] = o.print[g] /\ q.torn = o.torn /\ q.at = o.at
      BY <1>5
    <3> QED  BY <2>1, <3>1, <3>2, <3>3 DEF MakingOK
  <2>3. q.at = o.at
    BY <1>5
  <2> QED  BY <2>1, <2>2, <2>3 DEF RequestOK
<1>8. UNCHANGED <<version, cached>> /\ request' = [request EXCEPT ![r] = q]
  BY <1>1, <1>2, <1>3, <1>4 DEF Read
<1>9. cached' \in [print : Prints, item : Prints, torn : BOOLEAN] /\ KeptOK'
  BY <1>8 DEF ViewerInv, ViewerTypes, KeptOK
<1> QED  BY <1>6, <1>7, <1>8, <1>9, OneRequest

\* What is kept is as new as the fingerprint of the request.
LEMMA EnterOK ==
  ASSUME ViewerInv, NEW r \in Requests, Enter(r)
  PROVE  ViewerInv'
<1>1. PICK o \in Progress : o = request[r]
  BY DEF ViewerInv, ViewerTypes
<1>2. /\ o.at = "print" /\ (\A f \in Seen : o.print[f] # -1) /\ RequestOK(o)
      /\ UNCHANGED <<version, cached>>
  BY <1>1 DEF Enter, Printed, ViewerInv
<1>3. cached' \in [print : Prints, item : Prints, torn : BOOLEAN] /\ KeptOK'
  BY <1>2 DEF ViewerInv, ViewerTypes, KeptOK
<1>4. CASE IsHit(r)
  <2>1. PICK i \in Prints : i = cached.item
    BY DEF ViewerInv, ViewerTypes
  <2>2. PICK t \in BOOLEAN : t = cached.torn
    BY DEF ViewerInv, ViewerTypes
  <2>3. PICK q : q = [at |-> "served", refresh |-> o.refresh, start |-> o.start,
                      print |-> o.print, item |-> i, torn |-> t]
    OBVIOUS
  <2>4. request' = [request EXCEPT ![r] = q]
    <3>1. request' = [request EXCEPT ![r] = [o EXCEPT !.at = "served", !.item = i, !.torn = t]]
      BY <1>1, <1>4, <2>1, <2>2 DEF Enter, Advance
    <3>2. PICK u : u = [o EXCEPT !.at = "served"]
      OBVIOUS
    <3>3. u = [at |-> "served", refresh |-> o.refresh, start |-> o.start,
               print |-> o.print, item |-> o.item, torn |-> o.torn]
      BY <1>1, <3>2 DEF Progress
    <3>4. [o EXCEPT !.at = "served", !.item = i, !.torn = t] = [u EXCEPT !.item = i, !.torn = t]
      BY <3>2
    <3>5. PICK v : v = [u EXCEPT !.item = i]
      OBVIOUS
    <3>6. v = [at |-> "served", refresh |-> o.refresh, start |-> o.start,
               print |-> o.print, item |-> i, torn |-> o.torn]
      BY <3>3, <3>5
    <3>7. [u EXCEPT !.item = i, !.torn = t] = [v EXCEPT !.torn = t]
      BY <3>5
    <3>8. [v EXCEPT !.torn = t] = q
      BY <2>3, <3>6
    <3> QED  BY <3>1, <3>4, <3>7, <3>8
  <2>5. q \in Progress
    BY <1>1, <2>1, <2>2, <2>3 DEF Progress
  <2>6. RequestOK(q)
    <3>1. ~q.refresh
      BY <1>1, <1>4, <2>3 DEF IsHit
    <3> SUFFICES ASSUME ~q.torn, NEW f \in Seen  PROVE q.item[f] >= q.start[f]
      BY <2>3, <3>1 DEF RequestOK
    <3>2. f \in Files
      BY DEF Seen
    <3>3. cached.item[f] = o.print[f]
      BY <1>1, <1>4, <2>2, <2>3 DEF IsHit, ViewerInv, KeptOK
    <3>4. o.start[f] <= o.print[f] /\ o.start[f] \in Int /\ o.print[f] \in Int
      BY <1>1, <1>2, <3>2 DEF RequestOK, MakingOK, Progress, Prints
    <3> QED  BY <2>1, <2>3, <3>3, <3>4
  <2> QED  BY <1>2, <1>3, <2>4, <2>5, <2>6, OneRequest
<1>5. CASE ~IsHit(r)
  <2>1. PICK q : q = [at |-> "build", refresh |-> o.refresh, start |-> o.start,
                      print |-> o.print, item |-> o.item, torn |-> o.torn]
    OBVIOUS
  <2>2. request' = [request EXCEPT ![r] = q]
    <3>1. request' = [request EXCEPT ![r] = [o EXCEPT !.at = "build"]]
      BY <1>1, <1>5 DEF Enter, Advance
    <3>2. [o EXCEPT !.at = "build"] = q
      BY <1>1, <2>1 DEF Progress
    <3> QED  BY <3>1, <3>2
  <2>3. q \in Progress
    BY <1>1, <2>1 DEF Progress
  <2>4. RequestOK(q)
    BY <1>2, <2>1 DEF RequestOK, MakingOK
  <2> QED  BY <1>2, <1>3, <2>2, <2>3, <2>4, OneRequest
<1> QED  BY <1>4, <1>5

LEMMA BuiltOK ==
  ASSUME ViewerInv, NEW r \in Requests, Built(r)
  PROVE  ViewerInv'
<1>1. PICK o \in Progress : o = request[r]
  BY DEF ViewerInv, ViewerTypes
<1>2. /\ o.at = "build" /\ (\A f \in Files : o.item[f] # -1) /\ RequestOK(o)
      /\ UNCHANGED <<version, cached>>
  BY <1>1 DEF Built, ViewerInv
<1>3. PICK q : q = [at |-> "reprint", refresh |-> o.refresh, start |-> o.start,
                    print |-> Nothing, item |-> o.item, torn |-> o.torn]
  OBVIOUS
<1>4. request' = [request EXCEPT ![r] = q]
  <2>1. request' = [request EXCEPT ![r] = [o EXCEPT !.at = "reprint", !.print = Nothing]]
    BY <1>1 DEF Built, Advance
  <2>2. PICK u : u = [o EXCEPT !.at = "reprint"]
    OBVIOUS
  <2>3. u = [at |-> "reprint", refresh |-> o.refresh, start |-> o.start,
             print |-> o.print, item |-> o.item, torn |-> o.torn]
    BY <1>1, <2>2 DEF Progress
  <2>4. [o EXCEPT !.at = "reprint", !.print = Nothing] = [u EXCEPT !.print = Nothing]
    BY <2>2
  <2>5. [u EXCEPT !.print = Nothing] = q
    BY <1>3, <2>3
  <2> QED  BY <2>1, <2>4, <2>5
<1>5. q \in Progress
  BY <1>1, <1>3, NothingIsPrint DEF Progress
<1>6. RequestOK(q)
  BY <1>2, <1>3, NothingIsPrint DEF RequestOK, MakingOK
<1>7. cached' \in [print : Prints, item : Prints, torn : BOOLEAN] /\ KeptOK'
  BY <1>2 DEF ViewerInv, ViewerTypes, KeptOK
<1> QED  BY <1>2, <1>4, <1>5, <1>6, <1>7, OneRequest

LEMMA KeepOK ==
  ASSUME ViewerInv, NEW r \in Requests, Keep(r)
  PROVE  ViewerInv'
<1>1. PICK o \in Progress : o = request[r]
  BY DEF ViewerInv, ViewerTypes
<1>2. /\ o.at = "reprint" /\ (\A f \in Seen : o.print[f] # -1) /\ RequestOK(o)
      /\ version' = version /\ cached' = [print |-> o.print, item |-> o.item, torn |-> o.torn]
  BY <1>1 DEF Keep, Printed, ViewerInv
<1>3. \A f \in Files : MakingOK(o, f)
  BY <1>2 DEF RequestOK
<1>4. PICK q : q = [at |-> "served", refresh |-> o.refresh, start |-> o.start,
                    print |-> o.print, item |-> o.item, torn |-> o.torn]
  OBVIOUS
<1>5. request' = [request EXCEPT ![r] = q]
  <2>1. request' = [request EXCEPT ![r] = [o EXCEPT !.at = "served"]]
    BY <1>1 DEF Keep, Advance
  <2>2. [o EXCEPT !.at = "served"] = q
    BY <1>1, <1>4 DEF Progress
  <2> QED  BY <2>1, <2>2
<1>6. q \in Progress
  BY <1>1, <1>4 DEF Progress
<1>7. RequestOK(q)
  <2> SUFFICES ASSUME NEW f \in Files  PROVE o.item[f] >= o.start[f]
    BY <1>4 DEF RequestOK
  <2>1. o.start[f] <= o.item[f]
    BY <1>2, <1>3 DEF MakingOK
  <2>2. o.item[f] \in Int /\ o.start[f] \in Int
    BY <1>1 DEF Progress, Prints
  <2> QED  BY <2>1, <2>2
<1>8. KeptOK'
  <2> SUFFICES ASSUME ~o.torn, NEW f \in Seen  PROVE o.item[f] = o.print[f]
    BY <1>2 DEF KeptOK
  <2>1. f \in Files
    BY DEF Seen
  <2> QED  BY <1>2, <1>3, <2>1 DEF MakingOK
<1>9. cached' \in [print : Prints, item : Prints, torn : BOOLEAN]
  BY <1>1, <1>2 DEF Progress
<1> QED  BY <1>2, <1>5, <1>6, <1>7, <1>8, <1>9, OneRequest

LEMMA AnswerOK ==
  ASSUME ViewerInv, NEW r \in Requests, Answer(r)
  PROVE  ViewerInv'
<1>1. UNCHANGED <<version, cached>> /\ request' = [request EXCEPT ![r] = Idle]
  BY DEF Answer, Advance
<1>2. cached' \in [print : Prints, item : Prints, torn : BOOLEAN] /\ KeptOK'
  BY <1>1 DEF ViewerInv, ViewerTypes, KeptOK
<1> QED  BY <1>1, <1>2, IdleIsProgress, OneRequest

\* A write makes torn what is under way.
LEMMA WriteFileOK ==
  ASSUME ViewerInv, NEW f \in Files, WriteFile(f)
  PROVE  ViewerInv'
<1>1. /\ version' \in [Files -> Nat] /\ cached' = cached
      /\ \A g \in Files : version[g] <= version'[g]
  BY DEF WriteFile, ViewerInv, ViewerTypes
<1>2. ASSUME NEW r \in Requests
      PROVE  request'[r] \in Progress /\ RequestOK(request[r])'
  <2>1. PICK o \in Progress : o = request[r]
    BY DEF ViewerInv, ViewerTypes
  <2>2. PICK t \in BOOLEAN : t = (o.torn \/ o.at \notin {"idle", "served"})
    OBVIOUS
  <2>3. PICK q : q = [at |-> o.at, refresh |-> o.refresh, start |-> o.start,
                      print |-> o.print, item |-> o.item, torn |-> t]
    OBVIOUS
  <2>4. request'[r] = q
    <3>1. request'[r] = [o EXCEPT !.torn = o.torn \/ o.at \notin {"idle", "served"}]
      BY <2>1 DEF WriteFile
    <3>2. [o EXCEPT !.torn = o.torn \/ o.at \notin {"idle", "served"}] = q
      BY <2>1, <2>2, <2>3 DEF Progress
    <3> QED  BY <3>1, <3>2
  <2>5. q \in Progress
    BY <2>1, <2>2, <2>3 DEF Progress
  <2>6. RequestOK(o)
    BY <2>1 DEF ViewerInv
  <2>7. RequestOK(q)'
    <3>1. ASSUME q.at \in {"print", "build", "reprint"}, NEW g \in Files  PROVE MakingOK(q, g)'
      <4>1. t = TRUE
        BY <2>2, <2>3, <3>1
      <4>2. MakingOK(o, g) /\ version[g] \in Nat /\ version'[g] \in Nat /\ o.start[g] \in Int
        BY <1>1, <2>1, <2>3, <2>6, <3>1 DEF RequestOK, ViewerInv, ViewerTypes, Progress, Prints
      <4> QED  BY <1>1, <2>3, <4>1, <4>2 DEF MakingOK
    <3>2. ASSUME q.at = "served", NEW g \in Files, (g \in Seen /\ ~q.torn) \/ q.refresh
          PROVE  q.item[g] >= q.start[g]
      BY <2>2, <2>3, <2>6, <3>2 DEF RequestOK
    <3> QED  BY <3>1, <3>2 DEF RequestOK
  <2>8. RequestOK(request[r])'
    BY <2>4, <2>7 DEF RequestOK, MakingOK
  <2> QED  BY <2>4, <2>5, <2>8
<1>3. request' \in [Requests -> Progress]
  BY <1>2 DEF WriteFile
<1>4. ViewerTypes' /\ KeptOK'
  BY <1>1, <1>3 DEF ViewerInv, ViewerTypes, KeptOK
<1> QED  BY <1>2, <1>4 DEF ViewerInv

LEMMA ViewerStepOK == ViewerInv /\ [ViewerNext]_viewerVars => ViewerInv'
<1> SUFFICES ASSUME ViewerInv, [ViewerNext]_viewerVars  PROVE ViewerInv'
  OBVIOUS
<1>1. ASSUME NEW r \in Requests, NEW refresh \in BOOLEAN, Ask(r, refresh)  PROVE ViewerInv'
  BY <1>1, AskOK
<1>2. ASSUME NEW r \in Requests,
             Fingerprint(r) \/ Enter(r) \/ Read(r) \/ Built(r) \/ Keep(r) \/ Answer(r)
      PROVE  ViewerInv'
  BY <1>2, FingerprintOK, EnterOK, ReadFileOK, BuiltOK, KeepOK, AnswerOK
<1>3. ASSUME NEW f \in Files, WriteFile(f)  PROVE ViewerInv'
  BY <1>3, WriteFileOK
<1>4. CASE UNCHANGED viewerVars
  BY <1>4 DEF viewerVars, ViewerInv, ViewerTypes, KeptOK, RequestOK, MakingOK
<1> QED  BY <1>1, <1>2, <1>3, <1>4 DEF ViewerNext

\* The viewer never serves an item older than the request: in the fingerprinted files,
\* unless a file was written while the item was made; in all files, to a request for a
\* refresh.  For any files, fingerprinted or not, requests and writes.
\* (ThreadSummaryCache.read and its like, server_state.py.)
THEOREM ServedStaysCurrent == ViewerSpec => []ServedIsCurrent
<1>1. ViewerInv => ServedIsCurrent
  BY DEF ViewerInv, RequestOK, ServedIsCurrent
<1> QED  BY <1>1, ViewerInitOK, ViewerStepOK, PTL DEF ViewerSpec

-----------------------------------------------------------------------------
(* The PDFs of a thread.                                                   *)

\* A thread has the texts of its floors up to the last.
IsText(t, n) == \A l \in Floors : l < n <=> t[l] # None

PdfTypes ==
  /\ text \in [Floors -> Texts \union {None}] /\ \E n \in 0..MaxFloors : IsText(text, n)
  /\ manifest \in [Names -> Shown \union {None}] /\ html \in [Names -> Shown \union {None}]
  /\ pdf \in [Names -> Shown \union {None, Damaged, Cut}]
  /\ run # None => run \in Runs
  /\ pdfFaults \in Nat

\* The parts of a command.
Planned(r) == {p \in Names : r.hashes[p] # None}

\* A part of a command: its files, and why it is not to be rendered any more.
PartOK(r, p) ==
  /\ html[p] = r.hashes[p]
  /\ \A l \in Floors : r.read[l] # None /\ Holds(p, l) => r.hashes[p][l] = r.read[l]
  /\ p \in r.done => pdf[p] = r.hashes[p]
  /\ ~r.failed /\ p \notin r.todo /\ p \notin r.done => manifest[p] = r.hashes[p] /\ Usable(p)

PdfRunOK(r) ==
  /\ r.todo \subseteq Planned(r) /\ r.done \subseteq Planned(r)
  /\ \A l \in Floors : r.read[l] # None =>
       \E p \in Planned(r) : {q \in Planned(r) : Holds(q, l)} = {p}
  /\ \A p \in Names : IF p \in Planned(r) THEN PartOK(r, p) ELSE pdf[p] = None

\* What the manifest says of a usable PDF is true, unless a run without success, or
\* the running one, has replaced it, or it was cut behind its beginning.
SaidOK(p) ==
  Usable(p) /\ manifest[p] # None =>
    p \in unrecorded \/ (run # None /\ p \in run.done) \/ pdf[p] \in {manifest[p], Cut}

PdfInv ==
  /\ PdfTypes
  /\ run # None => PdfRunOK(run)
  /\ \A p \in Names : SaidOK(p)

-----------------------------------------------------------------------------
(* The parts.                                                              *)

LEMMA LessByFactor ==
  ASSUME NEW a \in Int, NEW b \in Int, NEW s \in Nat, s > 0, a * s < b * s
  PROVE  a < b
<1> SUFFICES ASSUME b <= a  PROVE FALSE
  OBVIOUS
<1>1. (a - b) * s >= 0
  OBVIOUS
<1>2. (a - b) * s = a * s - b * s
  OBVIOUS
<1> QED  BY <1>1, <1>2

LEMMA Divides ==
  ASSUME NEW n \in Nat, NEW s \in Nat, s > 0
  PROVE  n \div s \in Nat /\ (n \div s) * s <= n /\ n < (n \div s + 1) * s
OBVIOUS

LEMMA NumFloorsIs ==
  ASSUME PdfTypes
  PROVE  NumFloors \in 0..MaxFloors /\ IsText(text, NumFloors)
BY DEF PdfTypes, NumFloors, IsText

\* The parts hold each floor once.
LEMMA PartsCover ==
  ASSUME PdfTypes, NEW size \in Sizes
  PROVE  /\ Parts(size) \subseteq Names
         /\ \A l \in 0..(NumFloors - 1) :
              \E p \in Parts(size) : {q \in Parts(size) : Holds(q, l)} = {p}
<1>1. PICK N \in 0..MaxFloors : N = NumFloors
  BY NumFloorsIs
<1>2. size \in Nat /\ size > 0 /\ MaxFloors \in Nat /\ N \in Nat /\ N <= MaxFloors
  BY <1>1, PdfAssumption
<1> DEFINE start(i) == (i - 1) * size
           end(i) == IF i * size - 1 < N THEN i * size - 1 ELSE N
           index == {i \in 1..(N \div size + 1) : \A k \in 1..i : start(k) <= end(k)}
<1>3. PICK I : I = index
  OBVIOUS
<1>4. Parts(size) = {<<start(i), end(i)>> : i \in I}
  BY <1>1, <1>3 DEF Parts
<1>5. PICK D \in Nat : D = N \div size /\ N < (D + 1) * size
  BY <1>2, Divides
<1>6. ASSUME NEW i \in Nat, i > 0
      PROVE  /\ start(i) \in Nat /\ end(i) \in Int /\ i * size \in Nat
             /\ start(i) + size = i * size /\ end(i) <= N
             /\ end(i) < i * size /\ (end(i) = i * size - 1 \/ end(i) = N)
  <2>1. i * size \in Nat /\ (i - 1) * size \in Nat /\ (i - 1) * size + size = i * size
    BY <1>2, <1>6
  <2> QED  BY <1>2, <2>1
<1>7. \A i \in I : i \in Nat /\ i > 0 /\ i <= D + 1 /\ start(i) <= end(i)
  BY <1>3, <1>5
<1>8. Parts(size) \subseteq Names
  <2> SUFFICES ASSUME NEW i \in I  PROVE <<start(i), end(i)>> \in Names
    BY <1>4
  <2>1. start(i) \in Nat /\ end(i) \in Int /\ start(i) <= end(i) /\ end(i) <= N
    BY <1>6, <1>7
  <2> HIDE DEF start, end
  <2> QED  BY <1>2, <2>1 DEF Names
<1>9. ASSUME NEW l \in 0..(N - 1)
      PROVE  \E p \in Parts(size) : {q \in Parts(size) : Holds(q, l)} = {p}
  <2>1. PICK q \in Nat : q = l \div size /\ q * size <= l /\ l < (q + 1) * size
    BY <1>2, Divides
  <2>2. PICK i \in Nat : i = q + 1 /\ i > 0
    BY <2>1
  <2>3. start(i) <= l /\ l < i * size /\ l < N /\ l \in Nat /\ start(i) = q * size
    BY <1>2, <2>1, <2>2
  <2>4. i <= D + 1
    <3>1. q * size < (D + 1) * size
      BY <1>2, <1>5, <2>1, <2>3
    <3> QED  BY <1>2, <1>5, <2>1, <2>2, <3>1, LessByFactor
  <2>5. ASSUME NEW k \in 1..i  PROVE start(k) <= end(k)
    <3>1. k \in Nat /\ k > 0 /\ k <= i
      BY <2>2
    <3>2. start(k) <= start(i)
      <4>1. (i - k) * size >= 0
        BY <1>2, <2>2, <3>1
      <4>2. start(i) - start(k) = (i - k) * size
        BY <1>2, <2>2, <3>1
      <4> QED  BY <1>6, <2>2, <3>1, <4>1, <4>2
    <3>3. start(k) < N
      BY <1>6, <2>2, <2>3, <3>1, <3>2
    <3>4. /\ end(k) = k * size - 1 \/ end(k) = N
          /\ start(k) \in Nat /\ start(k) + size = k * size /\ k * size \in Nat
      BY <1>6, <3>1
    <3> HIDE DEF start, end
    <3>5. PICK a, b, c : a = start(k) /\ b = end(k) /\ c = k * size
      OBVIOUS
    <3>6. (b = c - 1 \/ b = N) /\ a \in Nat /\ a + size = c /\ c \in Nat /\ a < N
      BY <3>3, <3>4, <3>5
    <3>7. a <= b
      BY <1>2, <3>6
    <3> QED  BY <3>5, <3>7
  <2>6. i \in I
    BY <1>3, <1>5, <2>2, <2>4, <2>5
  <2>7. ASSUME NEW j \in I, start(j) <= l, l <= end(j)  PROVE j = i
    <3>1. j \in Nat /\ j > 0 /\ l < j * size
      BY <1>6, <1>7, <2>3, <2>7
    <3>2. (j - 1) * size < i * size /\ (i - 1) * size < j * size
      BY <1>2, <1>6, <2>2, <2>3, <2>7, <3>1
    <3>3. j - 1 < i /\ i - 1 < j
      BY <1>2, <2>2, <3>1, <3>2, LessByFactor
    <3> QED  BY <2>2, <3>1, <3>3
  <2>8. start(i) <= l /\ l <= end(i)
    BY <1>6, <2>2, <2>3
  <2> HIDE DEF start, end
  <2>9. PICK p : p = <<start(i), end(i)>>
    OBVIOUS
  <2>10. p \in Parts(size) /\ Holds(p, l)
    BY <1>4, <2>6, <2>8, <2>9 DEF Holds
  <2>11. ASSUME NEW o \in Parts(size), Holds(o, l)  PROVE o = p
    <3>1. PICK j \in I : o = <<start(j), end(j)>>
      BY <1>4
    <3>2. start(j) <= l /\ l <= end(j)
      BY <2>11, <3>1 DEF Holds
    <3> QED  BY <2>7, <2>9, <3>1, <3>2
  <2> QED  BY <2>10, <2>11
<1> QED  BY <1>1, <1>8, <1>9

\* What the HTML of a part shows.
LEMMA HtmlShows ==
  ASSUME PdfTypes, NEW p \in Names
  PROVE  /\ Html(p) \in Shown
         /\ \A l \in Floors : text[l] # None /\ Holds(p, l) => Html(p)[l] = text[l]
<1>1. PICK N \in 0..MaxFloors : N = NumFloors /\ IsText(text, N)
  BY NumFloorsIs
<1>2. N \in Nat /\ MaxFloors \in Nat /\ N <= MaxFloors
  BY <1>1, PdfAssumption
<1>3. PICK D : D = {k \in 0..(N - 1) : Holds(p, k)}
  OBVIOUS
<1>4. D \in SUBSET Floors
  BY <1>2, <1>3 DEF Floors
<1>5. Html(p) = [l \in D |-> text[l]]
  BY <1>1, <1>3 DEF Html
<1>6. \A l \in D : text[l] \in Texts
  BY <1>1, <1>2, <1>3, <1>4 DEF PdfTypes, IsText
<1>7. Html(p) \in [D -> Texts]
  BY <1>5, <1>6
<1>8. ASSUME NEW l \in Floors, text[l] # None, Holds(p, l)  PROVE Html(p)[l] = text[l]
  <2>1. l < N /\ l \in Nat
    BY <1>1, <1>8, PdfAssumption DEF IsText, Floors
  <2>2. l \in D
    BY <1>2, <1>3, <1>8, <2>1
  <2> QED  BY <1>5, <2>2
<1> QED  BY <1>4, <1>7, <1>8 DEF Shown

LEMMA PdfInitOK == PdfInit => PdfInv
<1> SUFFICES ASSUME PdfInit  PROVE PdfInv
  OBVIOUS
<1>1. PICK first \in Texts : text = [l \in Floors |-> IF l = 0 THEN first ELSE None]
  BY PdfAssumption DEF PdfInit
<1>2. 1 \in 0..MaxFloors /\ IsText(text, 1)
  BY <1>1, PdfAssumption DEF IsText, Floors
<1>3. \A p \in Names : pdf[p] = None
  BY DEF PdfInit
<1>4. text \in [Floors -> Texts \union {None}]
  BY <1>1
<1>5. PdfTypes
  BY <1>2, <1>4 DEF PdfInit, PdfTypes
<1> QED  BY <1>3, <1>5 DEF PdfInit, PdfInv, SaidOK, Usable

-----------------------------------------------------------------------------
(* The steps.                                                              *)

LEMMA PlanOK ==
  ASSUME PdfInv, NEW size \in Sizes, Plan(size)
  PROVE  PdfInv'
<1> USE DEF PdfInv
<1>1. PICK P \in SUBSET Names : P = Parts(size)
  BY PartsCover
<1>2. PICK toRender, hashes, read, no :
        /\ toRender = {p \in P : ~IsCurrent(p)} /\ read = text /\ no = FALSE
        /\ hashes = [p \in Names |-> IF p \in P THEN Html(p) ELSE None]
  OBVIOUS
<1>3. PICK r : r = [todo |-> toRender, done |-> {}, failed |-> no, read |-> read, hashes |-> hashes]
  OBVIOUS
<1>4. run' = r
  BY <1>1, <1>2, <1>3, Zenon DEF Plan
<1>5. \A p \in Names : /\ p \in P => html'[p] = Html(p) /\ pdf'[p] = pdf[p]
                       /\ p \notin P => pdf'[p] = None
  BY <1>1 DEF Plan, Cleaned
<1>6. hashes \in [Names -> Shown \union {None}]
  BY <1>2, HtmlShows
<1>7. r \in Runs
  BY <1>2, <1>3, <1>6 DEF Runs, PdfTypes
<1>8. UNCHANGED <<text, manifest, unrecorded, pdfFaults>> /\ run = None
  BY DEF Plan
<1>9. /\ html' \in [Names -> Shown \union {None}]
      /\ pdf' \in [Names -> Shown \union {None, Damaged, Cut}]
  BY <1>1, HtmlShows DEF Plan, Cleaned, PdfTypes
<1>10. PdfTypes'
  BY <1>4, <1>7, <1>8, <1>9 DEF PdfTypes, IsText
<1>11. Planned(r) = P
  <2>1. \A p \in Names : r.hashes[p] # None <=> p \in P
    BY <1>2, <1>3, HtmlShows, PdfAssumption
  <2> QED  BY <2>1 DEF Planned
<1>12. \A l \in Floors : text[l] # None => l \in 0..(NumFloors - 1)
  BY NumFloorsIs, PdfAssumption DEF IsText, Floors
<1>13. ASSUME NEW p \in P  PROVE PartOK(r, p)'
  <2>1. p \in Names /\ r.hashes[p] = Html(p)
    BY <1>2, <1>3
  <2>2. p \notin r.todo => manifest[p] = Html(p) /\ pdf[p] \notin {None, Damaged}
    BY <1>2, <1>3 DEF IsCurrent, Usable
  <2>3. r.read = text /\ r.done = {}
    BY <1>2, <1>3
  <2>4. html'[p] = Html(p) /\ pdf'[p] = pdf[p] /\ manifest' = manifest
    BY <1>5, <1>8, <2>1
  <2> QED  BY <2>1, <2>2, <2>3, <2>4, HtmlShows DEF PartOK, Usable
<1>14. PdfRunOK(r)'
  <2>1. r.todo \subseteq P /\ r.done \subseteq P /\ r.read = text
    BY <1>2, <1>3
  <2>2. \A l \in Floors : text[l] # None => \E p \in P : {q \in P : Holds(q, l)} = {p}
    BY <1>1, <1>12, PartsCover
  <2> QED  BY <1>5, <1>11, <1>13, <2>1, <2>2 DEF PdfRunOK
<1>15. ASSUME NEW p \in Names  PROVE SaidOK(p)'
  <2>1. pdf'[p] = pdf[p] \/ pdf'[p] = None
    BY <1>5
  <2> QED  BY <1>8, <2>1 DEF SaidOK, Usable
<1>16. PdfRunOK(run)'
  BY <1>4, <1>14 DEF PdfRunOK, PartOK
<1> QED  BY <1>10, <1>15, <1>16

\* A part is rendered, or fails.
LEMMA RenderOK ==
  ASSUME PdfInv, NEW p \in Names, Render(p)
  PROVE  PdfInv'
<1> USE DEF PdfInv
<1>1. PICK o \in Runs : o = run
  BY DEF Render, PdfTypes
<1>2. /\ o # None /\ p \in o.todo /\ UNCHANGED <<text, manifest, html, unrecorded>>
      /\ PdfRunOK(o)
  BY <1>1 DEF Render
<1>3. PICK T, A : T = o.todo \ {p} /\ A = o.done \union {p}
  OBVIOUS
<1>4. p \in Planned(o)
  BY <1>2 DEF PdfRunOK
<1>5. CASE /\ pdf' = [pdf EXCEPT ![p] = html[p]] /\ UNCHANGED pdfFaults
           /\ run' = [run EXCEPT !.todo = @ \ {p}, !.done = @ \union {p}]
  <2>1. PICK r : r = [todo |-> T, done |-> A, failed |-> o.failed, read |-> o.read,
                      hashes |-> o.hashes]
    OBVIOUS
  <2>2. run' = r
    <3>1. PICK u : u = [o EXCEPT !.todo = T]
      OBVIOUS
    <3>2. u = [todo |-> T, done |-> o.done, failed |-> o.failed, read |-> o.read,
               hashes |-> o.hashes]
      BY <1>1, <3>1 DEF Runs
    <3>3. [u EXCEPT !.done = A] = r
      BY <2>1, <3>2
    <3>4. run' = [u EXCEPT !.done = A]
      BY <1>1, <1>3, <1>5, <3>1
    <3> QED  BY <3>3, <3>4
  <2>3. r \in Runs
    BY <1>1, <1>3, <1>4, <2>1 DEF Runs, Planned
  <2>4. Planned(r) = Planned(o)
    BY <2>1 DEF Planned
  <2>5. \A q \in Names : pdf'[q] = IF q = p THEN html[p] ELSE pdf[q]
    BY <1>5 DEF PdfTypes
  <2>6. PdfTypes'
    BY <1>2, <1>5, <2>2, <2>3 DEF PdfTypes, IsText
  <2>7. ASSUME NEW q \in Planned(r)  PROVE PartOK(r, q)'
    <3>1. PartOK(o, q) /\ q \in Names
      BY <1>2, <2>4, <2>7 DEF PdfRunOK, Planned
    <3>2. PICK b : b = o.failed
      OBVIOUS
    <3>3. r.hashes = o.hashes /\ r.read = o.read /\ r.todo = T /\ r.done = A /\ r.failed = b
      BY <2>1, <3>2
    <3>4. CASE q = p
      BY <1>2, <1>3, <2>5, <3>1, <3>3, <3>4 DEF PartOK
    <3>5. CASE q # p
      BY <1>2, <1>3, <2>5, <3>1, <3>2, <3>3, <3>5 DEF PartOK, Usable
    <3> QED  BY <3>4, <3>5
  <2>8. PdfRunOK(r)'
    <3>1. r.read = o.read /\ r.todo = T /\ r.done = A
      BY <2>1
    <3>2. T \subseteq Planned(r) /\ A \subseteq Planned(r)
      BY <1>2, <1>3, <1>4, <2>4 DEF PdfRunOK
    <3>3. \A q \in Names : q \notin Planned(r) => pdf'[q] = None
      BY <1>2, <1>4, <2>4, <2>5 DEF PdfRunOK
    <3>4. \A l \in Floors : r.read[l] # None =>
            \E q \in Planned(r) : {c \in Planned(r) : Holds(c, l)} = {q}
      BY <1>2, <2>4, <3>1 DEF PdfRunOK
    <3> QED  BY <2>7, <3>1, <3>2, <3>3, <3>4 DEF PdfRunOK
  <2>9. ASSUME NEW q \in Names  PROVE SaidOK(q)'
    <3>1. r # None
      BY <2>3, PdfAssumption
    <3>2. r.done = A
      BY <2>1
    <3>3. SaidOK(q)
      OBVIOUS
    <3> QED  BY <1>1, <1>2, <1>3, <2>2, <2>5, <3>1, <3>2, <3>3 DEF SaidOK, Usable
  <2>10. PdfRunOK(run)'
    BY <2>2, <2>8 DEF PdfRunOK, PartOK
  <2> QED  BY <2>6, <2>9, <2>10
<1>6. CASE /\ pdfFaults' = pdfFaults + 1 /\ UNCHANGED pdf
           /\ run' = [run EXCEPT !.todo = @ \ {p}, !.failed = TRUE]
  <2>0. PICK y : y = TRUE
    OBVIOUS
  <2>1. PICK r : r = [todo |-> T, done |-> o.done, failed |-> y, read |-> o.read,
                      hashes |-> o.hashes]
    OBVIOUS
  <2>2. run' = r
    <3>1. PICK u : u = [o EXCEPT !.todo = T]
      OBVIOUS
    <3>2. u = [todo |-> T, done |-> o.done, failed |-> o.failed, read |-> o.read,
               hashes |-> o.hashes]
      BY <1>1, <3>1 DEF Runs
    <3>3. [u EXCEPT !.failed = y] = r
      BY <2>1, <3>2
    <3>4. run' = [u EXCEPT !.failed = y]
      BY <1>1, <1>3, <1>6, <2>0, <3>1
    <3> QED  BY <3>3, <3>4
  <2>3. r \in Runs
    BY <1>1, <1>3, <2>0, <2>1 DEF Runs
  <2>4. Planned(r) = Planned(o)
    BY <2>1 DEF Planned
  <2>5. PdfTypes'
    BY <1>2, <1>6, <2>2, <2>3 DEF PdfTypes, IsText
  <2>6. ASSUME NEW q \in Planned(r)  PROVE PartOK(r, q)'
    <3>1. PartOK(o, q)
      BY <1>2, <2>4, <2>6 DEF PdfRunOK, Planned
    <3>2. r.hashes = o.hashes /\ r.read = o.read /\ r.done = o.done /\ r.failed
      BY <2>0, <2>1
    <3> QED  BY <1>2, <1>6, <3>1, <3>2 DEF PartOK
  <2>7. PdfRunOK(r)'
    <3>1. r.read = o.read /\ r.todo = T /\ r.done = o.done
      BY <2>1
    <3> QED  BY <1>2, <1>3, <1>6, <2>4, <2>6, <3>1 DEF PdfRunOK
  <2>8. ASSUME NEW q \in Names  PROVE SaidOK(q)'
    <3>1. r # None /\ r.done = o.done
      BY <2>1, <2>3, PdfAssumption
    <3>2. SaidOK(q)
      OBVIOUS
    <3> QED  BY <1>1, <1>2, <1>6, <2>2, <3>1, <3>2 DEF SaidOK, Usable
  <2>9. PdfRunOK(run)'
    BY <2>2, <2>7 DEF PdfRunOK, PartOK
  <2> QED  BY <2>5, <2>8, <2>9
<1> QED  BY <1>5, <1>6 DEF Render

\* A command that has failed nowhere has rendered a part, or found it as it is to be.
LEMMA AllCurrent ==
  ASSUME PdfInv, run # None, run.todo = {}, ~run.failed
  PROVE  \A p \in Names :
           IF p \in Planned(run)
           THEN /\ p \in run.done \/ (manifest[p] = run.hashes[p] /\ Usable(p))
                /\ pdf[p] # None
                /\ \/ p \notin run.done /\ (p \in unrecorded \/ pdf[p] = Cut)
                   \/ pdf[p] = run.hashes[p]
           ELSE pdf[p] = None
<1> USE DEF PdfInv
<1>1. PdfRunOK(run)
  OBVIOUS
<1> SUFFICES ASSUME NEW p \in Names, p \in Planned(run)
             PROVE  /\ p \in run.done \/ (manifest[p] = run.hashes[p] /\ Usable(p))
                    /\ pdf[p] # None
                    /\ \/ p \notin run.done /\ (p \in unrecorded \/ pdf[p] = Cut)
                       \/ pdf[p] = run.hashes[p]
  BY <1>1 DEF PdfRunOK
<1>2. PartOK(run, p) /\ run.hashes[p] # None /\ SaidOK(p)
  BY <1>1 DEF PdfRunOK, Planned
<1>3. CASE p \in run.done
  BY <1>2, <1>3 DEF PartOK
<1>4. CASE p \notin run.done
  <2>1. manifest[p] = run.hashes[p] /\ Usable(p)
    BY <1>2, <1>4 DEF PartOK
  <2> QED  BY <1>2, <1>4, <2>1 DEF SaidOK, Usable
<1> QED  BY <1>3, <1>4

LEMMA RecordOK == PdfInv /\ Record => PdfInv'
<1> SUFFICES ASSUME PdfInv, Record  PROVE PdfInv'
  OBVIOUS
<1> USE DEF PdfInv
<1>1. /\ run # None /\ run.todo = {} /\ ~run.failed /\ run' = None
      /\ manifest' = run.hashes /\ unrecorded' = unrecorded \ run.done
      /\ UNCHANGED <<text, html, pdf, pdfFaults>>
  BY DEF Record
<1>2. run.hashes \in [Names -> Shown \union {None}]
  BY <1>1 DEF PdfTypes, Runs
<1>3. PdfTypes'
  BY <1>1, <1>2 DEF PdfTypes, IsText
<1>4. ASSUME NEW p \in Names  PROVE SaidOK(p)'
  <2>1. CASE p \in Planned(run)
    BY <1>1, <2>1, AllCurrent DEF SaidOK
  <2>2. CASE p \notin Planned(run)
    BY <1>1, <2>2 DEF SaidOK, Planned
  <2> QED  BY <2>1, <2>2
<1> QED  BY <1>1, <1>3, <1>4

LEMMA StopOK ==
  ASSUME PdfInv, run # None, run' = None, unrecorded' = unrecorded \union run.done,
         pdfFaults' \in Nat, UNCHANGED <<text, manifest, html, pdf>>
  PROVE  PdfInv'
<1>1. PdfTypes'
  BY DEF PdfInv, PdfTypes, IsText
<1>2. ASSUME NEW p \in Names  PROVE SaidOK(p)'
  BY DEF PdfInv, SaidOK, Usable
<1> QED  BY <1>1, <1>2 DEF PdfInv

LEMMA EditTextOK ==
  ASSUME PdfInv, NEW l \in Floors, NEW x \in Texts, EditText(l, x)
  PROVE  PdfInv'
<1>1. /\ text' = [text EXCEPT ![l] = x] /\ l <= NumFloors
      /\ UNCHANGED <<manifest, html, pdf, run, unrecorded, pdfFaults>>
  BY DEF EditText
<1>2. PICK n \in 0..MaxFloors : IsText(text, n) /\ l <= n
  BY <1>1, NumFloorsIs DEF PdfInv
<1>3. PICK m : m = IF l = n THEN n + 1 ELSE n
  OBVIOUS
<1>4. m \in 0..MaxFloors
  BY <1>2, <1>3, PdfAssumption DEF Floors
<1>5. IsText(text', m)
  <2> SUFFICES ASSUME NEW k \in Floors  PROVE k < m <=> text'[k] # None
    BY DEF IsText
  <2>1. text'[k] = IF k = l THEN x ELSE text[k]
    BY <1>1 DEF PdfInv, PdfTypes
  <2>2. k \in Int /\ l \in Int /\ n \in Int /\ (k < n <=> text[k] # None) /\ x # None
    BY <1>2, PdfAssumption DEF IsText, Floors
  <2> QED  BY <1>2, <1>3, <2>1, <2>2
<1>6. text' \in [Floors -> Texts \union {None}]
  BY <1>1 DEF PdfInv, PdfTypes
<1>7. PdfTypes'
  BY <1>1, <1>4, <1>5, <1>6 DEF PdfInv, PdfTypes
<1> QED  BY <1>1, <1>7 DEF PdfInv, PdfRunOK, PartOK, SaidOK, Usable

LEMMA DamageOK ==
  ASSUME PdfInv, NEW p \in Names, Damage(p)
  PROVE  PdfInv'
<1>1. PICK rest \in {None, Damaged, Cut} : pdf' = [pdf EXCEPT ![p] = rest]
  BY DEF Damage
<1>2. /\ run = None /\ run' = None /\ pdfFaults' = pdfFaults + 1
      /\ UNCHANGED <<text, manifest, html, unrecorded>>
  BY DEF Damage
<1>3. \A q \in Names : pdf'[q] = IF q = p THEN rest ELSE pdf[q]
  BY <1>1 DEF PdfInv, PdfTypes
<1>4. pdf' \in [Names -> Shown \union {None, Damaged, Cut}]
  BY <1>1 DEF PdfInv, PdfTypes
<1>5. PdfTypes'
  BY <1>2, <1>4 DEF PdfInv, PdfTypes, IsText
<1>6. ASSUME NEW q \in Names  PROVE SaidOK(q)'
  BY <1>2, <1>3 DEF PdfInv, SaidOK, Usable
<1> QED  BY <1>2, <1>5, <1>6 DEF PdfInv

LEMMA PdfStepOK == PdfInv /\ [PdfNext]_pdfVars => PdfInv'
<1> SUFFICES ASSUME PdfInv, [PdfNext]_pdfVars  PROVE PdfInv'
  OBVIOUS
<1>1. ASSUME NEW size \in Sizes, Plan(size)  PROVE PdfInv'
  BY <1>1, PlanOK
<1>2. ASSUME NEW p \in Names, Render(p) \/ Damage(p)  PROVE PdfInv'
  BY <1>2, RenderOK, DamageOK
<1>3. CASE Record
  BY <1>3, RecordOK
<1>4. CASE Refuse
  BY <1>4, StopOK DEF Refuse, PdfInv, PdfTypes
<1>5. CASE KillRun
  BY <1>5, StopOK DEF KillRun, PdfInv, PdfTypes
<1>6. ASSUME NEW l \in Floors, NEW x \in Texts, EditText(l, x)  PROVE PdfInv'
  BY <1>6, EditTextOK
<1>7. CASE UNCHANGED pdfVars
  BY <1>7 DEF pdfVars, PdfInv, PdfTypes, IsText, PdfRunOK, PartOK, SaidOK, Usable
<1> QED  BY <1>1, <1>2, <1>3, <1>4, <1>5, <1>6, <1>7 DEF PdfNext

\* When a run succeeds, one PDF holds each floor that it has read.
LEMMA SuccessIsCurrent ==
  ASSUME PdfInv, Succeeds, NEW l \in Floors, run.read[l] # None
  PROVE  \E p \in Names :
           /\ {q \in Names : pdf[q] # None /\ Holds(q, l)} = {p}
           /\ \/ p \notin run.done /\ (p \in unrecorded \/ pdf[p] = Cut)
              \/ pdf[p] \in Shown /\ pdf[p][l] = run.read[l]
<1>1. run # None /\ run.todo = {} /\ ~run.failed /\ PdfRunOK(run)
  BY DEF Succeeds, PdfInv
<1>2. PICK p \in Planned(run) : {q \in Planned(run) : Holds(q, l)} = {p}
  BY <1>1 DEF PdfRunOK
<1>3. p \in Names /\ PartOK(run, p) /\ Holds(p, l)
  BY <1>1, <1>2 DEF PdfRunOK, Planned
<1>4. \A q \in Names : pdf[q] # None <=> q \in Planned(run)
  BY <1>1, AllCurrent
<1>5. {q \in Names : pdf[q] # None /\ Holds(q, l)} = {p}
  BY <1>2, <1>4 DEF Planned
<1>6. run.hashes[p] \in Shown /\ run.hashes[p][l] = run.read[l]
  <2>1. run.hashes[p] # None
    BY <1>2 DEF Planned
  <2>2. run \in Runs
    BY <1>1 DEF PdfInv, PdfTypes
  <2>3. run.hashes[p] \in Shown \union {None}
    BY <1>3, <2>2 DEF Runs
  <2> QED  BY <1>3, <2>1, <2>3 DEF PartOK
<1>7. \/ p \notin run.done /\ (p \in unrecorded \/ pdf[p] = Cut)
      \/ pdf[p] \in Shown /\ pdf[p][l] = run.read[l]
  BY <1>1, <1>2, <1>3, <1>6, AllCurrent
<1> QED  BY <1>3, <1>5, <1>7

\* The PDFs of a successful run are current, but for parts that it has not rendered and
\* that a run without success has replaced, or that were cut behind their beginning:
\* for any floors, texts, part sizes, failures and kills.  (generate_pdf, pdf.py; build_render_tasks, pdf_plan.py.)
THEOREM PdfsStayCurrent == PdfSpec => PdfsAreCurrent
<1>1. PdfInv /\ [PdfNext]_pdfVars =>
        [Succeeds =>
           \A l \in Floors : run.read[l] # None =>
             \E p \in Names :
               /\ {q \in Names : pdf[q] # None /\ Holds(q, l)} = {p}
               /\ \/ p \notin run.done /\ (p \in unrecorded \/ pdf[p] = Cut)
                  \/ pdf[p] \in Shown /\ pdf[p][l] = run.read[l]]_pdfVars
  BY SuccessIsCurrent
<1> QED  BY <1>1, PdfInitOK, PdfStepOK, PTL DEF PdfSpec, PdfsAreCurrent
=============================================================================
