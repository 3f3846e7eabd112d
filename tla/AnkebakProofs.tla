---------------------------- MODULE AnkebakProofs ----------------------------
(***************************************************************************)
(* Proofs about Ankebak for any number of threads, pages, posts, failures. *)
(***************************************************************************)
EXTENDS Ankebak, WellFoundedInduction, TLAPS

Kinds == {"none", "full", "sub", "maintenance", "error"}

(* The archive and the scan know nothing that has not been posted.           *)
Known ==
  /\ lastpost \in [Threads -> Nat] /\ archived \in [Threads -> Nat]
  /\ fresh \in [Threads -> Nat \cup {None}]
  /\ signature \in [Threads -> Nat \cup {None, Never}]
  /\ \A t \in Threads : archived[t] <= lastpost[t]
  /\ \A t \in Threads : fresh[t] # None => fresh[t] <= lastpost[t]

(* Jobs exist only while the pool runs.                                      *)
PoolOK ==
  /\ job \in [Threads -> Kinds] /\ stored \subseteq Threads
  /\ \A t \in stored : job[t] # "none"
  /\ pc # "jobs" => job = NoJobs

(* Maintenance is planned only for a thread unseen or unchanged.             *)
MaintenanceOK ==
  \A t \in Threads :
    job[t] = "maintenance" /\ fresh[t] # None => fresh[t] = signature[t]

(* A job that has stored its backup has stored what the scan saw.            *)
StoredOK == \A t \in stored : fresh[t] # None => fresh[t] <= archived[t]

(* The inductive invariant.                                                  *)
IInv == Known /\ PoolOK /\ MaintenanceOK /\ StoredOK /\ SignatureIsArchived

-----------------------------------------------------------------------------
LEMMA AbsentFacts == None \notin Nat /\ Never \notin Nat /\ None # Never
  BY SizesArePositive

(* JobKind gives a kind of job, and maintenance only without a change.       *)
LEMMA JobKindFacts ==
  ASSUME NEW t \in Threads, NEW local \in LocalWork
  PROVE  /\ JobKind(t, local) \in Kinds
         /\ JobKind(t, local) \in {"maintenance", "none"} /\ fresh[t] # None
              => fresh[t] = signature[t]
<1>1. CASE FullBackupDue(t)
  <2>1. JobKind(t, local) = "full"
    BY <1>1 DEF JobKind
  <2> QED  BY <2>1 DEF Kinds
<1>2. CASE ~FullBackupDue(t) /\ (Changed(t) \/ local = "refresh")
  <2>1. JobKind(t, local) = "sub"
    BY <1>2 DEF JobKind
  <2> QED  BY <2>1 DEF Kinds
<1>3. CASE ~FullBackupDue(t) /\ ~(Changed(t) \/ local = "refresh")
  <2>1. JobKind(t, local) = local
    BY <1>3 DEF JobKind
  <2>2. local \in {"none", "maintenance", "error"}
    BY <1>3 DEF LocalWork
  <2>3. fresh[t] # None => fresh[t] = signature[t]
    BY <1>3 DEF Changed, SignatureMatches
  <2> QED  BY <2>1, <2>2, <2>3 DEF Kinds
<1> QED  BY <1>1, <1>2, <1>3

LEMMA InitOK == Init => IInv
<1> SUFFICES ASSUME Init PROVE IInv  OBVIOUS
<1> USE AbsentFacts DEF Init, NoThread, NoJobs
<1>1. Known
  BY SizesArePositive DEF Known, Threads
<1>2. PoolOK /\ MaintenanceOK /\ StoredOK
  BY DEF PoolOK, MaintenanceOK, StoredOK, Kinds
<1>3. SignatureIsArchived
  BY DEF SignatureIsArchived
<1> QED  BY <1>1, <1>2, <1>3 DEF IInv

(* A step that only ends the scan or the run.                                *)
LEMMA NoThreadOK ==
  ASSUME IInv, fresh' = NoThread, job' = NoJobs, stored' = {},
         UNCHANGED <<lastpost, archived, signature>>
  PROVE  IInv'
BY AbsentFacts DEF IInv, Known, PoolOK, MaintenanceOK, StoredOK, NoThread, NoJobs,
     SignatureIsArchived, Kinds

LEMMA PostOK ==
  ASSUME IInv, NEW t \in Threads, Post(t)
  PROVE  IInv'
<1> USE DEF IInv, Post, forum, scan, jobs
<1>1. PICK now \in Times :
        /\ \A u \in Threads : lastpost[u] < now
        /\ lastpost' = [lastpost EXCEPT ![t] = now]
  OBVIOUS
<1>2. now \in Nat
  BY SizesArePositive DEF Times
<1>3. Known'
  BY <1>1, <1>2, AbsentFacts DEF Known
<1>4. PoolOK' /\ MaintenanceOK' /\ StoredOK' /\ SignatureIsArchived'
  BY DEF PoolOK, MaintenanceOK, StoredOK, SignatureIsArchived, NoJobs
<1> QED  BY <1>3, <1>4

LEMMA FetchPageOK ==
  ASSUME IInv, FetchPage
  PROVE  IInv'
<1> USE DEF IInv, FetchPage, forum, jobs
<1>1. /\ fresh' = [t \in Threads |-> IF t \in Page(page) THEN lastpost[t] ELSE fresh[t]]
      /\ pc' \in {"commit", "scan"} /\ pc = "scan"
  OBVIOUS
<1>2. Known'
  BY <1>1, AbsentFacts DEF Known
<1>3. job = NoJobs /\ stored = {}
  BY <1>1 DEF PoolOK, NoJobs
<1>4. PoolOK' /\ MaintenanceOK' /\ StoredOK' /\ SignatureIsArchived'
  BY <1>1, <1>3 DEF PoolOK, MaintenanceOK, StoredOK, SignatureIsArchived, NoJobs
<1> QED  BY <1>2, <1>4

LEMMA PlanOK ==
  ASSUME IInv, Plan
  PROVE  IInv'
<1> USE DEF IInv, Plan, forum, scan
<1>1. PICK local \in [configured -> LocalWork] :
        job' = [t \in Threads |-> IF t \in configured THEN JobKind(t, local[t])
                                  ELSE "none"]
  OBVIOUS
<1>2. stored = {} /\ pc' = "jobs"
  BY DEF PoolOK, NoJobs
<1>3. \A t \in Threads :
        /\ job'[t] \in Kinds
        /\ job'[t] = "maintenance" /\ fresh[t] # None => fresh[t] = signature[t]
  BY <1>1, JobKindFacts DEF Kinds
<1>4. PoolOK'
  BY <1>1, <1>2, <1>3 DEF PoolOK
<1>5. MaintenanceOK' /\ StoredOK' /\ SignatureIsArchived' /\ Known'
  BY <1>2, <1>3 DEF MaintenanceOK, StoredOK, SignatureIsArchived, Known
<1> QED  BY <1>4, <1>5

LEMMA BackupOK ==
  ASSUME IInv, NEW t \in Threads, Backup(t)
  PROVE  IInv'
<1> USE AbsentFacts DEF IInv, Backup, forum, scan
<1>1. \A u \in Threads : archived[u] <= archived'[u] /\ archived'[u] <= lastpost[u]
                         /\ archived'[u] \in Nat
  BY DEF Known
<1>2. Known'
  BY <1>1 DEF Known
<1>3. PoolOK' /\ MaintenanceOK'
  BY DEF PoolOK, MaintenanceOK
<1>4. SignatureIsArchived'
  BY <1>1 DEF SignatureIsArchived, Known
<1>5. fresh[t] # None => fresh[t] <= archived'[t]
  <2>1. CASE job[t] = "maintenance"
    BY <2>1 DEF MaintenanceOK, SignatureIsArchived, Known
  <2>2. CASE job[t] # "maintenance"
    BY <2>2 DEF Known
  <2> QED  BY <2>1, <2>2
<1>6. StoredOK'
  BY <1>1, <1>5 DEF StoredOK, Known, PoolOK
<1> QED  BY <1>2, <1>3, <1>4, <1>6

LEMMA RecordSuccessOK ==
  ASSUME IInv, NEW t \in Threads, RecordSuccess(t)
  PROVE  IInv'
<1> USE AbsentFacts DEF IInv, RecordSuccess, forum, scan
<1>1. /\ Recorded(t) \in Nat \cup {None, Never}
      /\ Recorded(t) \in Nat => Recorded(t) <= archived[t]
  <2>1. CASE fresh[t] # None
    <3>1. Recorded(t) = fresh[t]
      BY <2>1 DEF Recorded
    <3> QED  BY <3>1, <2>1 DEF StoredOK, Known
  <2>2. CASE fresh[t] = None /\ signature[t] = Never
    <3>1. Recorded(t) = None
      BY <2>2 DEF Recorded
    <3> QED  BY <3>1
  <2>3. CASE fresh[t] = None /\ signature[t] # Never
    <3>1. Recorded(t) = signature[t]
      BY <2>3 DEF Recorded
    <3> QED  BY <3>1 DEF SignatureIsArchived, Known
  <2> QED  BY <2>1, <2>2, <2>3
<1>2. Known' /\ SignatureIsArchived'
  BY <1>1 DEF Known, SignatureIsArchived
<1>3. PoolOK'
  BY DEF PoolOK, Kinds
<1>4. MaintenanceOK' /\ StoredOK'
  BY DEF MaintenanceOK, StoredOK, PoolOK
<1> QED  BY <1>2, <1>3, <1>4

LEMMA JobFailsOK ==
  ASSUME IInv, NEW t \in Threads, JobFails(t)
  PROVE  IInv'
<1> USE DEF IInv, JobFails, forum, scan
<1>1. Known' /\ SignatureIsArchived'
  BY DEF Known, SignatureIsArchived
<1>2. PoolOK'
  BY DEF PoolOK, Kinds
<1>3. MaintenanceOK' /\ StoredOK'
  BY DEF MaintenanceOK, StoredOK, PoolOK
<1> QED  BY <1>1, <1>2, <1>3

(* A step of the scan that writes the table or the configuration, or time.   *)
LEMMA ElsewhereOK ==
  ASSUME IInv, UNCHANGED <<lastpost, archived, signature, fresh, job, stored>>,
         pc' = "jobs" => pc = "jobs" \/ job = NoJobs,
         pc = "jobs" => pc' = "jobs" \/ job = NoJobs
  PROVE  IInv'
BY DEF IInv, Known, PoolOK, MaintenanceOK, StoredOK, SignatureIsArchived, NoJobs

LEMMA NextOK ==
  ASSUME IInv, [Next]_vars
  PROVE  IInv'
<1> USE DEF forum, scan, jobs
<1>1. CASE FetchPage
  BY <1>1, FetchPageOK
<1>2. CASE CommitPages
  BY <1>2, ElsewhereOK DEF CommitPages, IInv, PoolOK
<1>3. CASE Screen
  <2>1. CASE auto
    BY <1>3, <2>1, ElsewhereOK DEF Screen, IInv, PoolOK
  <2>2. CASE ~auto
    <3>1. job = NoJobs /\ stored = {}
      BY <1>3 DEF Screen, IInv, PoolOK, NoJobs
    <3> QED  BY <1>3, <2>2, <3>1, NoThreadOK DEF Screen, RunOver
  <2> QED  BY <2>1, <2>2
<1>4. CASE Plan
  BY <1>4, PlanOK
<1>5. CASE EndRun
  <2>1. stored = {}
    BY <1>5 DEF EndRun, IInv, PoolOK, NoJobs
  <2> QED  BY <1>5, <2>1, NoThreadOK DEF EndRun, RunOver
<1>6. ASSUME NEW t \in Threads, Backup(t) PROVE IInv'
  BY <1>6, BackupOK
<1>7. ASSUME NEW t \in Threads, RecordSuccess(t) PROVE IInv'
  BY <1>7, RecordSuccessOK
<1>8. ASSUME NEW t \in Threads, JobFails(t) PROVE IInv'
  BY <1>8, JobFailsOK
<1>9. CASE BeginSync \/ BeginAuto
  BY <1>9, ElsewhereOK DEF BeginSync, BeginAuto, Begin, IInv, PoolOK
<1>10. CASE ScanByPostdate
  BY <1>10, ElsewhereOK DEF ScanByPostdate
<1>11. CASE Crash
  BY <1>11, NoThreadOK DEF Crash, RunOver
<1>12. ASSUME NEW t \in Threads, Post(t) PROVE IInv'
  BY <1>12, PostOK
<1>13. ASSUME NEW t \in Threads, FullBecomesDue(t) PROVE IInv'
  BY <1>13, ElsewhereOK DEF FullBecomesDue
<1>14. CASE UNCHANGED vars
  BY <1>14, ElsewhereOK DEF vars
<1> QED
  BY <1>1, <1>2, <1>3, <1>4, <1>5, <1>6, <1>7, <1>8, <1>9, <1>10, <1>11, <1>12,
     <1>13, <1>14 DEF Next, RunStep

-----------------------------------------------------------------------------
(* The inductive invariant holds in every reachable state.                   *)
THEOREM Invariance == Spec => []IInv
<1>1. Init => IInv
  BY InitOK
<1>2. IInv /\ [Next]_vars => IInv'
  BY NextOK
<1> QED  BY <1>1, <1>2, PTL DEF Spec

(* The recorded signature never promises more than the archive holds,        *)
(* however the forum, the backups and their recording interleave.            *)
THEOREM SignatureSound == Spec => []SignatureIsArchived
<1>1. IInv => SignatureIsArchived
  BY DEF IInv
<1> QED  BY <1>1, Invariance, PTL

(* A configured thread that the scan has seen and the plan skips holds       *)
(* everything the scan saw.                                                  *)
THEOREM SkippingSound == Spec => SkippedIsArchived
<1> DEFINE Step == Plan => \A t \in configured :
                     job'[t] = "none" /\ fresh[t] # None => fresh[t] <= archived[t]
<1>1. IInv /\ configured \subseteq Threads /\ [Next]_vars => [Step]_vars
  <2> SUFFICES ASSUME IInv, configured \subseteq Threads, Plan,
                      NEW t \in configured, job'[t] = "none", fresh[t] # None
               PROVE  fresh[t] <= archived[t]
    OBVIOUS
  <2>1. PICK local \in [configured -> LocalWork] : job'[t] = JobKind(t, local[t])
    BY DEF Plan
  <2>2. fresh[t] = signature[t]
    BY <2>1, JobKindFacts
  <2> QED  BY <2>2, AbsentFacts DEF IInv, Known, SignatureIsArchived
<1>2. Init => configured \subseteq Threads
  BY WatchedAreThreads DEF Init
<1>3. configured \subseteq Threads /\ [Next]_vars => (configured \subseteq Threads)'
  BY WatchedAreThreads DEF Next, RunStep, vars, forum, Begin, BeginSync, BeginAuto,
     FetchPage, CommitPages, Screen, Plan, EndRun, Backup, RecordSuccess, JobFails,
     ScanByPostdate, Crash, Post, FullBecomesDue
<1> QED  BY <1>1, <1>2, <1>3, Invariance, PTL DEF Spec, SkippedIsArchived

-----------------------------------------------------------------------------
(* Types.  A page that is read is within the list, and a scan begins on the  *)
(* first.                                                                    *)
Typed ==
  /\ TypeOK
  /\ pc = "scan" => page <= MaxPage
  /\ pc = "idle" => page = 1

LEMMA QuotientIsPositive ==
  ASSUME NEW n \in Nat, NEW p \in Nat \ {0}, n >= p
  PROVE  n \div p \in Nat \ {0}
<1> DEFINE q == n \div p
<1>1. q \in Int
  OBVIOUS
<1>2. n >= p * q /\ n < p * q + p
  OBVIOUS
<1> HIDE DEF q
<1>3. q > 0
  <2> SUFFICES ASSUME q <= 0 PROVE FALSE
    BY <1>1
  <2>1. p * q <= 0
    BY <1>1
  <2> QED  BY <1>1, <1>2, <2>1
<1> QED  BY <1>1, <1>3 DEF q

LEMMA PagesExist == MaxPage \in Nat \ {0}
<1>1. TotalPages \in Nat \ {0}
  <2> DEFINE n == NThreads + PageSize - 1
  <2>1. n \in Nat /\ PageSize \in Nat \ {0} /\ n >= PageSize
    BY SizesArePositive
  <2> HIDE DEF n
  <2>2. n \div PageSize \in Nat \ {0}
    BY <2>1, QuotientIsPositive
  <2> QED  BY <2>2 DEF TotalPages, n
<1> DEFINE S == {PageCap, TotalPages}
<1>2. \E x \in S : \A y \in S : x <= y
  BY <1>1, SizesArePositive
<1>3. Min(S) \in S
  BY <1>2 DEF Min
<1> QED  BY <1>1, <1>3, SizesArePositive DEF MaxPage

(* Bounded times have a last one: the first distance to the bound.           *)
LEMMA LastTime ==
  ASSUME NEW T \in SUBSET Times, T # {}
  PROVE  Max(T) \in Times
<1> DEFINE b == NThreads + MaxPosts
           D == {b - x : x \in T}
<1>1. b \in Nat /\ \A x \in T : x \in Nat /\ x <= b
  BY SizesArePositive DEF Times
<1>2. D \subseteq Nat /\ D # {}
  BY <1>1
<1>3. \E d \in D : \A e \in D : <<e, d>> \notin OpToRel(<, Nat)
  <2> HIDE DEF D
  <2> QED  BY <1>2, NatLessThanWellFounded, WFMin
<1>4. PICK d \in D : \A e \in D : ~(e < d)
  BY <1>2, <1>3 DEF OpToRel
<1>5. PICK x \in T : d = b - x
  BY <1>4
<1>6. \A y \in T : ~(b - y < b - x)
  BY <1>4, <1>5
<1>7. \E m \in T : \A y \in T : m >= y
  BY <1>1, <1>6
<1> QED  BY <1>7 DEF Max

LEMMA WatermarkType == TypeOK => Watermark \in Times \cup {None}
<1> SUFFICES ASSUME TypeOK PROVE Watermark \in Times \cup {None}
  OBVIOUS
<1> DEFINE known == {rows[t] : t \in {u \in Threads : rows[u] # None}}
<1>1. known \in SUBSET Times
  BY DEF TypeOK
<1>2. known # {} => Max(known) \in Times
  BY <1>1, LastTime
<1> QED  BY <1>2 DEF Watermark

LEMMA TypedInit == Init => Typed
<1> SUFFICES ASSUME Init PROVE Typed
  OBVIOUS
<1> USE PagesExist, SizesArePositive DEF Init
<1>1. \A t \in Threads : t \in Times /\ 0 \in Times
  BY DEF Threads, Times
<1>2. /\ lastpost \in [Threads -> Times] /\ archived \in [Threads -> Times]
      /\ rows \in [Threads -> Times \cup {None}] /\ fresh \in [Threads -> Times \cup {None}]
      /\ signature \in [Threads -> Times \cup {None, Never}]
  BY <1>1 DEF NoThread
<1>3. /\ configured \subseteq Watched /\ fullDue \in [Threads -> BOOLEAN]
      /\ pc \in {"idle", "scan", "commit", "screen", "plan", "jobs"}
      /\ page \in 1 .. MaxPage + 1 /\ cutoff \in Times \cup {None}
      /\ auto \in BOOLEAN /\ overlap \in BOOLEAN
  <2>1. configured \subseteq Watched /\ fullDue \in [Threads -> BOOLEAN]
    OBVIOUS
  <2>2. pc = "idle" /\ page = 1 /\ cutoff = None /\ auto = FALSE /\ overlap = FALSE
    OBVIOUS
  <2>3. 1 \in 1 .. MaxPage + 1
    OBVIOUS
  <2> QED  BY <2>1, <2>2, <2>3
<1>4. /\ job \in [Threads -> (LocalWork \ {"refresh"}) \cup {"full", "sub"}]
      /\ stored \subseteq Threads /\ faults \in 0 .. MaxFaults
  BY DEF NoJobs, LocalWork
<1> QED  BY <1>2, <1>3, <1>4 DEF Typed, TypeOK

(* The locals that end with a scan or a run.                                 *)
LEMMA OverTypes ==
  /\ ScanOver => page' = 1 /\ page' \in 1 .. MaxPage + 1 /\ cutoff' \in Times \cup {None}
                   /\ overlap' \in BOOLEAN
  /\ RunOver => pc' = "idle" /\ auto' \in BOOLEAN /\ fresh' \in [Threads -> Times \cup {None}]
  /\ NoJobs \in [Threads -> (LocalWork \ {"refresh"}) \cup {"full", "sub"}]
<1>1. 1 \in 1 .. MaxPage + 1
  BY PagesExist
<1>2. NoThread \in [Threads -> Times \cup {None}]
  BY DEF NoThread
<1>3. NoJobs \in [Threads -> (LocalWork \ {"refresh"}) \cup {"full", "sub"}]
  BY DEF NoJobs, LocalWork
<1> QED  BY <1>1, <1>2, <1>3 DEF ScanOver, RunOver

(* A job is one of the kinds that Plan can give.                             *)
LEMMA KindsAre == (LocalWork \ {"refresh"}) \cup {"full", "sub"} = Kinds
  BY DEF LocalWork, Kinds

LEMMA TypedScan ==
  ASSUME Typed,
         BeginSync \/ BeginAuto \/ FetchPage \/ CommitPages \/ Screen \/ ScanByPostdate
  PROVE  Typed'
<1>1. TypeOK /\ MaxPage \in Nat \ {0}
  BY PagesExist DEF Typed
<1>2. CASE BeginSync \/ BeginAuto
  <2>1. /\ pc = "idle" /\ pc' = "scan" /\ auto' \in BOOLEAN /\ cutoff' = Watermark
        /\ UNCHANGED <<lastpost, forum, signature, fullDue, archived, page, overlap, fresh>>
        /\ UNCHANGED <<jobs, faults>>
    BY <1>2 DEF BeginSync, BeginAuto, Begin
  <2>2. UNCHANGED <<rows, configured, job, stored>> /\ page = 1
    BY <2>1 DEF forum, jobs, Typed
  <2> QED  BY <1>1, <2>1, <2>2, WatermarkType DEF Typed, TypeOK
<1>3. CASE FetchPage
  <2>1. /\ fresh' = [t \in Threads |-> IF t \in Page(page) THEN lastpost[t] ELSE fresh[t]]
        /\ overlap' \in BOOLEAN /\ page' = page + 1 /\ pc = "scan"
        /\ (pc' = "commit" \/ (pc' = "scan" /\ ~(page >= MaxPage)))
        /\ UNCHANGED <<lastpost, forum, signature, fullDue, archived, auto, cutoff, jobs, faults>>
    BY <1>3 DEF FetchPage
  <2>2. UNCHANGED <<rows, configured, job, stored>>
    BY <2>1 DEF forum, jobs
  <2>3. fresh' \in [Threads -> Times \cup {None}]
    BY <1>1, <2>1 DEF TypeOK
  <2>4. page \in Nat /\ page <= MaxPage
    BY <1>1, <2>1 DEF TypeOK, Typed
  <2>5. page' \in 1 .. MaxPage + 1 /\ (pc' = "scan" => page' <= MaxPage)
    BY <1>1, <2>1, <2>4
  <2> QED  BY <1>1, <2>1, <2>2, <2>3, <2>5 DEF Typed, TypeOK
<1>4. CASE CommitPages
  <2>1. /\ rows' = [t \in Threads |-> IF fresh[t] # None THEN fresh[t] ELSE rows[t]]
        /\ pc' = "screen" /\ ScanOver
        /\ UNCHANGED <<lastpost, configured, signature, fullDue, archived, auto, fresh, jobs>>
        /\ UNCHANGED faults
    BY <1>4 DEF CommitPages
  <2>2. rows' \in [Threads -> Times \cup {None}] /\ UNCHANGED <<job, stored>>
    BY <1>1, <2>1 DEF TypeOK, jobs
  <2> QED  BY <1>1, <2>1, <2>2, OverTypes DEF Typed, TypeOK
<1>5. CASE Screen
  <2>1. /\ configured' \subseteq configured \cup Watched
        /\ UNCHANGED <<lastpost, rows, signature, fullDue, archived, jobs, faults>>
        /\ ((pc' = "plan" /\ UNCHANGED scan) \/ RunOver)
    BY <1>5 DEF Screen
  <2>2. UNCHANGED <<job, stored>>
    BY <2>1 DEF jobs
  <2>3. CASE pc' = "plan" /\ UNCHANGED scan
    <3>1. UNCHANGED <<auto, page, cutoff, overlap, fresh>>
      BY <2>3 DEF scan
    <3> QED  BY <1>1, <2>1, <2>2, <2>3, <3>1 DEF Typed, TypeOK
  <2>4. CASE RunOver
    <3>1. ScanOver
      BY <2>4 DEF RunOver
    <3> QED  BY <1>1, <2>1, <2>2, <2>4, <3>1, OverTypes DEF Typed, TypeOK
  <2> QED  BY <2>1, <2>3, <2>4
<1>6. CASE ScanByPostdate
  <2>1. /\ rows' \in [Threads -> Times \cup {None}]
        /\ UNCHANGED <<lastpost, configured, signature, fullDue, archived, pc, scan, jobs>>
        /\ UNCHANGED faults
    BY <1>1, <1>6 DEF ScanByPostdate, TypeOK
  <2>2. UNCHANGED <<auto, page, cutoff, overlap, fresh, job, stored>>
    BY <2>1 DEF scan, jobs
  <2> QED  BY <1>1, <2>1, <2>2 DEF Typed, TypeOK
<1> QED  BY <1>2, <1>3, <1>4, <1>5, <1>6

LEMMA TypedJobs ==
  ASSUME Typed, NEW t \in Threads,
         Plan \/ Backup(t) \/ RecordSuccess(t) \/ JobFails(t) \/ EndRun \/ Crash
  PROVE  Typed'
<1>1. TypeOK
  BY DEF Typed
<1>2. CASE Plan
  <2>1. /\ pc' = "jobs"
        /\ UNCHANGED <<lastpost, forum, signature, fullDue, archived, scan, stored, faults>>
    BY <1>2 DEF Plan
  <2>2. PICK local \in [configured -> LocalWork] :
          job' = [u \in Threads |-> IF u \in configured THEN JobKind(u, local[u]) ELSE "none"]
    BY <1>2 DEF Plan
  <2>3. job' \in [Threads -> Kinds]
    <3>1. \A u \in Threads : u \in configured => JobKind(u, local[u]) \in Kinds
      BY <2>2, JobKindFacts
    <3> QED  BY <2>2, <3>1 DEF Kinds
  <2>4. UNCHANGED <<rows, configured, auto, page, cutoff, overlap, fresh>>
    BY <2>1 DEF forum, scan
  <2> QED  BY <1>1, <2>1, <2>3, <2>4, KindsAre DEF Typed, TypeOK
<1>3. CASE Backup(t)
  <2>1. /\ archived' = [archived EXCEPT ![t] = IF job[t] = "maintenance" THEN @ ELSE lastpost[t]]
        /\ stored' = stored \cup {t}
        /\ UNCHANGED <<lastpost, forum, signature, fullDue, pc, scan, job, faults>>
    BY <1>3 DEF Backup
  <2>2. archived' \in [Threads -> Times]
    BY <1>1, <2>1 DEF TypeOK
  <2>3. UNCHANGED <<rows, configured, auto, page, cutoff, overlap, fresh>>
    BY <2>1 DEF forum, scan
  <2> QED  BY <1>1, <2>1, <2>2, <2>3 DEF Typed, TypeOK
<1>4. CASE RecordSuccess(t)
  <2>1. /\ signature' = [signature EXCEPT ![t] = Recorded(t)]
        /\ fullDue' = [fullDue EXCEPT ![t] = @ /\ job[t] # "full"]
        /\ job' = [job EXCEPT ![t] = "none"] /\ stored' = stored \ {t}
        /\ UNCHANGED <<lastpost, forum, archived, pc, scan, faults>>
    BY <1>4 DEF RecordSuccess
  <2>2. Recorded(t) \in Times \cup {None, Never}
    BY <1>1 DEF Recorded, TypeOK
  <2>3. signature' \in [Threads -> Times \cup {None, Never}]
    BY <1>1, <2>1, <2>2 DEF TypeOK
  <2>4. fullDue' \in [Threads -> BOOLEAN]
    BY <1>1, <2>1 DEF TypeOK
  <2>5. job' \in [Threads -> (LocalWork \ {"refresh"}) \cup {"full", "sub"}]
    BY <1>1, <2>1 DEF TypeOK, LocalWork
  <2>6. UNCHANGED <<rows, configured, auto, page, cutoff, overlap, fresh>>
    BY <2>1 DEF forum, scan
  <2> QED  BY <1>1, <2>1, <2>3, <2>4, <2>5, <2>6 DEF Typed, TypeOK
<1>5. CASE JobFails(t)
  <2>1. /\ job[t] = "error" \/ faults < MaxFaults
        /\ faults' = IF job[t] = "error" THEN faults ELSE faults + 1
        /\ job' = [job EXCEPT ![t] = "none"] /\ stored' = stored \ {t}
        /\ UNCHANGED <<lastpost, forum, signature, fullDue, archived, pc, scan>>
    BY <1>5 DEF JobFails
  <2>2. faults' \in 0 .. MaxFaults
    BY <1>1, <2>1, SizesArePositive DEF TypeOK
  <2>3. job' \in [Threads -> (LocalWork \ {"refresh"}) \cup {"full", "sub"}]
    BY <1>1, <2>1 DEF TypeOK, LocalWork
  <2>4. UNCHANGED <<rows, configured, auto, page, cutoff, overlap, fresh>>
    BY <2>1 DEF forum, scan
  <2> QED  BY <1>1, <2>1, <2>2, <2>3, <2>4 DEF Typed, TypeOK
<1>6. CASE EndRun
  <2>1. /\ RunOver /\ ScanOver
        /\ UNCHANGED <<lastpost, forum, signature, fullDue, archived, jobs, faults>>
    BY <1>6 DEF EndRun, RunOver
  <2>2. UNCHANGED <<rows, configured, job, stored>>
    BY <2>1 DEF forum, jobs
  <2> QED  BY <1>1, <2>1, <2>2, OverTypes DEF Typed, TypeOK
<1>7. CASE Crash
  <2>1. /\ RunOver /\ ScanOver /\ job' = NoJobs /\ stored' = {}
        /\ faults < MaxFaults /\ faults' = faults + 1
        /\ UNCHANGED <<lastpost, forum, signature, fullDue, archived>>
    BY <1>7 DEF Crash, RunOver
  <2>2. faults' \in 0 .. MaxFaults
    BY <1>1, <2>1, SizesArePositive DEF TypeOK
  <2>3. UNCHANGED <<rows, configured>>
    BY <2>1 DEF forum
  <2> QED  BY <1>1, <2>1, <2>2, <2>3, OverTypes DEF Typed, TypeOK
<1> QED  BY <1>2, <1>3, <1>4, <1>5, <1>6, <1>7

LEMMA TypedAround ==
  ASSUME Typed, NEW t \in Threads, Post(t) \/ FullBecomesDue(t) \/ UNCHANGED vars
  PROVE  Typed'
<1>1. TypeOK
  BY DEF Typed
<1>2. /\ lastpost' \in [Threads -> Times] /\ fullDue' \in [Threads -> BOOLEAN]
      /\ UNCHANGED <<forum, signature, archived, pc, scan, jobs, faults>>
  BY <1>1 DEF Post, FullBecomesDue, vars, TypeOK
<1>3. UNCHANGED <<rows, configured, auto, page, cutoff, overlap, fresh, job, stored>>
  BY <1>2 DEF forum, scan, jobs
<1> QED  BY <1>1, <1>2, <1>3 DEF Typed, TypeOK

(* The state keeps its type: no scan leaves the list, no time is invented,   *)
(* and only a job of a known kind is ever planned.                           *)
THEOREM TypeCorrect == Spec => []TypeOK
<1>1. Init => Typed
  BY TypedInit
<1>2. Typed /\ [Next]_vars => Typed'
  <2> SUFFICES ASSUME Typed, [Next]_vars PROVE Typed'
    OBVIOUS
  <2>1. PICK t : t \in Threads
    BY SizesArePositive DEF Threads
  <2>2. CASE BeginSync \/ BeginAuto \/ FetchPage \/ CommitPages \/ Screen \/ ScanByPostdate
    BY <2>2, TypedScan
  <2>3. CASE Plan \/ EndRun \/ Crash
    BY <2>1, <2>3, TypedJobs
  <2>4. ASSUME NEW u \in Threads, Backup(u) \/ RecordSuccess(u) \/ JobFails(u) PROVE Typed'
    BY <2>4, TypedJobs
  <2>5. ASSUME NEW u \in Threads, Post(u) \/ FullBecomesDue(u) PROVE Typed'
    BY <2>5, TypedAround
  <2>6. CASE UNCHANGED vars
    BY <2>1, <2>6, TypedAround
  <2> QED  BY <2>2, <2>3, <2>4, <2>5, <2>6 DEF Next, RunStep
<1>3. Typed => TypeOK
  BY DEF Typed
<1> QED  BY <1>1, <1>2, <1>3, PTL DEF Spec
=============================================================================
