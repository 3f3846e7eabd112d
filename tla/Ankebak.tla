------------------------------- MODULE Ankebak -------------------------------
(***************************************************************************)
(* The scheduled backup (backup auto, "ankebak").  A run first brings the  *)
(* forum's thread table up to date from the forum's list, newest reply     *)
(* first, reading pages until it meets the newest reply the table already  *)
(* holds (the watermark) and one page more.  It then plans one job per     *)
(* configured thread from three sources: whether a full backup is due, the *)
(* threads seen in this very scan compared with the signature of the last  *)
(* successful backup, and the local state of the thread.  The jobs run in  *)
(* a pool of workers; each that succeeds records its success.              *)
(*                                                                         *)
(* People go on posting all the while, also between the pages of a scan.   *)
(* The output lock keeps runs and plain forum syncs apart.  Left out:      *)
(* pinned and mirrored list entries, several forums, several authors per   *)
(* thread; the signature (replies, lastpost) is the time of the last reply.*)
(***************************************************************************)
EXTENDS Naturals, FiniteSets, FiniteSetsExt

CONSTANTS
  NThreads,      \* threads 1 .. NThreads, in the order they were published
  Watched,       \* threads that are configured or that the watch rules can match
  PageSize,      \* threads on a page of the forum's list
  PageCap,       \* pages of the watch configuration
  None,          \* an absent value
  Never,         \* no backup has succeeded yet
  MaxPosts,      \* bound: posts made
  MaxFaults      \* bound: failed fetches, failed backups and crashes

ASSUME SizesArePositive ==
  /\ NThreads \in Nat \ {0} /\ PageSize \in Nat \ {0} /\ PageCap \in Nat \ {0}
  /\ MaxPosts \in Nat /\ MaxFaults \in Nat
  /\ {None, Never} \cap Nat = {} /\ None # Never

Threads == 1 .. NThreads

ASSUME WatchedAreThreads == Watched \subseteq Threads

VARIABLES
  lastpost,      \* NGA: the last reply of each thread
  rows,          \* forum_threads.sqlite3: lastpost, or None without a row
  configured,    \* thread_configs.json
  signature,     \* ankebak_thread_state: Never, None or the lastpost recorded
  fullDue,       \* the full backup interval has run out, or its ticket came up
  archived,      \* the last reply that the archive holds; 0 without an archive
  pc, auto,      \* where the run is; whether it is a backup auto
  page, cutoff, overlap,   \* the scan: next page, watermark, last page reached
  fresh,         \* fresh_threads: lastpost as seen by this scan, or None
  job,           \* the kind of job each thread still has; "none" otherwise
  stored,        \* jobs that have stored their backup, not yet their success
  faults         \* failures so far

forum == <<rows, configured>>
scan == <<auto, page, cutoff, overlap, fresh>>
jobs == <<job, stored>>
vars == <<lastpost, forum, signature, fullDue, archived, pc, scan, jobs, faults>>

Times == 0 .. NThreads + MaxPosts

-----------------------------------------------------------------------------
(* The list of the forum, newest reply first.                                *)
Rank(t) == Cardinality({u \in Threads : lastpost[u] >= lastpost[t]})
Page(n) == {t \in Threads : (n - 1) * PageSize < Rank(t) /\ Rank(t) <= n * PageSize}

(* The pages of a list of NThreads threads.                                  *)
TotalPages == (NThreads + PageSize - 1) \div PageSize
MaxPage == Min({PageCap, TotalPages})

(* max_normal_lastpost: the watermark.                                       *)
Watermark ==
  LET known == {rows[t] : t \in {u \in Threads : rows[u] # None}}
  IN  IF known = {} THEN None ELSE Max(known)

NoThread == [t \in Threads |-> None]
NoJobs == [t \in Threads |-> "none"]

(* The locals of a scan, and of a run, do not outlive it.                    *)
ScanOver == page' = 1 /\ cutoff' = None /\ overlap' = FALSE
RunOver == pc' = "idle" /\ auto' = FALSE /\ fresh' = NoThread /\ ScanOver

Init ==
  /\ lastpost = [t \in Threads |-> t]
  /\ rows = NoThread
  /\ configured \in SUBSET Watched
  /\ signature = [t \in Threads |-> Never]
  /\ fullDue = [t \in Threads |-> FALSE]
  /\ archived = [t \in Threads |-> 0]
  /\ pc = "idle" /\ auto = FALSE
  /\ page = 1 /\ cutoff = None /\ overlap = FALSE /\ fresh = NoThread
  /\ job = NoJobs /\ stored = {} /\ faults = 0

(* Someone replies, later than anyone before.                                *)
Post(t) ==
  /\ \E now \in Times :
       /\ \A u \in Threads : lastpost[u] < now
       /\ lastpost' = [lastpost EXCEPT ![t] = now]
  /\ UNCHANGED <<forum, signature, fullDue, archived, pc, scan, jobs, faults>>

-----------------------------------------------------------------------------
(* The scan.  Nothing is written until every page of it has been read.       *)
Begin(isAuto) ==
  /\ pc = "idle"
  /\ pc' = "scan" /\ auto' = isAuto
  /\ cutoff' = Watermark
  /\ UNCHANGED <<lastpost, forum, signature, fullDue, archived, page, overlap, fresh,
                 jobs, faults>>

BeginSync == Begin(FALSE)
BeginAuto == Begin(TRUE)


Crosses(shown) == cutoff # None /\ \E t \in shown : lastpost[t] <= cutoff

FetchPage ==
  /\ pc = "scan"
  /\ LET shown == Page(page)
         crossed == ~overlap /\ Crosses(shown)
     IN  /\ fresh' = [t \in Threads |-> IF t \in shown THEN lastpost[t] ELSE fresh[t]]
         /\ overlap' = (overlap \/ crossed)
         /\ pc' = IF overlap \/ page >= MaxPage THEN "commit" ELSE "scan"
         /\ page' = page + 1
  /\ UNCHANGED <<lastpost, forum, signature, fullDue, archived, auto, cutoff, jobs,
                 faults>>

(* All pages in one transaction: this moves the watermark.                   *)
CommitPages ==
  /\ pc = "commit"
  /\ rows' = [t \in Threads |-> IF fresh[t] # None THEN fresh[t] ELSE rows[t]]
  /\ pc' = "screen" /\ ScanOver
  /\ UNCHANGED <<lastpost, configured, signature, fullDue, archived, auto, fresh, jobs,
                 faults>>

(* Threads of the table that match the watch rules become configured.        *)
Screen ==
  /\ pc = "screen"
  /\ \E matches \in SUBSET {t \in Watched : rows[t] # None} :
       configured' = configured \cup matches
  /\ IF auto THEN pc' = "plan" /\ UNCHANGED scan ELSE RunOver
  /\ UNCHANGED <<lastpost, rows, signature, fullDue, archived, jobs, faults>>

(* forum sync --full-postdate: pages in the order of publication, each       *)
(* committed on its own, up to the first known thread or further (--refresh) *)
(* or until a failure.                                                       *)
PostdatePages(n) == {t \in Threads : NThreads - t < n * PageSize}

ScanByPostdate ==
  /\ pc = "idle"
  /\ \E n \in 1 .. TotalPages :
       rows' = [t \in Threads |->
                  IF t \in PostdatePages(n) THEN lastpost[t] ELSE rows[t]]
  /\ UNCHANGED <<lastpost, configured, signature, fullDue, archived, pc, scan, jobs,
                 faults>>

-----------------------------------------------------------------------------
(* _jobs_for_threads.  local is what backup_local_work_kind answers, or      *)
(* "error" when it raises.                                                   *)
LocalWork == {"none", "refresh", "maintenance", "error"}

(* Mutant: the interval is ignored once a backup has succeeded.              *)
FullBackupDueOnce(t) == signature[t] = Never
FullBackupDue(t) == signature[t] = Never \/ fullDue[t]

(* Mutant: any recorded signature counts as a match.                         *)
SignatureKnown(t) == signature[t] # None
SignatureMatches(t) == signature[t] = fresh[t]

Changed(t) == fresh[t] # None /\ ~SignatureMatches(t)

(* Mutant: what backup_local_work_kind answers is taken as a kind of job.    *)
JobKindRaw(t, local) ==
  CASE FullBackupDue(t)                  -> "full"
    [] ~FullBackupDue(t) /\ Changed(t)   -> "sub"
    [] OTHER                             -> local

JobKind(t, local) ==
  CASE FullBackupDue(t)                                        -> "full"
    [] ~FullBackupDue(t) /\ (Changed(t) \/ local = "refresh")  -> "sub"
    [] OTHER                                                   -> local

Plan ==
  /\ pc = "plan"
  /\ \E local \in [configured -> LocalWork] :
       job' = [t \in Threads |-> IF t \in configured THEN JobKind(t, local[t])
                                 ELSE "none"]
  /\ pc' = "jobs"
  /\ UNCHANGED <<lastpost, forum, signature, fullDue, archived, scan, stored, faults>>

-----------------------------------------------------------------------------
(* One job of the pool: it fetches and stores what the thread holds by then; *)
(* maintenance fetches nothing.                                              *)
Backup(t) ==
  /\ pc = "jobs" /\ t \notin stored
  /\ job[t] \in {"full", "sub", "maintenance"}
  /\ archived' = [archived EXCEPT ![t] =
                    IF job[t] = "maintenance" THEN @ ELSE lastpost[t]]
  /\ stored' = stored \cup {t}
  /\ UNCHANGED <<lastpost, forum, signature, fullDue, pc, scan, job, faults>>

(* Mutant: the signature is taken when the backup has ended.                 *)
RecordedLate(t) == lastpost[t]

(* record_success: an unseen thread keeps the signature it had (COALESCE).   *)
Recorded(t) ==
  CASE fresh[t] # None                           -> fresh[t]
    [] fresh[t] = None /\ signature[t] = Never   -> None
    [] OTHER                                     -> signature[t]

RecordSuccess(t) ==
  /\ pc = "jobs" /\ t \in stored
  /\ signature' = [signature EXCEPT ![t] = Recorded(t)]
  /\ fullDue' = [fullDue EXCEPT ![t] = @ /\ job[t] # "full"]
  /\ job' = [job EXCEPT ![t] = "none"]
  /\ stored' = stored \ {t}
  /\ UNCHANGED <<lastpost, forum, archived, pc, scan, faults>>

(* A failed job leaves the others alone and records nothing.                 *)
JobFails(t) ==
  /\ pc = "jobs" /\ job[t] # "none"
  /\ job[t] = "error" \/ faults < MaxFaults
  /\ faults' = IF job[t] = "error" THEN faults ELSE faults + 1
  /\ job' = [job EXCEPT ![t] = "none"]
  /\ stored' = stored \ {t}
  /\ UNCHANGED <<lastpost, forum, signature, fullDue, archived, pc, scan>>

EndRun ==
  /\ pc = "jobs" /\ job = NoJobs /\ RunOver
  /\ UNCHANGED <<lastpost, forum, signature, fullDue, archived, jobs, faults>>

(* A page cannot be fetched, or the process dies.                            *)
Crash ==
  /\ pc # "idle" /\ faults < MaxFaults
  /\ faults' = faults + 1
  /\ RunOver /\ job' = NoJobs /\ stored' = {}
  /\ UNCHANGED <<lastpost, forum, signature, fullDue, archived>>

(* Time passes: a stable ticket that comes up in the end, at the latest when *)
(* the interval is over.                                                     *)
FullBecomesDue(t) ==
  /\ signature[t] # Never /\ ~fullDue[t]
  /\ fullDue' = [fullDue EXCEPT ![t] = TRUE]
  /\ UNCHANGED <<lastpost, forum, signature, archived, pc, scan, jobs, faults>>

RunStep ==
  \/ FetchPage \/ CommitPages \/ Screen \/ Plan \/ EndRun
  \/ \E t \in Threads : Backup(t) \/ RecordSuccess(t) \/ JobFails(t)

Next ==
  \/ RunStep \/ BeginSync \/ BeginAuto \/ ScanByPostdate \/ Crash
  \/ \E t \in Threads : Post(t) \/ FullBecomesDue(t)

Spec == Init /\ [][Next]_vars

(* A run that has begun goes on, backup auto is started again and again      *)
(* whatever else is run in between, and time passes.                         *)
Fairness ==
  /\ WF_vars(RunStep) /\ SF_vars(BeginAuto)
  /\ \A t \in Threads : WF_vars(FullBecomesDue(t))

FairSpec == Spec /\ Fairness

-----------------------------------------------------------------------------
TypeOK ==
  /\ lastpost \in [Threads -> Times] /\ rows \in [Threads -> Times \cup {None}]
  /\ configured \subseteq Watched
  /\ signature \in [Threads -> Times \cup {None, Never}]
  /\ fullDue \in [Threads -> BOOLEAN] /\ archived \in [Threads -> Times]
  /\ pc \in {"idle", "scan", "commit", "screen", "plan", "jobs"}
  /\ page \in 1 .. MaxPage + 1 /\ cutoff \in Times \cup {None}
  /\ fresh \in [Threads -> Times \cup {None}] /\ auto \in BOOLEAN
  /\ overlap \in BOOLEAN
  /\ job \in [Threads -> (LocalWork \ {"refresh"}) \cup {"full", "sub"}]
  /\ stored \subseteq Threads
  /\ faults \in 0 .. MaxFaults

(* The signature of the last successful backup never promises more than the  *)
(* archive holds, although the thread goes on growing between the scan, its  *)
(* backup and the recording of it (ankebak.py:232, ankebak_state.py:214).    *)
SignatureIsArchived ==
  \A t \in Threads : signature[t] \in Nat => signature[t] <= archived[t]

(* A configured thread that the scan has seen and the plan skips is archived *)
(* up to what the scan saw (README.MD:184: skipped when nothing has changed).*)
SkippedIsArchived ==
  [][Plan => \A t \in configured :
       job'[t] = "none" /\ fresh[t] # None => fresh[t] <= archived[t]]_vars

(* Every reply to a configured thread is archived in the end, whatever run   *)
(* failed or was overtaken by a plain sync: at the latest by a full backup.  *)
PostsGetArchived ==
  \A t \in Threads : []<>(t \in configured => archived[t] = lastpost[t])
=============================================================================
