----------------------------- MODULE ThreadBatch -----------------------------
(***************************************************************************)
(* Who may write below the output directory, and a command over all        *)
(* configured threads: nga_tools/core/output_lock.py, commands/            *)
(* thread_batch.py, cli/dispatch.py and the edits of web/routes.py.        *)
(*                                                                         *)
(* A lock is taken without waiting: first a lock of the process, then a    *)
(* lock on a file.  A command that writes holds the lock of the root; its  *)
(* batch runs one job for each config in a pool of workers, and a job      *)
(* holds the lock of its folder.  An edit of the viewer holds the lock of  *)
(* the root, and image verify of one thread the lock of the folder only.   *)
(***************************************************************************)
EXTENDS Integers, FiniteSets

CONSTANTS
  Commands, Verifiers, Edits,  \* processes, processes, and requests of one viewer
  Last,            \* the configs of a batch are 1 .. Last
  Folder, Work,    \* the folder of a config; and of an edit or a verifier
  Workers,
  Viewer, Root, Nobody

Configs == 1..Last
Jobs == Commands \X Configs
Folders == {Folder[c] : c \in Configs}
Paths == {Root} \union Folders
Processes == Commands \union Verifiers \union {Viewer}
Actors == Commands \union Jobs \union Verifiers \union Edits

\* Actors of different kinds, processes and folders have names of their own.
ASSUME NamesAssumption ==
  /\ Last \in Nat /\ Folder \in [Configs -> Folders]
  /\ Work \in [Verifiers \union Edits -> Folders] /\ Root \notin Folders
  /\ Commands \intersect (Jobs \union Verifiers \union Edits) = {}
  /\ Jobs \intersect (Verifiers \union Edits) = {} /\ Verifiers \intersect Edits = {}
  /\ Viewer \notin Commands \union Verifiers
  /\ Nobody \notin Processes \union Actors
  /\ Nobody \notin {"done", "failed", "hidden", "ok", "failures", "refused", "killed"}

Process(x) ==
  CASE x \in Jobs -> x[1] [] x \in Edits -> Viewer [] OTHER -> x

VARIABLES
  processLock,  \* _PROCESS_LOCKS: process and path -> holder, or Nobody
  fileLock,     \* path -> process whose file lock is held, or Nobody
  at,           \* where an actor is
  outcome,      \* job -> "done", "failed" or "hidden" (the thread's state is abnormal)
  exit          \* command -> Nobody, "ok", "failures", "refused" or "killed"

batchVars == <<processLock, fileLock, at, outcome, exit>>

BatchInit ==
  /\ processLock = [p \in Processes \X Paths |-> Nobody]
  /\ fileLock = [f \in Paths |-> Nobody]
  /\ at = [x \in Actors |-> "out"]
  /\ outcome = [j \in Jobs |-> Nobody]
  /\ exit = [k \in Commands |-> Nobody]

Path(x) ==
  CASE x \in Jobs -> Folder[x[2]] [] x \in Verifiers -> Work[x] [] OTHER -> Root

Move(x, l) == at' = [at EXCEPT ![x] = l]

-----------------------------------------------------------------------------
(* use_output_folder_lock and use_output_root_lock.                        *)

Enters(x) ==
  LET own == <<Process(x), Path(x)>> IN
  /\ processLock[own] = Nobody
  /\ processLock' = [processLock EXCEPT ![own] = x]
  /\ Move(x, "locking")
  /\ UNCHANGED fileLock

\* Mutant: only threads of one process exclude each other.
Anyway(x) == TRUE
FileIsFree(x) == fileLock[Path(x)] = Nobody

Locks(x) ==
  /\ at[x] = "locking" /\ FileIsFree(x)
  /\ fileLock' = [fileLock EXCEPT ![Path(x)] = Process(x)]
  /\ Move(x, "in")
  /\ UNCHANGED <<processLock, outcome, exit>>

\* Mutant: a refused caller keeps the lock of its process.
KeepProcessLock(x) == processLock
FreeProcessLock(x) == [processLock EXCEPT ![<<Process(x), Path(x)>>] = Nobody]

Busy(x) ==
  \/ at[x] = "locking" /\ fileLock[Path(x)] # Nobody
  \/ at[x] # "locking" /\ processLock[<<Process(x), Path(x)>>] # Nobody

\* Another task uses the folder.
IsRefused(x) ==
  /\ Busy(x)
  /\ processLock' = IF at[x] = "locking" THEN FreeProcessLock(x) ELSE processLock
  /\ UNCHANGED fileLock

Frees(x) ==
  /\ fileLock' = [fileLock EXCEPT ![Path(x)] = Nobody]
  /\ processLock' = FreeProcessLock(x)

-----------------------------------------------------------------------------
(* Commands and their batches.                                             *)

BeginCommand(k) ==
  /\ at[k] = "out" /\ exit[k] = Nobody
  /\ \/ Enters(k) /\ UNCHANGED exit
     \/ IsRefused(k) /\ exit' = [exit EXCEPT ![k] = "refused"] /\ UNCHANGED at
  /\ UNCHANGED outcome

RootRefused(k) ==
  /\ at[k] = "locking" /\ IsRefused(k)
  /\ Move(k, "out") /\ exit' = [exit EXCEPT ![k] = "refused"]
  /\ UNCHANGED outcome

Ran(j) == outcome[j] # Nobody
Running(k) == {c \in Configs : at[<<k, c>>] # "out"}

\* A worker takes the next config.  The pool starts them in order.
StartJob(k, c) ==
  LET j == <<k, c>> IN
  /\ at[k] = "in" /\ at[j] = "out" /\ ~Ran(j)
  /\ Cardinality(Running(k)) < Workers
  /\ \A b \in 1..(c - 1) : Ran(<<k, b>>) \/ at[<<k, b>>] # "out"
  /\ \/ Enters(j) /\ UNCHANGED outcome
     \/ IsRefused(j) /\ outcome' = [outcome EXCEPT ![j] = "failed"] /\ UNCHANGED at
  /\ UNCHANGED exit

JobRefused(j) ==
  /\ at[j] = "locking" /\ IsRefused(j)
  /\ Move(j, "out") /\ outcome' = [outcome EXCEPT ![j] = "failed"]
  /\ UNCHANGED exit

\* The action of the job returns or raises; either way its lock is freed.
EndJob(j) ==
  /\ at[j] = "in"
  /\ \E o \in {"done", "failed", "hidden"} : outcome' = [outcome EXCEPT ![j] = o]
  /\ Move(j, "out") /\ Frees(j)
  /\ UNCHANGED exit

UnexpectedFailure(k) == \E c \in Configs : outcome[<<k, c>>] = "failed"

AllRan(k) == Running(k) = {} /\ \A c \in Configs : Ran(<<k, c>>)

\* run_thread_config_batch returns or exits, and the dispatcher frees the root.
End(k) ==
  /\ at[k] = "in" /\ AllRan(k)
  /\ exit' = [exit EXCEPT ![k] = IF UnexpectedFailure(k) THEN "failures" ELSE "ok"]
  /\ Move(k, "out") /\ Frees(k)
  /\ UNCHANGED outcome

\* The process is killed: its threads are gone, and the system frees its file locks.
KillCommand(k) ==
  /\ at[k] # "out"
  /\ LET mine == {x \in Actors : Process(x) = k} IN
       at' = [x \in Actors |-> IF x \in mine THEN "out" ELSE at[x]]
  /\ processLock' = [p \in Processes \X Paths |-> IF p[1] = k THEN Nobody ELSE processLock[p]]
  /\ fileLock' = [f \in Paths |-> IF fileLock[f] = k THEN Nobody ELSE fileLock[f]]
  /\ exit' = [exit EXCEPT ![k] = "killed"]
  /\ UNCHANGED outcome

-----------------------------------------------------------------------------
(* Verifiers and edits come again and again.                               *)

Visit(x) ==
  /\ at[x] = "out" /\ Enters(x)
  /\ UNCHANGED <<outcome, exit>>

VisitRefused(x) ==
  /\ at[x] = "locking" /\ IsRefused(x) /\ Move(x, "out")
  /\ UNCHANGED <<outcome, exit>>

Depart(x) ==
  /\ at[x] = "in" /\ Move(x, "out") /\ Frees(x)
  /\ UNCHANGED <<outcome, exit>>

Ends(x) ==
  \/ Locks(x)
  \/ x \in Commands /\ (RootRefused(x) \/ End(x) \/ \E c \in Configs : StartJob(x, c))
  \/ x \in Jobs /\ (JobRefused(x) \/ EndJob(x))
  \/ x \in Verifiers \union Edits /\ (VisitRefused(x) \/ Depart(x))

BatchNext ==
  \/ \E x \in Actors : Ends(x)
  \/ \E k \in Commands : BeginCommand(k) \/ KillCommand(k)
  \/ \E x \in Verifiers \union Edits : Visit(x)

BatchSpec == BatchInit /\ [][BatchNext]_batchVars

-----------------------------------------------------------------------------

\* The folder an actor that may write is working in.
Writes(x, f) ==
  /\ at[x] = "in"
  /\ \/ x \in Jobs /\ Folder[x[2]] = f
     \/ x \in Edits /\ Work[x] = f

\* Two writers are never in one folder: jobs of one command or of two, of two
\* configs for one thread, or an edit of the viewer, although nobody waits and
\* processes are killed with locks in their hands.
\* (use_output_folder_lock, use_output_root_lock, output_lock.py.)
WritersExclude ==
  \A f \in Folders : \A x, y \in {z \in Actors : Writes(z, f)} : x = y

\* Who is done, refused or killed holds nothing, and a command that has come to
\* its end has an outcome for each config, and tells failures by its exit.
\* (run_thread_config_batch, thread_batch.py; use_output_root_lock.)
EndedLeaveNothing ==
  /\ \A p \in Processes \X Paths :
       processLock[p] # Nobody => at[processLock[p]] # "out" /\ Process(processLock[p]) = p[1]
  /\ \A f \in Paths : fileLock[f] # Nobody =>
       \E x \in Actors : at[x] = "in" /\ Path(x) = f /\ Process(x) = fileLock[f]
  /\ \A k \in Commands : exit[k] \in {"ok", "failures"} =>
       /\ \A c \in Configs : at[<<k, c>>] = "out" /\ Ran(<<k, c>>)
       /\ exit[k] = "failures" <=> \E c \in Configs : outcome[<<k, c>>] = "failed"

\* The locks keep writers apart, and come free.
FoldersAreSafe == WritersExclude /\ EndedLeaveNothing
=============================================================================
