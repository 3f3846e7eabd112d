----------------------------- MODULE SqliteGates -----------------------------
(***************************************************************************)
(* How many threads work on databases at once: nga_tools/core/sqlite.py.   *)
(* An operation enters the gate of its kind, and operations within it, of  *)
(* the same kind in the same thread, go through.  The limit of readers is  *)
(* higher while a backup is on (use_backup_sqlite_concurrency); a thread   *)
(* keeps the limit it came with while it waits.  No operation begins within*)
(* one of the other kind: the stores borrow a connection (archive_store.py)*)
(* and then open and validate databases by the same kind of operation.     *)
(***************************************************************************)
EXTENDS Integers, FiniteSets

CONSTANTS Threads,
          WriteLimit, ReadLimit, BackupReadLimit,
          MaxDepth  \* bound: operations within operations

ASSUME GatesAssumption ==
  /\ IsFiniteSet(Threads) /\ MaxDepth \in Nat
  /\ WriteLimit \in Nat \ {0} /\ ReadLimit \in Nat \ {0} /\ BackupReadLimit \in Nat \ {0}

Kinds == {"read", "write"}

VARIABLES
  inBackup,  \* _active_read_concurrency is set
  active,    \* kind -> _active of its gate
  thread     \* thread -> where it is, of what kind, how deep, and its limit

gateVars == <<inBackup, active, thread>>

Outside == [at |-> "out", kind |-> "read", depth |-> 0, limit |-> 0]

GateInit ==
  /\ inBackup = FALSE
  /\ active = [k \in Kinds |-> 0]
  /\ thread = [t \in Threads |-> Outside]

\* _sqlite_concurrency
Limit(kind) ==
  CASE kind = "write" -> WriteLimit
    [] kind = "read" /\ inBackup -> BackupReadLimit
    [] OTHER -> ReadLimit

SwitchBackup ==
  /\ inBackup' = ~inBackup
  /\ UNCHANGED <<active, thread>>

Arrive(t, kind) ==
  /\ thread[t].at = "out"
  /\ thread' = [thread EXCEPT ![t] = [at |-> "awake", kind |-> kind, depth |-> 0,
                                      limit |-> Limit(kind)]]
  /\ UNCHANGED <<inBackup, active>>

\* Under the lock of the condition: through the gate, or asleep.
TryEnter(t) ==
  LET k == thread[t].kind IN
  /\ thread[t].at = "awake"
  /\ IF active[k] < thread[t].limit
     THEN /\ active' = [active EXCEPT ![k] = @ + 1]
          /\ thread' = [thread EXCEPT ![t].at = "in", ![t].depth = 1]
     ELSE thread' = [thread EXCEPT ![t].at = "asleep"] /\ UNCHANGED active
  /\ UNCHANGED inBackup

Nest(t) ==
  /\ thread[t].at = "in" /\ thread[t].depth < MaxDepth
  /\ thread' = [thread EXCEPT ![t].depth = @ + 1]
  /\ UNCHANGED <<inBackup, active>>

\* Mutant: the end of an inner operation frees the slot.
IsOuterAlways(t) == TRUE
IsOuter(t) == thread[t].depth = 1

\* notify_all
AllAwake(k) == [t \in Threads |->
  IF thread[t].at = "asleep" /\ thread[t].kind = k
  THEN [thread[t] EXCEPT !.at = "awake"] ELSE thread[t]]

LeaveGate(t) ==
  LET k == thread[t].kind IN
  /\ thread[t].at = "in"
  /\ active' = IF IsOuter(t) THEN [active EXCEPT ![k] = @ - 1] ELSE active
  /\ thread' = IF thread[t].depth = 1
               THEN [AllAwake(k) EXCEPT ![t] = Outside]
               ELSE [thread EXCEPT ![t].depth = @ - 1]
  /\ UNCHANGED inBackup

GateNext ==
  \/ SwitchBackup
  \/ \E t \in Threads :
       TryEnter(t) \/ Nest(t) \/ LeaveGate(t) \/ \E k \in Kinds : Arrive(t, k)

GateSpec == GateInit /\ [][GateNext]_gateVars

-----------------------------------------------------------------------------

\* The gate counts the threads that are in it, however deep, never more than what
\* one of them was allowed; and who sleeps has no slot to wake up for: no
\* wakeup is lost, although limits change while threads wait.
\* (_SQLiteConcurrencyGate.operation, _sqlite_concurrency, sqlite.py.)
GatesHold ==
  \A k \in Kinds :
    LET inside == {t \in Threads : thread[t].at = "in" /\ thread[t].kind = k} IN
    /\ active[k] = Cardinality(inside)
    /\ inside # {} => \E t \in inside : active[k] <= thread[t].limit
    /\ \A t \in Threads :
         thread[t].at = "asleep" /\ thread[t].kind = k => active[k] >= thread[t].limit
=============================================================================
