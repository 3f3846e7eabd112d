------------------------------ MODULE ImageFiles ------------------------------
(***************************************************************************)
(* The files behind the image index: nga_tools/backup/image_store.py puts  *)
(* a downloaded image under a name made of the hash of its content and     *)
(* shares the file when the content is there already;                      *)
(* image_validation.py remembers which files can be decoded, in memory for *)
(* one command and in a database across commands; a preparation asks it    *)
(* which images of a thread must be downloaded again.                      *)
(*                                                                         *)
(* A path is a hash and the number of the file with this hash (0, and from *)
(* 1 the names with "-collision-").  A fingerprint (size and mtime_ns) is  *)
(* a number that no two versions of a file share.  Store workers and       *)
(* preparations are threads; a command ends when all are idle.             *)
(***************************************************************************)
EXTENDS Naturals, FiniteSets

CONSTANTS Threads,     \* store workers and threads that prepare downloads
          Contents,    \* images that can be decoded
          Hashes, HashOf,  \* HashOf[c]: the hash of content c
          MaxIndex,    \* bound: the largest collision number
          MaxJobs,     \* bound: calls over all commands
          MaxDamage,   \* bound: files damaged or deleted from outside
          MaxCommands, \* bound: commands run one after the other
          Faults,      \* of {"place", "decode", "cache"}: what may fail
          None

ASSUME FilesAssumption ==
  /\ HashOf \in [Contents -> Hashes]
  /\ "broken" \notin Contents /\ None \notin Threads \union Contents
  /\ None \notin [content : Contents \union {"broken"}, fp : Nat]
  /\ MaxIndex \in Nat /\ MaxJobs \in Nat /\ MaxDamage \in Nat /\ MaxCommands \in Nat

Paths == Hashes \X (0..MaxIndex)

VARIABLES
  file,        \* images_unique: the file at each path, or None
  clock,       \* the next fingerprint
  hashLock,    \* _IMAGE_HASH_LOCKS
  preparing,   \* _IMAGE_PREPARATION_SEMAPHORE: who holds it, or None
  results,     \* _results: fingerprints with their verdict
  flights,     \* _in_flight: fingerprints being validated
  generation,  \* _path_generations
  persistent,  \* _persistent: path -> stored verdict, or None
  preloaded,   \* _preloaded_paths
  preloading,  \* _preload_in_flight: path -> its generation at the claim, or None
  loaded,      \* what preload() has read: path -> entry, or None
  newEntries,  \* _new_entries
  flushed,     \* the entries that flush_new_entries() has taken and will write
  db,          \* the table image_validation_cache
  pc, goal,    \* where a thread is, and where validate() returns to
  want,        \* the content a store worker puts, or None
  at,          \* the path a thread looks at
  fp, gen, verdict,  \* locals of validate()
  todo,        \* paths a preparation has to check
  kept,        \* history: <<path, content>> placed or found, and not damaged since
  jobs, damage, commands  \* counters of the bounds

memoryVars == <<results, flights, generation, persistent, preloaded, preloading, loaded,
                newEntries, flushed>>
threadVars == <<pc, goal, want, at, fp, gen, verdict, todo>>
lockVars == <<hashLock, preparing>>
boundVars == <<jobs, damage, commands>>
vars == <<file, clock, lockVars, memoryVars, db, threadVars, kept, boundVars>>

Put(f, x, v) == [f EXCEPT ![x] = v]
Valid(f) == f # None /\ f.content # "broken"
Entry(p, n, v) == [path |-> p, fp |-> n, valid |-> v]
\* A new version of a file.
Version(c) == [content |-> c, fp |-> clock]

Init ==
  /\ file = [p \in Paths |-> None] /\ clock = 1
  /\ hashLock = [h \in Hashes |-> None] /\ preparing = None
  /\ results = {} /\ flights = {} /\ generation = [p \in Paths |-> 0]
  /\ persistent = [p \in Paths |-> None] /\ preloaded = {} /\ preloading = [p \in Paths |-> None]
  /\ loaded = [p \in Paths |-> None]
  /\ newEntries = {} /\ flushed = {} /\ db = [p \in Paths |-> None]
  /\ pc = [t \in Threads |-> "idle"] /\ goal = [t \in Threads |-> "idle"]
  /\ want = [t \in Threads |-> None] /\ at = [t \in Threads |-> None]
  /\ fp = [t \in Threads |-> 0] /\ gen = [t \in Threads |-> 0]
  /\ verdict = [t \in Threads |-> FALSE]
  /\ todo = [t \in Threads |-> {}]
  /\ kept = {} /\ jobs = 0 /\ damage = 0 /\ commands = 1

Goto(t, l) == pc' = Put(pc, t, l)

\* A call ends: its locks are released, its locals are gone.
Leave(t) ==
  /\ Goto(t, "idle")
  /\ goal' = Put(goal, t, "idle") /\ want' = Put(want, t, None) /\ at' = Put(at, t, None)
  /\ fp' = Put(fp, t, 0) /\ gen' = Put(gen, t, 0) /\ verdict' = Put(verdict, t, FALSE)
  /\ todo' = Put(todo, t, {})
  /\ hashLock' = [h \in Hashes |-> IF hashLock[h] = t THEN None ELSE hashLock[h]]
  /\ preparing' = IF preparing = t THEN None ELSE preparing

-----------------------------------------------------------------------------
(* ImageValidationCache.validate, for the path at[t].                      *)

Validate(t, l) == Goto(t, "stat") /\ goal' = Put(goal, t, l)

\* validate() returns v to the code at goal[t].
Return(t, v) == Goto(t, goal[t]) /\ verdict' = Put(verdict, t, v)

\* The fingerprint is taken outside the lock.
Stat(t) ==
  /\ pc[t] = "stat"
  /\ IF file[at[t]] = None
     THEN Return(t, FALSE) /\ UNCHANGED fp
     ELSE fp' = Put(fp, t, file[at[t]].fp) /\ Goto(t, "look") /\ UNCHANGED verdict
  /\ UNCHANGED <<file, clock, lockVars, memoryVars, db, goal, want, at, gen, todo,
                 kept, boundVars>>

Flight(t) == <<at[t], fp[t]>>
Remembered(t) == {r \in results : r.path = at[t] /\ r.fp = fp[t]}

\* Mutant: an entry is used for its path, whatever the file is now.
StoredMatchesAny(t) == persistent[at[t]] # None /\ at[t] \in preloaded
StoredMatches(t) ==
  persistent[at[t]] # None /\ persistent[at[t]].fp = fp[t] /\ at[t] \in preloaded

\* One critical section: a known verdict, a preload to wait for, a stored
\* verdict, a validation to join, or one to lead.
Look(t) ==
  /\ pc[t] = "look"
  /\ \/ /\ Remembered(t) # {}
        /\ \E r \in Remembered(t) : Return(t, r.valid)
        /\ UNCHANGED <<results, flights, gen>>
     \/ /\ Remembered(t) = {} /\ preloading[at[t]] # None
        /\ Goto(t, "await") /\ UNCHANGED <<verdict, results, flights, gen>>
     \/ /\ Remembered(t) = {} /\ preloading[at[t]] = None /\ StoredMatches(t)
        /\ results' = results \union {Entry(at[t], fp[t], persistent[at[t]].valid)}
        /\ Return(t, persistent[at[t]].valid)
        /\ UNCHANGED <<flights, gen>>
     \/ /\ Remembered(t) = {} /\ preloading[at[t]] = None /\ ~StoredMatches(t)
        /\ IF Flight(t) \in flights
           THEN Goto(t, "follow") /\ UNCHANGED <<flights, gen>>
           ELSE /\ flights' = flights \union {Flight(t)}
                /\ gen' = Put(gen, t, generation[at[t]])
                /\ Goto(t, "decode")
        /\ UNCHANGED <<verdict, results>>
  /\ UNCHANGED <<file, clock, lockVars, generation, persistent, preloaded, preloading,
                 loaded, newEntries, flushed, db, goal, want, at, fp, todo, kept, boundVars>>

AwaitPreload(t) ==
  /\ pc[t] = "await" /\ preloading[at[t]] = None
  /\ Goto(t, "stat")
  /\ UNCHANGED <<file, clock, lockVars, memoryVars, db, goal, want, at, fp, gen, verdict,
                 todo, kept, boundVars>>

\* image_file_is_valid reads the file as it is now.
Decode(t) ==
  /\ pc[t] = "decode"
  /\ verdict' = Put(verdict, t, Valid(file[at[t]]))
  /\ Goto(t, "decoded")
  /\ UNCHANGED <<file, clock, lockVars, memoryVars, db, goal, want, at, fp, gen, todo,
                 kept, boundVars>>

Followers(t) == {u \in Threads : pc[u] = "follow" /\ Flight(u) = Flight(t)}

\* Everybody who joined, and the leader, go on at l with verdict v.
Land(t, same, v) ==
  LET all == Followers(t) \union {t} IN
  /\ flights' = flights \ {Flight(t)}
  /\ pc' = [u \in Threads |->
       IF u \notin all THEN pc[u] ELSE IF same THEN goal[u] ELSE "stat"]
  /\ verdict' = [u \in Threads |-> IF u \in all THEN v ELSE verdict[u]]

Unchanged(t) ==
  /\ file[at[t]] # None /\ file[at[t]].fp = fp[t]
  /\ generation[at[t]] = gen[t]

\* The leader takes the fingerprint again and publishes its verdict.  The two
\* are one step: a change in between leaves the entry to the old fingerprint.
Record(t) ==
  /\ pc[t] = "decoded"
  /\ Land(t, Unchanged(t), verdict[t])
  /\ LET e == Entry(at[t], fp[t], verdict[t]) IN
     IF Unchanged(t)
     THEN results' = results \union {e} /\ newEntries' = newEntries \union {e}
     ELSE UNCHANGED <<results, newEntries>>
  /\ UNCHANGED <<file, clock, lockVars, generation, persistent, preloaded, preloading,
                 loaded, flushed, db,
                 goal, want, at, fp, gen, todo, kept, boundVars>>

\* Decoding raises: leader and followers raise.  Mutant: the failed validation
\* stays in the table.
LeaveFlight(t) == flights
EndFlight(t) == flights \ {Flight(t)}
DecodeRaises(t) ==
  /\ pc[t] = "decode" /\ "decode" \in Faults
  /\ flights' = EndFlight(t)
  /\ pc' = [u \in Threads |-> IF u \in Followers(t) \union {t} THEN "raise" ELSE pc[u]]
  /\ UNCHANGED <<file, clock, lockVars, results, generation, persistent, preloaded,
                 preloading, loaded, newEntries, flushed, db, goal, want, at, fp, gen, verdict, todo,
                 kept, boundVars>>

Raise(t) ==
  /\ pc[t] = "raise" /\ Leave(t)
  /\ UNCHANGED <<file, clock, memoryVars, db, kept, boundVars>>

-----------------------------------------------------------------------------
(* _store_image_file_without_mapping, run by a store worker.               *)

StartStore(t, c) ==
  /\ pc[t] = "idle" /\ jobs < MaxJobs
  /\ jobs' = jobs + 1
  /\ want' = Put(want, t, c) /\ at' = Put(at, t, <<HashOf[c], 0>>)
  /\ Goto(t, "lock")
  /\ UNCHANGED <<file, clock, lockVars, memoryVars, db, goal, fp, gen, verdict, todo,
                 kept, damage, commands>>

\* Mutant: the lock of a hash is not waited for.
Ignored(h) == TRUE
Free(h) == hashLock[h] = None

Lock(t) ==
  /\ pc[t] = "lock" /\ Free(at[t][1])
  /\ hashLock' = Put(hashLock, at[t][1], t)
  /\ Goto(t, "exists")
  /\ UNCHANGED <<file, clock, preparing, memoryVars, db, goal, want, at, fp, gen, verdict,
                 todo, kept, boundVars>>

\* _target_path_for_download: a name nobody uses, or a file to be looked at.
Exists(t) ==
  /\ pc[t] = "exists"
  /\ IF file[at[t]] = None
     THEN Goto(t, "target") /\ UNCHANGED goal
     ELSE Validate(t, "compare")
  /\ UNCHANGED <<file, clock, lockVars, memoryVars, db, want, at, fp, gen, verdict, todo, kept, boundVars>>

SameContent(t) == file[at[t]] # None /\ file[at[t]].content = want[t]

\* A broken file is replaced, an equal one reused, another one passed over.
Compare(t) ==
  /\ pc[t] = "compare"
  /\ CASE ~verdict[t] -> Goto(t, "target") /\ UNCHANGED <<at, kept>>
       [] verdict[t] /\ SameContent(t) ->
            Goto(t, "stored") /\ kept' = kept \union {<<at[t], want[t]>>} /\ UNCHANGED at
       [] verdict[t] /\ ~SameContent(t) /\ at[t][2] < MaxIndex ->
            /\ at' = Put(at, t, <<at[t][1], at[t][2] + 1>>) /\ Goto(t, "exists")
            /\ UNCHANGED kept
       [] OTHER -> Goto(t, "raise") /\ UNCHANGED <<at, kept>>  \* the bound of this model
  /\ UNCHANGED <<file, clock, lockVars, memoryVars, db, goal, want, fp, gen, verdict, todo,
                 boundVars>>

\* invalidate(), when a broken file is to be replaced: first the memory ...
Invalidate(t) ==
  LET p == at[t] IN
  /\ pc[t] = "target"
  /\ IF file[p] = None
     THEN Goto(t, "place") /\ UNCHANGED <<generation, results, persistent, preloaded>>
     ELSE /\ generation' = Put(generation, p, generation[p] + 1)
          /\ results' = {r \in results : r.path # p}
          /\ persistent' = Put(persistent, p, None)
          /\ preloaded' = preloaded \ {p}
          /\ Goto(t, "delete")
  /\ UNCHANGED <<file, clock, lockVars, flights, preloading, loaded, newEntries, flushed, db, goal,
                 want, at,                 fp, gen, verdict, todo, kept, boundVars>>

\* ... then the database.
DeleteEntry(t) ==
  /\ pc[t] = "delete"
  /\ \/ db' = Put(db, at[t], None)
     \/ "cache" \in Faults /\ UNCHANGED db
  /\ Goto(t, "place")
  /\ UNCHANGED <<file, clock, lockVars, memoryVars, goal, want, at, fp, gen, verdict, todo, kept, boundVars>>

\* replace_file_atomically, then the final validation.
Place(t) ==
  /\ pc[t] = "place"
  /\ \/ /\ file' = Put(file, at[t], Version(want[t])) /\ clock' = clock + 1
        /\ kept' = kept \union {<<at[t], want[t]>>}
        /\ Validate(t, "final")
     \/ "place" \in Faults /\ Goto(t, "raise") /\ UNCHANGED <<file, clock, kept, goal>>
  /\ UNCHANGED <<lockVars, memoryVars, db, want, at, fp, gen, verdict, todo, boundVars>>

Final(t) ==
  /\ pc[t] = "final"
  /\ Goto(t, IF verdict[t] THEN "stored" ELSE "raise")
  /\ UNCHANGED <<file, clock, lockVars, memoryVars, db, goal, want, at, fp, gen, verdict,
                 todo, kept, boundVars>>

\* The lock is released and the result goes to the index.
FinishStore(t) ==
  /\ pc[t] = "stored" /\ Leave(t)
  /\ UNCHANGED <<file, clock, memoryVars, db, kept, boundVars>>

-----------------------------------------------------------------------------
(* prepare_image_download_tasks for the mapped paths P, and the lookups of *)
(* a page that is rendered, which validate one path without the semaphore. *)

\* The semaphore is taken, and preload() claims the paths it has not loaded.
BeginPrepare(t, P) ==
  /\ pc[t] = "idle" /\ jobs < MaxJobs /\ preparing = None
  /\ jobs' = jobs + 1 /\ preparing' = t
  /\ todo' = Put(todo, t, P)
  /\ preloading' = [p \in Paths |-> IF p \in P \ preloaded THEN generation[p] ELSE None]
  /\ Goto(t, "load")
  /\ UNCHANGED <<file, clock, hashLock, results, flights, generation, persistent, preloaded,
                 loaded, newEntries, flushed, db, goal, want, at, fp, gen, verdict, kept, damage,
                 commands>>

Owned == {p \in Paths : preloading[p] # None}

\* The table is read at one moment, outside the lock of the cache.
Load(t) ==
  /\ pc[t] = "load"
  /\ \/ loaded' = [p \in Paths |-> IF p \in Owned THEN db[p] ELSE None]
     \/ "cache" \in Faults /\ UNCHANGED loaded
  /\ Goto(t, "loaded")
  /\ UNCHANGED <<file, clock, lockVars, results, flights, generation, persistent, preloaded,
                 preloading, newEntries, flushed, db, goal, want, at, fp, gen, verdict, todo, kept,
                 boundVars>>

\* Only what was not invalidated since the claim is taken over.
Loaded(t) ==
  LET P == {p \in Owned : generation[p] = preloading[p]} IN
  /\ pc[t] = "loaded"
  /\ persistent' = [p \in Paths |->
       IF p \in P /\ loaded[p] # None THEN loaded[p] ELSE persistent[p]]
  /\ preloaded' = preloaded \union P
  /\ preloading' = [p \in Paths |-> None] /\ loaded' = [p \in Paths |-> None]
  /\ Goto(t, "next")
  /\ UNCHANGED <<file, clock, lockVars, results, flights, generation, newEntries, flushed, db, goal,
                 want, at, fp, gen, verdict, todo, kept, boundVars>>

\* One path after the other, in any order.
CheckNext(t) ==
  /\ pc[t] = "next"
  /\ IF todo[t] = {}
     THEN Goto(t, "flush") /\ UNCHANGED <<goal, at, todo>>
     ELSE \E p \in todo[t] :
            /\ todo' = Put(todo, t, todo[t] \ {p}) /\ at' = Put(at, t, p)
            /\ Validate(t, "next")
  /\ UNCHANGED <<file, clock, lockVars, memoryVars, db, want, fp, gen, verdict, kept,
                 boundVars>>

\* flush_new_entries takes the entries under the lock and writes them later.
Flush(t) ==
  /\ pc[t] = "flush"
  /\ Goto(t, "save") /\ newEntries' = {} /\ flushed' = newEntries
  /\ UNCHANGED <<file, clock, lockVars, results, flights, generation, persistent, preloaded,
                 preloading, loaded, db, goal, want, at, fp, gen, verdict, todo, kept,
                 boundVars>>

\* The rows are written in their order, which fingerprints tell, and the
\* semaphore is released.
Save(t) ==
  /\ pc[t] = "save" /\ Leave(t)
  /\ \/ db' = [p \in Paths |->
          LET E == {e \in flushed : e.path = p} IN
          IF E = {} THEN db[p] ELSE CHOOSE e \in E : \A d \in E : d.fp <= e.fp]
     \/ "cache" \in Faults /\ UNCHANGED db
  /\ flushed' = {}
  /\ UNCHANGED <<file, clock, results, flights, generation, persistent, preloaded, preloading,
                 loaded, newEntries, kept, boundVars>>

StartLookup(t, p) ==
  /\ pc[t] = "idle" /\ jobs < MaxJobs
  /\ jobs' = jobs + 1 /\ at' = Put(at, t, p) /\ Validate(t, "answer")
  /\ UNCHANGED <<file, clock, lockVars, memoryVars, db, want, fp, gen, verdict, todo, kept,
                 damage, commands>>

Answer(t) ==
  /\ pc[t] = "answer" /\ Leave(t)
  /\ UNCHANGED <<file, clock, memoryVars, db, kept, boundVars>>

-----------------------------------------------------------------------------
(* What happens around a command.                                          *)

\* A file is damaged or deleted from outside: the mapping of its address stays.
Damage(p) ==
  /\ damage < MaxDamage /\ file[p] # None
  /\ damage' = damage + 1 /\ clock' = clock + 1
  /\ \E f \in {None, Version("broken")} : file' = Put(file, p, f)
  /\ kept' = {k \in kept : k[1] # p}
  /\ UNCHANGED <<lockVars, memoryVars, db, threadVars, jobs, commands>>

\* The command ends, or is killed at any moment; the next one starts without
\* its memory.  Verifying the images deletes what cannot be decoded.
EndCommand ==
  /\ commands < MaxCommands /\ commands' = commands + 1
  /\ file' \in {file, [p \in Paths |-> IF Valid(file[p]) THEN file[p] ELSE None]}
  /\ hashLock' = [h \in Hashes |-> None] /\ preparing' = None
  /\ results' = {} /\ flights' = {} /\ generation' = [p \in Paths |-> 0]
  /\ persistent' = [p \in Paths |-> None] /\ preloaded' = {}
  /\ preloading' = [p \in Paths |-> None] /\ loaded' = [p \in Paths |-> None]
  /\ newEntries' = {} /\ flushed' = {}
  /\ pc' = [t \in Threads |-> "idle"] /\ goal' = [t \in Threads |-> "idle"]
  /\ want' = [t \in Threads |-> None] /\ at' = [t \in Threads |-> None]
  /\ fp' = [t \in Threads |-> 0] /\ gen' = [t \in Threads |-> 0]
  /\ verdict' = [t \in Threads |-> FALSE] /\ todo' = [t \in Threads |-> {}]
  /\ UNCHANGED <<clock, db, kept, jobs, damage>>

Terminated == jobs = MaxJobs /\ (\A t \in Threads : pc[t] = "idle") /\ UNCHANGED vars

Step(t) ==
  \/ Stat(t) \/ Look(t) \/ AwaitPreload(t) \/ Decode(t) \/ Record(t)
  \/ DecodeRaises(t) \/ Raise(t)
  \/ Lock(t) \/ Exists(t) \/ Compare(t) \/ Invalidate(t) \/ DeleteEntry(t)
  \/ Place(t) \/ Final(t) \/ FinishStore(t)
  \/ Load(t) \/ Loaded(t) \/ CheckNext(t) \/ Flush(t) \/ Save(t) \/ Answer(t)

Next ==
  \/ \E t \in Threads :
       \/ Step(t)
       \/ \E c \in Contents : StartStore(t, c)
       \/ \E P \in (SUBSET Paths) \ {{}} : BeginPrepare(t, P)
       \/ \E p \in Paths : StartLookup(t, p)
  \/ \E p \in Paths : Damage(p)
  \/ EndCommand \/ Terminated

Spec == Init /\ [][Next]_vars
\* The operating system lets every thread run.
FairSpec == Spec /\ \A t \in Threads : WF_vars(Step(t))

-----------------------------------------------------------------------------

Entries == [path : Paths, fp : Nat, valid : BOOLEAN]
TypeOK ==
  /\ \A p \in Paths : file[p] # None =>
       file[p].content \in Contents \union {"broken"} /\ file[p].fp < clock
  /\ results \union newEntries \union flushed \subseteq Entries
  /\ \A p \in Paths : {persistent[p], db[p], loaded[p]} \subseteq Entries \union {None}
  /\ \A f \in flights : \E t \in Threads : pc[t] \in {"decode", "decoded"} /\ Flight(t) = f

\* What the image store has put somewhere, or has found there and shared, stays
\* readable under that name until the file is damaged from outside: neither a
\* second image with the same hash, nor a retry, nor a kill overwrites it.
\* (_store_image_file_without_mapping under _hash_lock, image_store.py.)
StoredStays == \A k \in kept : file[k[1]] # None /\ file[k[1]].content = k[2]

\* Whatever the validation cache remembers of the present version of a file is
\* true: in memory, in entries on their way to the database, in the database,
\* and in what a thread was answered.  So a broken image is downloaded again
\* and a good one is not.  (ImageValidationCache, image_validation.py.)
Known ==
  results \union newEntries \union flushed
  \union UNION {{persistent[p], db[p], loaded[p]} \ {None} : p \in Paths}
VerdictsCurrent ==
  /\ \A e \in Known :
       file[e.path] # None /\ file[e.path].fp = e.fp => e.valid = Valid(file[e.path])
  /\ \A t \in Threads :
       pc[t] \in {"compare", "final", "answer"} /\ file[at[t]] # None /\ file[at[t]].fp = fp[t]
         => verdict[t] = Valid(file[at[t]])

\* The files and what is known of them fit together, in type and in truth.
CacheIsSound == TypeOK /\ VerdictsCurrent

\* Every store, preparation and lookup ends: a waiter of a preload, of another
\* thread's validation or of the lock of a hash is woken, whatever fails.
JobsEnd == \A t \in Threads : pc[t] # "idle" ~> pc[t] = "idle"
=============================================================================
