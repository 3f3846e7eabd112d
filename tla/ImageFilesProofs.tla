--------------------------- MODULE ImageFilesProofs ---------------------------
(***************************************************************************)
(* Proofs about ImageFiles for any threads, images, hashes and faults:     *)
(* what the store has put somewhere stays there, and what the validation   *)
(* cache says of a file is true.                                           *)
(*                                                                         *)
(* The lock of a hash makes a store worker the only one that places files  *)
(* under it, so between the fingerprint it takes and the comparison only   *)
(* damage can change the file; and no fingerprint is used twice, so a      *)
(* verdict that was true of a version is true whenever that version is     *)
(* there.                                                                  *)
(***************************************************************************)
EXTENDS ImageFiles, WellFoundedInduction, TLAPS

USE FilesAssumption

Versions == [content : Contents \union {"broken"}, fp : Nat]
Validating == {"stat", "look", "await", "follow", "decode", "decoded"}
Goals == {"compare", "final", "answer", "next"}
Labels == Validating \union Goals \union
  {"idle", "raise", "lock", "exists", "target", "delete", "place", "stored",
   "load", "loaded", "flush", "save"}

-----------------------------------------------------------------------------
(* The invariant.                                                          *)

Types ==
  /\ file \in [Paths -> Versions \union {None}] /\ clock \in Nat \ {0}
  /\ hashLock \in [Hashes -> Threads \union {None}]
  /\ kept \subseteq Paths \X Contents
  /\ results \subseteq Entries /\ newEntries \subseteq Entries /\ flushed \subseteq Entries
  /\ persistent \in [Paths -> Entries \union {None}]
  /\ db \in [Paths -> Entries \union {None}] /\ loaded \in [Paths -> Entries \union {None}]
  /\ pc \in [Threads -> Labels] /\ goal \in [Threads -> Goals \union {"idle"}]
  /\ want \in [Threads -> Contents \union {None}] /\ at \in [Threads -> Paths \union {None}]
  /\ fp \in [Threads -> Nat] /\ verdict \in [Threads -> BOOLEAN]
  /\ todo \in [Threads -> SUBSET Paths]

\* A file has a fingerprint of the past; a stored entry is about its path.
DiskOK ==
  /\ \A p \in Paths : file[p] # None => file[p].fp < clock
  /\ \A p \in Paths : /\ persistent[p] # None => persistent[p].path = p
                      /\ db[p] # None => db[p].path = p
                      /\ loaded[p] # None => loaded[p].path = p
  /\ StoredStays

\* What an entry says of the present version of its file is true.
TrueNow(e) ==
  file[e.path] # None /\ file[e.path].fp = e.fp => e.valid = Valid(file[e.path])
MemoryOK == \A e \in Known : e \in Entries /\ e.fp < clock /\ TrueNow(e)

FlightsOK ==
  \A f \in flights : \E t \in Threads : pc[t] \in {"decode", "decoded"} /\ Flight(t) = f

\* A store worker between its lock and the end.
Storing(t) ==
  \/ pc[t] \in {"exists", "compare", "target", "delete", "place", "final", "stored"}
  \/ pc[t] \in Validating /\ goal[t] \in {"compare", "final"}

PlacedAt(p) == \E k \in kept : k[1] = p
PlacedLater(p) == \E k \in kept' : k[1] = p

HoldsLock(t) ==
  /\ Storing(t) => want[t] \in Contents /\ at[t] \in Paths /\ hashLock[at[t][1]] = t
  /\ pc[t] = "lock" => want[t] \in Contents /\ at[t] \in Paths
LooksSomewhere(t) ==
  /\ pc[t] \in Validating => at[t] \in Paths /\ goal[t] \in Goals
  /\ pc[t] = "answer" => at[t] \in Paths
\* A worker replaces only what was not put there or has been damaged since ...
ReplacesNothing(t) == pc[t] \in {"target", "delete", "place"} => ~PlacedAt(at[t])
\* ... and the file it compares with is the version it has asked about.
Compares(t) ==
  \/ pc[t] = "compare"
  \/ pc[t] \in {"look", "follow", "decode", "decoded"} /\ goal[t] = "compare"
LooksAtPlaced(t) == Compares(t) /\ PlacedAt(at[t]) => file[at[t]].fp = fp[t]
VerdictTrue(t) ==
  pc[t] \in {"decoded", "compare", "final", "answer"}
    /\ file[at[t]] # None /\ file[at[t]].fp = fp[t]
  => verdict[t] = Valid(file[at[t]])
Local(t) ==
  /\ HoldsLock(t) /\ LooksSomewhere(t) /\ ReplacesNothing(t)
  /\ LooksAtPlaced(t) /\ VerdictTrue(t) /\ fp[t] < clock

IInv == Types /\ DiskOK /\ MemoryOK /\ FlightsOK /\ \A t \in Threads : Local(t)

LEMMA InvariantImplies == IInv => StoredStays /\ CacheIsSound
<1> SUFFICES ASSUME IInv PROVE StoredStays /\ CacheIsSound
  OBVIOUS
<1>1. StoredStays
  BY DEF IInv, DiskOK
<1>2. TypeOK
  <2>1. \A p \in Paths : file[p] # None =>
          file[p].content \in Contents \union {"broken"} /\ file[p].fp < clock
    BY DEF IInv, Types, DiskOK, Versions
  <2>2. results \union newEntries \union flushed \subseteq Entries
    BY DEF IInv, Types
  <2>3. \A p \in Paths : {persistent[p], db[p], loaded[p]} \subseteq Entries \union {None}
    BY DEF IInv, Types
  <2> QED  BY <2>1, <2>2, <2>3 DEF TypeOK, IInv, FlightsOK
<1>3. VerdictsCurrent
  <2>1. \A e \in Known :
          file[e.path] # None /\ file[e.path].fp = e.fp => e.valid = Valid(file[e.path])
    BY DEF IInv, MemoryOK, TrueNow
  <2>2. \A t \in Threads :
          pc[t] \in {"compare", "final", "answer"} /\ file[at[t]] # None
            /\ file[at[t]].fp = fp[t] => verdict[t] = Valid(file[at[t]])
    BY DEF IInv, Local, VerdictTrue
  <2> QED  BY <2>1, <2>2 DEF VerdictsCurrent
<1> QED  BY <1>1, <1>2, <1>3 DEF CacheIsSound

LEMMA InitInv == Init => IInv
<1> SUFFICES ASSUME Init PROVE IInv
  OBVIOUS
<1>1. Types
  BY DEF Init, Types, Labels, Goals
<1>2. DiskOK
  BY DEF Init, DiskOK, StoredStays
<1>3. MemoryOK
  BY DEF Init, MemoryOK, Known
<1>4. FlightsOK
  BY DEF Init, FlightsOK
<1>5. \A t \in Threads : Local(t)
  <2> SUFFICES ASSUME NEW t \in Threads PROVE Local(t)
    OBVIOUS
  <2>1. pc[t] = "idle" /\ fp[t] = 0 /\ clock = 1
    BY DEF Init
  <2>2. ~Storing(t) /\ ~Compares(t)
    BY <2>1 DEF Storing, Compares, Validating
  <2>3. HoldsLock(t) /\ LooksSomewhere(t)
    BY <2>1, <2>2 DEF HoldsLock, LooksSomewhere, Validating
  <2>4. ReplacesNothing(t) /\ LooksAtPlaced(t) /\ VerdictTrue(t)
    BY <2>1, <2>2 DEF ReplacesNothing, LooksAtPlaced, VerdictTrue
  <2> QED  BY <2>1, <2>3, <2>4 DEF Local
<1> QED  BY <1>1, <1>2, <1>3, <1>4, <1>5 DEF IInv

-----------------------------------------------------------------------------
(* What a step leaves alone.                                               *)

\* A file stays, disappears, or gets a fingerprint nobody has seen.
FilesMove ==
  /\ clock' \in Nat /\ clock <= clock'
  /\ \A p \in Paths : \/ file'[p] = file[p] \/ file'[p] = None
                      \/ file'[p].fp = clock /\ clock < clock'

LEMMA FilesRest == Types /\ UNCHANGED <<file, clock>> => FilesMove
  BY DEF Types, FilesMove

\* What the thread u relies on of files under a hash that it has locked.
Undisturbed(u) ==
  /\ \A h \in Hashes : hashLock[h] = u => hashLock'[h] = u
  /\ \A p \in Paths : PlacedLater(p) /\ hashLock[p[1]] = u =>
                        PlacedAt(p) /\ file'[p] = file[p]

SameLocals(u) ==
  /\ pc'[u] = pc[u] /\ goal'[u] = goal[u] /\ want'[u] = want[u] /\ at'[u] = at[u]
  /\ fp'[u] = fp[u] /\ verdict'[u] = verdict[u]

\* A thread that does not move stays right.
LEMMA LocalFrame ==
  ASSUME IInv, FilesMove, NEW u \in Threads, SameLocals(u), Undisturbed(u)
  PROVE  Local(u)'
<1>1. Types /\ Local(u)
  BY DEF IInv
<1>2. fp[u] \in Nat /\ clock \in Nat /\ clock' \in Nat /\ fp[u] < clock
  BY <1>1 DEF Types, Local, FilesMove
<1>3. HoldsLock(u)'
  <2>1. Storing(u)' <=> Storing(u)
    BY DEF SameLocals, Storing
  <2>2. Storing(u) => /\ want[u] \in Contents /\ at[u] \in Paths
                      /\ hashLock[at[u][1]] = u /\ at[u][1] \in Hashes
    BY <1>1 DEF Local, HoldsLock, Paths
  <2> QED  BY <1>1, <2>1, <2>2 DEF Local, HoldsLock, SameLocals, Undisturbed
<1>4. LooksSomewhere(u)'
  BY <1>1 DEF Local, LooksSomewhere, SameLocals
<1>5. Storing(u) /\ PlacedLater(at[u]) => PlacedAt(at[u]) /\ file'[at[u]] = file[at[u]]
  BY <1>1 DEF Local, HoldsLock, Undisturbed
<1>6. ReplacesNothing(u)'
  <2>1. PlacedAt(at[u])' <=> PlacedLater(at[u])
    BY DEF SameLocals, PlacedAt, PlacedLater
  <2> QED  BY <1>1, <1>5, <2>1 DEF Local, ReplacesNothing, SameLocals, Storing
<1>7. LooksAtPlaced(u)'
  <2>1. Compares(u)' <=> Compares(u)
    BY DEF SameLocals, Compares
  <2>2. Compares(u) => Storing(u)
    BY DEF Compares, Storing, Validating
  <2>3. PlacedAt(at[u])' <=> PlacedLater(at[u])
    BY DEF SameLocals, PlacedAt, PlacedLater
  <2>4. LooksAtPlaced(u)
    BY <1>1 DEF Local
  <2> QED  BY <1>5, <2>1, <2>2, <2>3, <2>4 DEF LooksAtPlaced, SameLocals
<1>8. VerdictTrue(u)'
  <2> SUFFICES ASSUME pc'[u] \in {"decoded", "compare", "final", "answer"},
                      file'[at'[u]] # None, file'[at'[u]].fp = fp'[u]
               PROVE  verdict'[u] = Valid(file'[at'[u]])
    BY DEF VerdictTrue
  <2>1. at[u] \in Paths
    BY <1>1 DEF Local, HoldsLock, LooksSomewhere, Storing, Validating, SameLocals
  <2>2. file'[at[u]] = file[at[u]] /\ at'[u] = at[u]
    BY <1>2, <2>1 DEF FilesMove, SameLocals
  <2>3. verdict[u] = Valid(file[at[u]])
    BY <1>1, <2>2 DEF Local, VerdictTrue, SameLocals
  <2> QED  BY <2>2, <2>3 DEF SameLocals
<1>9. fp'[u] < clock'
  BY <1>2 DEF SameLocals, FilesMove
<1> QED  BY <1>3, <1>4, <1>6, <1>7, <1>8, <1>9 DEF Local

\* The members of Known, one container at a time.
LEMMA KnownMembers ==
  /\ results \subseteq Known /\ newEntries \subseteq Known /\ flushed \subseteq Known
  /\ \A p \in Paths : /\ persistent[p] # None => persistent[p] \in Known
                      /\ db[p] # None => db[p] \in Known
                      /\ loaded[p] # None => loaded[p] \in Known
  BY DEF Known

\* What was known and true stays so, unless it is about another version.
LEMMA MemoryFrame ==
  ASSUME IInv, FilesMove,
         \A e \in Known' : \/ e \in Known
                           \/ e \in Entries /\ e.fp < clock' /\ TrueNow(e)'
  PROVE  MemoryOK'
<1> SUFFICES ASSUME NEW e \in Known' PROVE e \in Entries /\ e.fp < clock' /\ TrueNow(e)'
  BY DEF MemoryOK
<1>1. CASE e \in Known
  <2>1. e \in Entries /\ e.fp < clock /\ TrueNow(e) /\ e.fp \in Nat /\ e.path \in Paths
    BY <1>1 DEF IInv, MemoryOK, Entries
  <2>2. clock \in Nat /\ clock' \in Nat /\ clock <= clock'
    BY DEF IInv, Types, FilesMove
  <2>3. file'[e.path] # None /\ file'[e.path].fp = e.fp => file'[e.path] = file[e.path]
    BY <2>1, <2>2 DEF FilesMove
  <2>4. TrueNow(e)'
    BY <2>1, <2>3 DEF TrueNow, Valid
  <2> QED  BY <2>1, <2>2, <2>4
<1> QED  BY <1>1

LEMMA MemoryRests ==
  ASSUME IInv, FilesMove, UNCHANGED <<results, newEntries, flushed, persistent, db, loaded>>
  PROVE  MemoryOK'
<1>1. Known' = Known
  BY DEF Known
<1> QED  BY <1>1, MemoryFrame

LEMMA FlightsFrame ==
  ASSUME FlightsOK, flights' \subseteq flights,
         \A w \in Threads : pc[w] \in {"decode", "decoded"} =>
           /\ pc'[w] \in {"decode", "decoded"} /\ at'[w] = at[w] /\ fp'[w] = fp[w]
  PROVE  FlightsOK'
<1> SUFFICES ASSUME NEW f \in flights
             PROVE  \E t \in Threads : pc'[t] \in {"decode", "decoded"} /\ Flight(t)' = f
  BY DEF FlightsOK
<1>1. PICK t \in Threads : pc[t] \in {"decode", "decoded"} /\ Flight(t) = f
  BY DEF FlightsOK
<1> QED  BY <1>1 DEF Flight

LEMMA DiskRests ==
  ASSUME DiskOK, UNCHANGED <<file, clock, kept, persistent, db, loaded>>
  PROVE  DiskOK'
  BY DEF DiskOK, StoredStays

-----------------------------------------------------------------------------
(* The shape of a step of one thread.                                      *)

OthersRest(t) == \A u \in Threads \ {t} : SameLocals(u) /\ Undisturbed(u)

LEMMA OwnStep ==
  ASSUME IInv, FilesMove, NEW t \in Threads, OthersRest(t),
         Types', DiskOK', MemoryOK', FlightsOK', Local(t)'
  PROVE  IInv'
<1>1. \A u \in Threads : Local(u)'
  BY LocalFrame DEF OthersRest
<1> QED  BY <1>1 DEF IInv

\* The other threads keep their locals and their locks.
Alone(t) ==
  \A u \in Threads \ {t} :
    SameLocals(u) /\ \A h \in Hashes : hashLock[h] = u => hashLock'[h] = u

LEMMA AloneRest ==
  ASSUME NEW t \in Threads, Alone(t), UNCHANGED <<file, kept>>
  PROVE  OthersRest(t)
  BY DEF Alone, OthersRest, Undisturbed, PlacedAt, PlacedLater

\* A step that leaves the files and what is known of them alone.
Quiet(t) ==
  /\ UNCHANGED <<file, clock, kept, results, newEntries, flushed, persistent, db, loaded>>
  /\ flights' = flights
  /\ Alone(t)
  /\ pc[t] \in {"decode", "decoded"} =>
       pc'[t] \in {"decode", "decoded"} /\ at'[t] = at[t] /\ fp'[t] = fp[t]

LEMMA QuietFlights ==
  ASSUME FlightsOK, NEW t \in Threads, Alone(t), flights' \subseteq flights,
         pc[t] \in {"decode", "decoded"} =>
           pc'[t] \in {"decode", "decoded"} /\ at'[t] = at[t] /\ fp'[t] = fp[t]
  PROVE  FlightsOK'
<1>1. \A w \in Threads : pc[w] \in {"decode", "decoded"} =>
        /\ pc'[w] \in {"decode", "decoded"} /\ at'[w] = at[w] /\ fp'[w] = fp[w]
  BY DEF Alone, SameLocals
<1> QED  BY <1>1, FlightsFrame

LEMMA QuietStep ==
  ASSUME IInv, NEW t \in Threads, Quiet(t), Types', Local(t)'
  PROVE  IInv'
<1>1. FilesMove /\ FlightsOK /\ DiskOK
  BY FilesRest DEF IInv, Quiet
<1>2. OthersRest(t)
  BY AloneRest DEF Quiet
<1>3. DiskOK'
  BY <1>1, DiskRests DEF Quiet
<1>4. MemoryOK'
  BY <1>1, MemoryRests DEF Quiet
<1>5. FlightsOK'
  BY <1>1, QuietFlights DEF Quiet
<1> QED  BY <1>1, <1>2, <1>3, <1>4, <1>5, OwnStep

\* Where a thread owns and claims nothing.
Unbound == {"idle", "raise", "load", "loaded", "next", "flush", "save"}

LEMMA UnboundLocal ==
  ASSUME NEW t \in Threads, pc'[t] \in Unbound, fp'[t] < clock'
  PROVE  Local(t)'
<1>1. ~Storing(t)' /\ ~Compares(t)' /\ pc'[t] \notin Validating /\ pc'[t] # "lock"
  BY DEF Unbound, Storing, Compares, Validating
<1>2. HoldsLock(t)' /\ LooksSomewhere(t)'
  BY <1>1 DEF HoldsLock, LooksSomewhere, Unbound
<1>3. ReplacesNothing(t)' /\ LooksAtPlaced(t)' /\ VerdictTrue(t)'
  BY <1>1 DEF ReplacesNothing, LooksAtPlaced, VerdictTrue, Unbound
<1> QED  BY <1>2, <1>3 DEF Local

LEMMA LabelTypes ==
  /\ Goals \subseteq Labels /\ Validating \subseteq Labels /\ Unbound \subseteq Labels
  /\ {"lock", "exists", "target", "delete", "place", "stored"} \subseteq Labels
  BY DEF Goals, Labels, Validating, Unbound

\* A thread that leaves owns nothing, and nobody else loses a lock.
LEMMA LeaveFacts ==
  ASSUME Types, NEW t \in Threads, Leave(t), clock' \in Nat \ {0}
  PROVE  /\ Alone(t) /\ Local(t)'
         /\ hashLock' \in [Hashes -> Threads \union {None}]
         /\ pc' \in [Threads -> Labels] /\ goal' \in [Threads -> Goals \union {"idle"}]
         /\ want' \in [Threads -> Contents \union {None}]
         /\ at' \in [Threads -> Paths \union {None}]
         /\ fp' \in [Threads -> Nat] /\ verdict' \in [Threads -> BOOLEAN]
         /\ todo' \in [Threads -> SUBSET Paths]
<1>1. /\ hashLock' \in [Hashes -> Threads \union {None}]
      /\ goal' \in [Threads -> Goals \union {"idle"}]
      /\ want' \in [Threads -> Contents \union {None}]
      /\ at' \in [Threads -> Paths \union {None}]
      /\ fp' \in [Threads -> Nat] /\ verdict' \in [Threads -> BOOLEAN]
      /\ todo' \in [Threads -> SUBSET Paths]
  BY DEF Types, Leave, Put
<1>2. pc' \in [Threads -> Labels]
  BY LabelTypes DEF Types, Leave, Goto, Put, Unbound
<1>3. pc'[t] = "idle" /\ fp'[t] = 0 /\ 0 < clock'
  BY DEF Types, Leave, Goto, Put
<1>4. Local(t)'
  BY <1>3, UnboundLocal DEF Unbound
<1>5. Alone(t)
  <2> SUFFICES ASSUME NEW u \in Threads \ {t}
               PROVE  SameLocals(u) /\ \A h \in Hashes : hashLock[h] = u => hashLock'[h] = u
    BY DEF Alone
  <2>1. SameLocals(u)
    BY DEF SameLocals, Types, Leave, Goto, Put
  <2>2. \A h \in Hashes : hashLock[h] = u => hashLock'[h] = u
    BY DEF Types, Leave
  <2> QED  BY <2>1, <2>2
<1> QED  BY <1>1, <1>2, <1>4, <1>5

-----------------------------------------------------------------------------
(* The steps of validate().                                                *)

LEMMA StatStep == ASSUME IInv, NEW t \in Threads, Stat(t) PROVE IInv'
<1>1. Types /\ Local(t) /\ DiskOK
  BY DEF IInv
<1>2. pc[t] = "stat" /\ at[t] \in Paths /\ goal[t] \in Goals
  BY <1>1 DEF Local, LooksSomewhere, Stat, Validating
<1>3. /\ UNCHANGED <<file, clock, kept, hashLock, results, newEntries, flushed>>
      /\ UNCHANGED <<persistent, db, loaded, flights, goal, want, at, todo>>
  BY DEF Stat, lockVars, memoryVars
<1>4. \/ /\ file[at[t]] = None /\ pc' = [pc EXCEPT ![t] = goal[t]]
         /\ verdict' = [verdict EXCEPT ![t] = FALSE] /\ fp' = fp
      \/ /\ file[at[t]] # None /\ pc' = [pc EXCEPT ![t] = "look"]
         /\ fp' = [fp EXCEPT ![t] = file[at[t]].fp] /\ verdict' = verdict
  BY DEF Stat, Return, Goto, Put
<1>5. file[at[t]] # None => file[at[t]].fp \in Nat /\ file[at[t]].fp < clock
  BY <1>1, <1>2 DEF Types, DiskOK, Versions
<1>6. Types'
  <2>1. pc' \in [Threads -> Labels]
    BY <1>1, <1>2, <1>4, LabelTypes DEF Types, Validating
  <2>2. fp' \in [Threads -> Nat] /\ verdict' \in [Threads -> BOOLEAN]
    BY <1>1, <1>4, <1>5 DEF Types
  <2> QED  BY <1>1, <1>3, <2>1, <2>2 DEF Types
<1>7. Alone(t)
  BY <1>1, <1>3, <1>4 DEF Types, Alone, SameLocals
<1>8. Quiet(t)
  BY <1>2, <1>3, <1>7 DEF Quiet
<1>9. Local(t)'
  <2>1. fp'[t] < clock'
    BY <1>1, <1>3, <1>4, <1>5 DEF Types, Local
  <2>2. PlacedAt(at[t])' <=> PlacedAt(at[t])
    BY <1>3 DEF PlacedAt
  <2>3. PlacedAt(at[t]) => file[at[t]] # None
    BY <1>1 DEF PlacedAt, DiskOK, StoredStays
  <2>4. CASE file[at[t]] = None
    <3>1. pc'[t] = goal[t] /\ ~PlacedAt(at[t])
      BY <1>1, <1>4, <2>3, <2>4 DEF Types
    <3>2. HoldsLock(t)' /\ LooksSomewhere(t)'
      BY <1>1, <1>2, <1>3, <3>1
         DEF Local, HoldsLock, LooksSomewhere, Storing, Goals, Validating
    <3>3. ReplacesNothing(t)' /\ LooksAtPlaced(t)'
      BY <1>2, <2>2, <3>1 DEF ReplacesNothing, LooksAtPlaced, Goals
    <3>4. VerdictTrue(t)'
      BY <1>3, <2>4 DEF VerdictTrue
    <3> QED  BY <2>1, <3>2, <3>3, <3>4 DEF Local
  <2>5. CASE file[at[t]] # None
    <3>1. pc'[t] = "look" /\ fp'[t] = file[at[t]].fp
      BY <1>1, <1>4, <2>5 DEF Types
    <3>2. HoldsLock(t)' /\ LooksSomewhere(t)'
      BY <1>1, <1>2, <1>3, <3>1
         DEF Local, HoldsLock, LooksSomewhere, Storing, Validating
    <3>3. ReplacesNothing(t)' /\ LooksAtPlaced(t)' /\ VerdictTrue(t)'
      BY <1>3, <3>1 DEF ReplacesNothing, LooksAtPlaced, VerdictTrue
    <3> QED  BY <2>1, <3>2, <3>3 DEF Local
  <2> QED  BY <2>4, <2>5
<1> QED  BY <1>6, <1>8, <1>9, QuietStep

LEMMA AwaitStep == ASSUME IInv, NEW t \in Threads, AwaitPreload(t) PROVE IInv'
<1>1. Types /\ Local(t)
  BY DEF IInv
<1>2. pc[t] = "await" /\ pc' = [pc EXCEPT ![t] = "stat"]
  BY DEF AwaitPreload, Goto, Put
<1>3. /\ UNCHANGED <<file, clock, kept, hashLock, results, newEntries, flushed>>
      /\ UNCHANGED <<persistent, db, loaded, flights, goal, want, at, fp, verdict, todo>>
  BY DEF AwaitPreload, lockVars, memoryVars
<1>4. Types'
  <2>1. pc' \in [Threads -> Labels]
    BY <1>1, <1>2, LabelTypes DEF Types, Validating
  <2> QED  BY <1>1, <1>3, <2>1 DEF Types
<1>5. Alone(t)
  BY <1>1, <1>2, <1>3 DEF Types, Alone, SameLocals
<1>6. Quiet(t)
  BY <1>2, <1>3, <1>5 DEF Quiet
<1>7. Local(t)'
  <2>1. pc'[t] = "stat"
    BY <1>1, <1>2 DEF Types
  <2>2. HoldsLock(t)' /\ LooksSomewhere(t)'
    BY <1>1, <1>2, <1>3, <2>1 DEF Local, HoldsLock, LooksSomewhere, Storing, Validating
  <2>3. ReplacesNothing(t)' /\ LooksAtPlaced(t)' /\ VerdictTrue(t)'
    BY <2>1 DEF ReplacesNothing, LooksAtPlaced, VerdictTrue, Compares
  <2>4. fp'[t] < clock'
    BY <1>1, <1>3 DEF Local
  <2> QED  BY <2>2, <2>3, <2>4 DEF Local
<1> QED  BY <1>4, <1>6, <1>7, QuietStep

LEMMA DecodeStep == ASSUME IInv, NEW t \in Threads, Decode(t) PROVE IInv'
<1>1. Types /\ Local(t)
  BY DEF IInv
<1>2. /\ pc[t] = "decode" /\ pc' = [pc EXCEPT ![t] = "decoded"]
      /\ verdict' = [verdict EXCEPT ![t] = Valid(file[at[t]])]
  BY DEF Decode, Goto, Put
<1>3. /\ UNCHANGED <<file, clock, kept, hashLock, results, newEntries, flushed>>
      /\ UNCHANGED <<persistent, db, loaded, flights, goal, want, at, fp, todo>>
  BY DEF Decode, lockVars, memoryVars
<1>4. Valid(file[at[t]]) \in BOOLEAN
  BY DEF Valid
<1>5. Types'
  <2>1. pc' \in [Threads -> Labels]
    BY <1>1, <1>2, LabelTypes DEF Types, Validating
  <2>2. verdict' \in [Threads -> BOOLEAN]
    BY <1>1, <1>2, <1>4 DEF Types
  <2> QED  BY <1>1, <1>3, <2>1, <2>2 DEF Types
<1>6. pc'[t] = "decoded" /\ verdict'[t] = Valid(file[at[t]])
  BY <1>1, <1>2 DEF Types
<1>7. Alone(t)
  BY <1>1, <1>2, <1>3 DEF Types, Alone, SameLocals
<1>8. Quiet(t)
  BY <1>3, <1>6, <1>7 DEF Quiet
<1>9. Local(t)'
  <2>1. HoldsLock(t)' /\ LooksSomewhere(t)'
    BY <1>1, <1>2, <1>3, <1>6 DEF Local, HoldsLock, LooksSomewhere, Storing, Validating
  <2>2. PlacedAt(at[t])' <=> PlacedAt(at[t])
    BY <1>3 DEF PlacedAt
  <2>3. ReplacesNothing(t)' /\ LooksAtPlaced(t)'
    BY <1>1, <1>2, <1>3, <1>6, <2>2 DEF Local, ReplacesNothing, LooksAtPlaced, Compares
  <2>4. VerdictTrue(t)'
    BY <1>3, <1>6 DEF VerdictTrue
  <2>5. fp'[t] < clock'
    BY <1>1, <1>3 DEF Local
  <2> QED  BY <2>1, <2>3, <2>4, <2>5 DEF Local
<1> QED  BY <1>5, <1>8, <1>9, QuietStep

LEMMA LookStep == ASSUME IInv, NEW t \in Threads, Look(t) PROVE IInv'
<1>1. Types /\ Local(t) /\ DiskOK /\ MemoryOK /\ FlightsOK
  BY DEF IInv
<1>2. pc[t] = "look" /\ at[t] \in Paths /\ goal[t] \in Goals /\ fp[t] \in Nat
  BY <1>1 DEF Local, LooksSomewhere, Look, Validating, Types
<1>3. /\ UNCHANGED <<file, clock, kept, hashLock, newEntries, flushed>>
      /\ UNCHANGED <<persistent, db, loaded, goal, want, at, fp, todo>>
  BY DEF Look, lockVars
<1>4. \/ \E r \in Remembered(t) : /\ pc' = [pc EXCEPT ![t] = goal[t]]
                                  /\ verdict' = [verdict EXCEPT ![t] = r.valid]
                                  /\ results' = results /\ flights' = flights
      \/ /\ pc' = [pc EXCEPT ![t] = "await"]
         /\ verdict' = verdict /\ results' = results /\ flights' = flights
      \/ /\ StoredMatches(t) /\ flights' = flights
         /\ pc' = [pc EXCEPT ![t] = goal[t]]
         /\ verdict' = [verdict EXCEPT ![t] = persistent[at[t]].valid]
         /\ results' = results \union {Entry(at[t], fp[t], persistent[at[t]].valid)}
      \/ /\ pc' = [pc EXCEPT ![t] = "follow"]
         /\ verdict' = verdict /\ results' = results /\ flights' = flights
      \/ /\ pc' = [pc EXCEPT ![t] = "decode"]
         /\ verdict' = verdict /\ results' = results
         /\ flights' = flights \union {Flight(t)}
  BY DEF Look, Return, Goto, Put
\* An answer is a known entry about the fingerprint of the thread.
<1>5. \/ \E e \in Known : /\ e.path = at[t] /\ e.fp = fp[t]
                          /\ pc' = [pc EXCEPT ![t] = goal[t]]
                          /\ verdict' = [verdict EXCEPT ![t] = e.valid]
                          /\ results' \in {results, results \union {e}}
                          /\ flights' = flights
      \/ \E l \in {"await", "follow", "decode"} :
           /\ pc' = [pc EXCEPT ![t] = l] /\ verdict' = verdict /\ results' = results
           /\ \/ flights' = flights
              \/ l = "decode" /\ flights' = flights \union {Flight(t)}
  <2>1. CASE \E r \in Remembered(t) : /\ pc' = [pc EXCEPT ![t] = goal[t]]
                                      /\ verdict' = [verdict EXCEPT ![t] = r.valid]
                                      /\ results' = results /\ flights' = flights
    BY <2>1, KnownMembers DEF Remembered
  <2>2. CASE /\ StoredMatches(t) /\ flights' = flights
             /\ pc' = [pc EXCEPT ![t] = goal[t]]
             /\ verdict' = [verdict EXCEPT ![t] = persistent[at[t]].valid]
             /\ results' = results \union {Entry(at[t], fp[t], persistent[at[t]].valid)}
    <3> DEFINE e == persistent[at[t]]
    <3>1. e \in Known /\ e \in Entries /\ e.path = at[t] /\ e.fp = fp[t]
      BY <1>1, <1>2, <2>2, KnownMembers DEF StoredMatches, DiskOK, Types
    <3>2. Entry(at[t], fp[t], e.valid) = e
      BY <3>1 DEF Entry, Entries
    <3> QED  BY <2>2, <3>1, <3>2
  <2> QED  BY <1>4, <2>1, <2>2
<1>6. Known' = Known \/ \E e \in Known : Known' = Known \union {e}
  <2>1. CASE results' = results
    BY <1>3, <2>1 DEF Known
  <2>2. ASSUME NEW e \in Known, results' = results \union {e}
        PROVE  Known' = Known \union {e}
    BY <1>3, <2>2 DEF Known
  <2> QED  BY <1>5, <2>1, <2>2
<1>7. \A e \in Known : e \in Entries /\ TrueNow(e)
  BY <1>1 DEF MemoryOK
<1>8. Types'
  <2>1. pc' \in [Threads -> Labels]
    BY <1>1, <1>2, <1>5, LabelTypes DEF Types, Validating
  <2>2. verdict' \in [Threads -> BOOLEAN] /\ results' \subseteq Entries
    BY <1>1, <1>5, <1>7 DEF Types, Entries
  <2> QED  BY <1>1, <1>3, <2>1, <2>2 DEF Types
<1>9. FilesMove /\ DiskOK'
  BY <1>1, <1>3, FilesRest, DiskRests
<1>10. MemoryOK'
  BY <1>6, <1>9, MemoryFrame
<1>11. Alone(t)
  BY <1>1, <1>3, <1>5 DEF Types, Alone, SameLocals
<1>12. FlightsOK'
  <2>1. \A f \in flights : \E w \in Threads : pc'[w] \in {"decode", "decoded"} /\ Flight(w)' = f
    <3> SUFFICES ASSUME NEW f \in flights
                 PROVE  \E w \in Threads : pc'[w] \in {"decode", "decoded"} /\ Flight(w)' = f
      OBVIOUS
    <3>1. PICK w \in Threads : pc[w] \in {"decode", "decoded"} /\ Flight(w) = f
      BY <1>1 DEF FlightsOK
    <3> QED  BY <1>2, <1>11, <3>1 DEF Alone, SameLocals, Flight
  <2>2. flights' # flights => /\ flights' = flights \union {Flight(t)}
                              /\ pc'[t] = "decode" /\ Flight(t)' = Flight(t)
    BY <1>1, <1>3, <1>5 DEF Types, Flight
  <2> QED  BY <2>1, <2>2 DEF FlightsOK
<1>13. Local(t)'
  <2>1. fp'[t] < clock'
    BY <1>1, <1>3 DEF Local
  <2>2. PlacedAt(at[t])' <=> PlacedAt(at[t])
    BY <1>3 DEF PlacedAt
  <2>3. CASE pc'[t] = goal[t] /\ \E e \in Known : /\ e.path = at[t] /\ e.fp = fp[t]
                                                  /\ verdict'[t] = e.valid
    <3>1. HoldsLock(t)' /\ LooksSomewhere(t)'
      BY <1>1, <1>2, <1>3, <2>3
         DEF Local, HoldsLock, LooksSomewhere, Storing, Goals, Validating
    <3>2. ReplacesNothing(t)' /\ LooksAtPlaced(t)'
      BY <1>1, <1>2, <1>3, <2>2, <2>3
         DEF Local, ReplacesNothing, LooksAtPlaced, Compares, Goals
    <3>3. VerdictTrue(t)'
      BY <1>3, <1>7, <2>3 DEF VerdictTrue, TrueNow
    <3> QED  BY <2>1, <3>1, <3>2, <3>3 DEF Local
  <2>4. CASE pc'[t] \in {"await", "follow", "decode"}
    <3>1. HoldsLock(t)' /\ LooksSomewhere(t)'
      BY <1>1, <1>2, <1>3, <2>4
         DEF Local, HoldsLock, LooksSomewhere, Storing, Goals, Validating
    <3>2. ReplacesNothing(t)' /\ LooksAtPlaced(t)' /\ VerdictTrue(t)'
      BY <1>1, <1>2, <1>3, <2>2, <2>4
         DEF Local, ReplacesNothing, LooksAtPlaced, Compares, VerdictTrue
    <3> QED  BY <2>1, <3>1, <3>2 DEF Local
  <2> QED  BY <1>1, <1>5, <2>3, <2>4 DEF Types
<1>14. OthersRest(t)
  BY <1>3, <1>11, AloneRest
<1> QED  BY <1>8, <1>9, <1>10, <1>12, <1>13, <1>14, OwnStep

LEMMA LeaveStep ==
  ASSUME IInv, NEW t \in Threads, Leave(t), pc[t] \notin {"decode", "decoded"},
         UNCHANGED <<file, clock, kept, memoryVars, db>>
  PROVE  IInv'
<1>1. Types
  BY DEF IInv
<1>2. /\ UNCHANGED <<file, clock, kept, results, newEntries, flushed>>
      /\ UNCHANGED <<persistent, db, loaded, flights>>
  BY DEF memoryVars
<1>3. clock' \in Nat \ {0}
  BY <1>1, <1>2 DEF Types
<1>4. Alone(t) /\ Local(t)'
  BY <1>1, <1>3, LeaveFacts
<1>5. Types'
  BY <1>1, <1>2, <1>3, LeaveFacts DEF Types
<1>6. Quiet(t)
  BY <1>2, <1>4 DEF Quiet
<1> QED  BY <1>4, <1>5, <1>6, QuietStep

LEMMA RaiseStep == ASSUME IInv, NEW t \in Threads, Raise(t) PROVE IInv'
  BY LeaveStep DEF Raise

LEMMA FinishStoreStep == ASSUME IInv, NEW t \in Threads, FinishStore(t) PROVE IInv'
  BY LeaveStep DEF FinishStore

LEMMA AnswerStep == ASSUME IInv, NEW t \in Threads, Answer(t) PROVE IInv'
  BY LeaveStep DEF Answer

\* A validation that ends takes its followers along.
Group(t) == Followers(t) \union {t}

LEMMA GroupFacts ==
  ASSUME IInv, NEW t \in Threads, pc[t] \in {"decode", "decoded"}, NEW u \in Group(t)
  PROVE  /\ u \in Threads /\ pc[u] \in {"follow", pc[t]}
         /\ at[u] = at[t] /\ fp[u] = fp[t] /\ goal[u] \in Goals
<1>1. u \in Threads /\ pc[u] \in {"follow", pc[t]} /\ at[u] = at[t] /\ fp[u] = fp[t]
  BY DEF Group, Followers, Flight
<1>2. Local(u)
  BY <1>1 DEF IInv
<1> QED  BY <1>1, <1>2 DEF Local, LooksSomewhere, Validating

LEMMA LandFlights ==
  ASSUME IInv, NEW t \in Threads, pc[t] \in {"decode", "decoded"},
         flights' = flights \ {Flight(t)},
         \A w \in Threads \ Group(t) : SameLocals(w)
  PROVE  FlightsOK'
<1> SUFFICES ASSUME NEW f \in flights \ {Flight(t)}
             PROVE  \E w \in Threads : pc'[w] \in {"decode", "decoded"} /\ Flight(w)' = f
  BY DEF FlightsOK
<1>1. PICK w \in Threads : pc[w] \in {"decode", "decoded"} /\ Flight(w) = f
  BY DEF IInv, FlightsOK
<1>2. w \notin Group(t)
  BY <1>1 DEF Group, Followers
<1>3. SameLocals(w)
  BY <1>2
<1> QED  BY <1>1, <1>3 DEF SameLocals, Flight

LEMMA RecordStep == ASSUME IInv, NEW t \in Threads, Record(t) PROVE IInv'
<1>1. Types /\ Local(t) /\ DiskOK /\ MemoryOK
  BY DEF IInv
<1>2. pc[t] = "decoded" /\ at[t] \in Paths /\ fp[t] \in Nat /\ verdict[t] \in BOOLEAN
  BY <1>1 DEF Local, LooksSomewhere, Record, Validating, Types
<1>3. /\ UNCHANGED <<file, clock, kept, hashLock, flushed>>
      /\ UNCHANGED <<persistent, db, loaded, goal, want, at, fp, todo>>
  BY DEF Record, lockVars
<1>4. /\ flights' = flights \ {Flight(t)}
      /\ pc' = [u \in Threads |-> IF u \notin Group(t) THEN pc[u]
                                  ELSE IF Unchanged(t) THEN goal[u] ELSE "stat"]
      /\ verdict' = [u \in Threads |-> IF u \in Group(t) THEN verdict[t] ELSE verdict[u]]
  BY DEF Record, Land, Group
<1>5. \A u \in Group(t) : /\ u \in Threads /\ pc[u] \in {"follow", "decoded"}
                          /\ at[u] = at[t] /\ fp[u] = fp[t] /\ goal[u] \in Goals
  BY <1>2, GroupFacts
<1>6. file[at[t]] # None /\ file[at[t]].fp = fp[t] => verdict[t] = Valid(file[at[t]])
  BY <1>1, <1>2 DEF Local, VerdictTrue
<1>a. PICK e : e = Entry(at[t], fp[t], verdict[t])
  OBVIOUS
<1>7. e \in Entries /\ e.path = at[t] /\ e.fp = fp[t] /\ e.valid = verdict[t]
  BY <1>2, <1>a DEF Entries, Entry
<1>8. \/ results' = results /\ newEntries' = newEntries
      \/ results' = results \union {e} /\ newEntries' = newEntries \union {e}
  BY <1>a DEF Record
<1>9. Types'
  <2>1. pc' \in [Threads -> Labels] /\ verdict' \in [Threads -> BOOLEAN]
    BY <1>1, <1>2, <1>4, <1>5, LabelTypes DEF Types, Validating
  <2>2. results' \subseteq Entries /\ newEntries' \subseteq Entries
    BY <1>1, <1>7, <1>8 DEF Types
  <2> QED  BY <1>1, <1>3, <2>1, <2>2 DEF Types
<1>10. FilesMove /\ DiskOK'
  BY <1>1, <1>3, FilesRest, DiskRests
<1>11. MemoryOK'
  <2>1. Known' \subseteq Known \union {e}
    BY <1>3, <1>8 DEF Known
  <2>2. TrueNow(e)'
    BY <1>3, <1>6, <1>7 DEF TrueNow
  <2>3. e.fp < clock'
    BY <1>1, <1>3, <1>7 DEF Local
  <2> QED  BY <1>7, <1>10, <2>1, <2>2, <2>3, MemoryFrame
<1>12. \A u \in Threads \ Group(t) : SameLocals(u)
  BY <1>3, <1>4 DEF SameLocals
<1>13. FlightsOK'
  BY <1>2, <1>4, <1>12, LandFlights
<1>14. ASSUME NEW u \in Group(t) PROVE Local(u)'
  <2>1. /\ u \in Threads /\ pc[u] \in {"follow", "decoded"} /\ at[u] = at[t]
        /\ fp[u] = fp[t] /\ goal[u] \in Goals
    BY <1>5, <1>14
  <2>2. Local(u) /\ verdict'[u] = verdict[t]
    BY <1>4, <1>14, <2>1 DEF IInv
  <2>3. pc'[u] \in {goal[u], "stat"}
    BY <1>4, <1>14, <2>1
  <2>4. HoldsLock(u)' /\ LooksSomewhere(u)'
    BY <1>2, <1>3, <2>1, <2>2, <2>3
       DEF Local, HoldsLock, LooksSomewhere, Storing, Goals, Validating
  <2>5. PlacedAt(at[u])' <=> PlacedAt(at[u])
    BY <1>3 DEF PlacedAt
  <2>6. ReplacesNothing(u)' /\ LooksAtPlaced(u)'
    BY <1>3, <2>1, <2>2, <2>3, <2>5
       DEF Local, ReplacesNothing, LooksAtPlaced, Compares, Goals
  <2>7. VerdictTrue(u)'
    BY <1>3, <1>6, <2>1, <2>2 DEF VerdictTrue
  <2>8. fp'[u] < clock'
    BY <1>3, <2>2 DEF Local
  <2> QED  BY <2>4, <2>6, <2>7, <2>8 DEF Local
<1>15. ASSUME NEW u \in Threads \ Group(t) PROVE Local(u)'
  <2>1. SameLocals(u) /\ Undisturbed(u)
    BY <1>3, <1>12, <1>15 DEF Undisturbed, PlacedAt, PlacedLater
  <2> QED  BY <1>10, <2>1, LocalFrame
<1> QED  BY <1>9, <1>10, <1>11, <1>13, <1>14, <1>15 DEF IInv

LEMMA DecodeRaisesStep == ASSUME IInv, NEW t \in Threads, DecodeRaises(t) PROVE IInv'
<1>1. Types /\ DiskOK
  BY DEF IInv
<1>2. pc[t] = "decode" /\ flights' = flights \ {Flight(t)}
  BY DEF DecodeRaises, EndFlight
<1>3. pc' = [u \in Threads |-> IF u \in Group(t) THEN "raise" ELSE pc[u]]
  BY DEF DecodeRaises, Group
<1>4. /\ UNCHANGED <<file, clock, kept, hashLock, results, newEntries, flushed>>
      /\ UNCHANGED <<persistent, db, loaded, goal, want, at, fp, verdict, todo>>
  BY DEF DecodeRaises, lockVars
<1>5. Types'
  <2>1. pc' \in [Threads -> Labels]
    BY <1>1, <1>3, LabelTypes DEF Types, Unbound
  <2> QED  BY <1>1, <1>4, <2>1 DEF Types
<1>6. FilesMove /\ DiskOK' /\ MemoryOK'
  BY <1>1, <1>4, FilesRest, DiskRests, MemoryRests
<1>7. \A u \in Threads \ Group(t) : SameLocals(u)
  BY <1>3, <1>4 DEF SameLocals
<1>8. FlightsOK'
  BY <1>2, <1>7, LandFlights
<1>9. ASSUME NEW u \in Threads PROVE Local(u)'
  <2>1. CASE u \in Group(t)
    <3>1. Local(u) /\ pc'[u] = "raise" /\ fp'[u] < clock'
      BY <1>3, <1>4, <2>1 DEF IInv, Local
    <3> QED  BY <3>1, UnboundLocal DEF Unbound
  <2>2. CASE u \notin Group(t)
    <3>1. SameLocals(u) /\ Undisturbed(u)
      BY <1>4, <1>7, <2>2 DEF Undisturbed, PlacedAt, PlacedLater
    <3> QED  BY <1>6, <3>1, LocalFrame
  <2> QED  BY <2>1, <2>2
<1> QED  BY <1>5, <1>6, <1>8, <1>9 DEF IInv

-----------------------------------------------------------------------------
(* The steps of a store worker.                                            *)

LEMMA StartStoreStep ==
  ASSUME IInv, NEW t \in Threads, NEW c \in Contents, StartStore(t, c)
  PROVE  IInv'
<1>1. Types /\ Local(t)
  BY DEF IInv
<1>2. /\ pc[t] = "idle" /\ pc' = [pc EXCEPT ![t] = "lock"]
      /\ want' = [want EXCEPT ![t] = c] /\ at' = [at EXCEPT ![t] = <<HashOf[c], 0>>]
  BY DEF StartStore, Goto, Put
<1>3. /\ UNCHANGED <<file, clock, kept, hashLock, results, newEntries, flushed>>
      /\ UNCHANGED <<persistent, db, loaded, flights, goal, fp, verdict, todo>>
  BY DEF StartStore, lockVars, memoryVars
<1>4. <<HashOf[c], 0>> \in Paths
  BY DEF Paths
<1>5. Types'
  <2>1. pc' \in [Threads -> Labels]
    BY <1>1, <1>2, LabelTypes DEF Types
  <2>2. want' \in [Threads -> Contents \union {None}] /\ at' \in [Threads -> Paths \union {None}]
    BY <1>1, <1>2, <1>4 DEF Types
  <2> QED  BY <1>1, <1>3, <2>1, <2>2 DEF Types
<1>6. Alone(t)
  BY <1>1, <1>2, <1>3 DEF Types, Alone, SameLocals
<1>7. Quiet(t)
  BY <1>2, <1>3, <1>6 DEF Quiet
<1>8. Local(t)'
  <2>1. pc'[t] = "lock" /\ want'[t] \in Contents /\ at'[t] \in Paths
    BY <1>1, <1>2, <1>4 DEF Types
  <2>2. HoldsLock(t)' /\ LooksSomewhere(t)'
    BY <2>1 DEF HoldsLock, LooksSomewhere, Storing, Validating
  <2>3. ReplacesNothing(t)' /\ LooksAtPlaced(t)' /\ VerdictTrue(t)'
    BY <2>1 DEF ReplacesNothing, LooksAtPlaced, VerdictTrue, Compares
  <2>4. fp'[t] < clock'
    BY <1>1, <1>3 DEF Local
  <2> QED  BY <2>2, <2>3, <2>4 DEF Local
<1> QED  BY <1>5, <1>7, <1>8, QuietStep

LEMMA LockStep == ASSUME IInv, NEW t \in Threads, Lock(t) PROVE IInv'
<1>1. Types /\ Local(t)
  BY DEF IInv
<1>2. /\ pc[t] = "lock" /\ pc' = [pc EXCEPT ![t] = "exists"]
      /\ hashLock[at[t][1]] = None /\ hashLock' = [hashLock EXCEPT ![at[t][1]] = t]
  BY DEF Lock, Free, Goto, Put
<1>3. /\ UNCHANGED <<file, clock, kept, results, newEntries, flushed>>
      /\ UNCHANGED <<persistent, db, loaded, flights, goal, want, at, fp, verdict, todo>>
  BY DEF Lock, memoryVars
<1>4. want[t] \in Contents /\ at[t] \in Paths /\ at[t][1] \in Hashes
  BY <1>1, <1>2 DEF Local, HoldsLock, Paths
<1>5. Types'
  <2>1. pc' \in [Threads -> Labels] /\ hashLock' \in [Hashes -> Threads \union {None}]
    BY <1>1, <1>2, LabelTypes DEF Types
  <2> QED  BY <1>1, <1>3, <2>1 DEF Types
<1>6. Alone(t)
  <2> SUFFICES ASSUME NEW u \in Threads \ {t}
               PROVE  SameLocals(u) /\ \A h \in Hashes : hashLock[h] = u => hashLock'[h] = u
    BY DEF Alone
  <2>1. SameLocals(u)
    BY <1>1, <1>2, <1>3 DEF Types, SameLocals
  <2>2. \A h \in Hashes : hashLock[h] = u => hashLock'[h] = u
    BY <1>1, <1>2, FilesAssumption DEF Types
  <2> QED  BY <2>1, <2>2
<1>7. Quiet(t)
  BY <1>2, <1>3, <1>6 DEF Quiet
<1>8. Local(t)'
  <2>1. pc'[t] = "exists" /\ hashLock'[at[t][1]] = t
    BY <1>1, <1>2, <1>4 DEF Types
  <2>2. HoldsLock(t)' /\ LooksSomewhere(t)'
    BY <1>3, <1>4, <2>1 DEF HoldsLock, LooksSomewhere, Storing, Validating
  <2>3. ReplacesNothing(t)' /\ LooksAtPlaced(t)' /\ VerdictTrue(t)'
    BY <2>1 DEF ReplacesNothing, LooksAtPlaced, VerdictTrue, Compares
  <2>4. fp'[t] < clock'
    BY <1>1, <1>3 DEF Local
  <2> QED  BY <2>2, <2>3, <2>4 DEF Local
<1> QED  BY <1>5, <1>7, <1>8, QuietStep

\* A name is free, or its file is asked about.
LEMMA ExistsStep == ASSUME IInv, NEW t \in Threads, Exists(t) PROVE IInv'
<1>1. Types /\ Local(t) /\ DiskOK
  BY DEF IInv
<1>2. /\ pc[t] = "exists"
      /\ \/ /\ file[at[t]] = None /\ pc' = [pc EXCEPT ![t] = "target"] /\ goal' = goal
         \/ /\ pc' = [pc EXCEPT ![t] = "stat"] /\ goal' = [goal EXCEPT ![t] = "compare"]
  BY DEF Exists, Validate, Goto, Put
<1>3. /\ UNCHANGED <<file, clock, kept, hashLock, results, newEntries, flushed>>
      /\ UNCHANGED <<persistent, db, loaded, flights, want, at, fp, verdict, todo>>
  BY DEF Exists, lockVars, memoryVars
<1>4. want[t] \in Contents /\ at[t] \in Paths /\ hashLock[at[t][1]] = t
  BY <1>1, <1>2 DEF Local, HoldsLock, Storing
<1>5. Types'
  <2>1. pc' \in [Threads -> Labels] /\ goal' \in [Threads -> Goals \union {"idle"}]
    BY <1>1, <1>2, LabelTypes DEF Types, Validating, Goals
  <2> QED  BY <1>1, <1>3, <2>1 DEF Types
<1>6. Alone(t)
  BY <1>1, <1>2, <1>3 DEF Types, Alone, SameLocals
<1>7. Quiet(t)
  BY <1>2, <1>3, <1>6 DEF Quiet
<1>8. Local(t)'
  <2>1. \/ pc'[t] = "target" /\ file[at[t]] = None
        \/ pc'[t] = "stat" /\ goal'[t] = "compare"
    BY <1>1, <1>2 DEF Types
  <2>2. HoldsLock(t)' /\ LooksSomewhere(t)'
    BY <1>3, <1>4, <2>1 DEF HoldsLock, LooksSomewhere, Validating, Goals
  <2>3. PlacedAt(at[t])' <=> PlacedAt(at[t])
    BY <1>3 DEF PlacedAt
  <2>4. PlacedAt(at[t]) => file[at[t]] # None
    BY <1>1 DEF PlacedAt, DiskOK, StoredStays
  <2>5. ReplacesNothing(t)'
    BY <2>1, <2>3, <2>4 DEF ReplacesNothing
  <2>6. LooksAtPlaced(t)' /\ VerdictTrue(t)'
    BY <2>1 DEF LooksAtPlaced, VerdictTrue, Compares
  <2>7. fp'[t] < clock'
    BY <1>1, <1>3 DEF Local
  <2> QED  BY <2>2, <2>5, <2>6, <2>7 DEF Local
<1> QED  BY <1>5, <1>7, <1>8, QuietStep

\* Nothing was placed where a worker finds no valid file.
LEMMA CompareStep == ASSUME IInv, NEW t \in Threads, Compare(t) PROVE IInv'
<1>1. Types /\ Local(t) /\ DiskOK /\ FlightsOK
  BY DEF IInv
<1>2. pc[t] = "compare"
  BY DEF Compare
<1>3. /\ UNCHANGED <<file, clock, hashLock, results, newEntries, flushed>>
      /\ UNCHANGED <<persistent, db, loaded, flights, goal, want, fp, verdict, todo>>
  BY DEF Compare, lockVars, memoryVars
<1>4. want[t] \in Contents /\ at[t] \in Paths /\ hashLock[at[t][1]] = t
  BY <1>1, <1>2 DEF Local, HoldsLock, Storing
<1>5. \/ ~verdict[t] /\ pc' = [pc EXCEPT ![t] = "target"] /\ at' = at /\ kept' = kept
      \/ /\ SameContent(t) /\ pc' = [pc EXCEPT ![t] = "stored"] /\ at' = at
         /\ kept' = kept \union {<<at[t], want[t]>>}
      \/ /\ at[t][2] < MaxIndex /\ pc' = [pc EXCEPT ![t] = "exists"] /\ kept' = kept
         /\ at' = [at EXCEPT ![t] = <<at[t][1], at[t][2] + 1>>]
      \/ pc' = [pc EXCEPT ![t] = "raise"] /\ at' = at /\ kept' = kept
  BY DEF Compare, Goto, Put
<1>6. at[t][2] < MaxIndex => <<at[t][1], at[t][2] + 1>> \in Paths
  BY <1>4, FilesAssumption DEF Paths
<1>7. PlacedAt(at[t]) => verdict[t] = TRUE
  <2> SUFFICES ASSUME NEW k \in kept, k[1] = at[t] PROVE verdict[t] = TRUE
    BY DEF PlacedAt
  <2>1. file[at[t]] # None /\ file[at[t]].content = k[2] /\ k[2] \in Contents
    BY <1>1 DEF Types, DiskOK, StoredStays
  <2>2. Valid(file[at[t]]) = TRUE
    BY <2>1, FilesAssumption DEF Valid
  <2>3. file[at[t]].fp = fp[t]
    BY <1>1, <1>2 DEF Local, LooksAtPlaced, Compares, PlacedAt
  <2> QED  BY <1>1, <1>2, <2>1, <2>2, <2>3 DEF Local, VerdictTrue
<1>8. Types'
  <2>1. pc' \in [Threads -> Labels]
    BY <1>1, <1>5, LabelTypes DEF Types, Unbound
  <2>2. at' \in [Threads -> Paths \union {None}] /\ kept' \subseteq Paths \X Contents
    BY <1>1, <1>4, <1>5, <1>6 DEF Types
  <2> QED  BY <1>1, <1>3, <2>1, <2>2 DEF Types
<1>9. FilesMove /\ MemoryOK'
  BY <1>1, <1>3, FilesRest, MemoryRests
<1>10. DiskOK'
  <2>1. StoredStays'
    BY <1>1, <1>3, <1>5 DEF DiskOK, StoredStays, SameContent
  <2> QED  BY <1>1, <1>3, <2>1 DEF DiskOK
<1>11. Alone(t)
  BY <1>1, <1>3, <1>5 DEF Types, Alone, SameLocals
<1>12. FlightsOK'
  BY <1>1, <1>2, <1>3, <1>11, QuietFlights
<1>13. OthersRest(t)
  <2>1. \A p \in Paths : hashLock[p[1]] # t /\ PlacedLater(p) => PlacedAt(p)
    BY <1>4, <1>5 DEF PlacedLater, PlacedAt
  <2> QED  BY <1>3, <1>11, <2>1 DEF OthersRest, Alone, Undisturbed
<1>14. Local(t)'
  <2>1. fp'[t] < clock'
    BY <1>1, <1>3 DEF Local
  <2>2. CASE pc'[t] = "raise"
    BY <2>1, <2>2, UnboundLocal DEF Unbound
  <2>3. CASE /\ pc'[t] \in {"target", "stored", "exists"} /\ at'[t] \in Paths
             /\ hashLock'[at'[t][1]] = t
             /\ pc'[t] = "target" => ~verdict[t] /\ at' = at /\ kept' = kept
    <3>1. HoldsLock(t)' /\ LooksSomewhere(t)'
      BY <1>3, <1>4, <2>3 DEF HoldsLock, LooksSomewhere, Validating
    <3>2. pc'[t] = "target" => (PlacedAt(at[t])' <=> PlacedAt(at[t]))
      BY <2>3 DEF PlacedAt
    <3>3. ReplacesNothing(t)'
      BY <1>7, <2>3, <3>2 DEF ReplacesNothing
    <3>4. LooksAtPlaced(t)' /\ VerdictTrue(t)'
      BY <2>3 DEF LooksAtPlaced, VerdictTrue, Compares
    <3> QED  BY <2>1, <3>1, <3>3, <3>4 DEF Local
  <2>4. \/ pc'[t] = "raise"
        \/ /\ pc'[t] \in {"target", "stored", "exists"} /\ at'[t] \in Paths
           /\ hashLock'[at'[t][1]] = t
           /\ pc'[t] = "target" => ~verdict[t] /\ at' = at /\ kept' = kept
    BY <1>1, <1>3, <1>4, <1>5, <1>6 DEF Types
  <2> QED  BY <2>2, <2>3, <2>4
<1> QED  BY <1>8, <1>9, <1>10, <1>12, <1>13, <1>14, OwnStep

LEMMA InvalidateStep == ASSUME IInv, NEW t \in Threads, Invalidate(t) PROVE IInv'
<1>1. Types /\ Local(t) /\ DiskOK /\ FlightsOK
  BY DEF IInv
<1>2. pc[t] = "target" /\ \E l \in {"place", "delete"} : pc' = [pc EXCEPT ![t] = l]
  BY DEF Invalidate, Goto, Put
<1>3. /\ UNCHANGED <<file, clock, kept, hashLock, newEntries, flushed>>
      /\ UNCHANGED <<db, loaded, flights, goal, want, at, fp, verdict, todo>>
  BY DEF Invalidate, lockVars
<1>4. results' \subseteq results /\ persistent' \in {persistent, [persistent EXCEPT ![at[t]] = None]}
  BY DEF Invalidate, Put
<1>5. want[t] \in Contents /\ at[t] \in Paths /\ hashLock[at[t][1]] = t /\ ~PlacedAt(at[t])
  BY <1>1, <1>2 DEF Local, HoldsLock, Storing, ReplacesNothing
<1>6. \A p \in Paths : persistent'[p] \in {persistent[p], None}
  BY <1>1, <1>4 DEF Types
<1>7. Types'
  <2>1. pc' \in [Threads -> Labels]
    BY <1>1, <1>2, LabelTypes DEF Types
  <2>2. persistent' \in [Paths -> Entries \union {None}] /\ results' \subseteq Entries
    BY <1>1, <1>4 DEF Types
  <2> QED  BY <1>1, <1>3, <2>1, <2>2 DEF Types
<1>8. FilesMove
  BY <1>1, <1>3, FilesRest
<1>9. Known' \subseteq Known
  BY <1>3, <1>4, <1>6 DEF Known
<1>10. MemoryOK'
  BY <1>8, <1>9, MemoryFrame
<1>11. DiskOK'
  <2>1. StoredStays'
    BY <1>1, <1>3 DEF DiskOK, StoredStays
  <2> QED  BY <1>1, <1>3, <1>6, <2>1 DEF DiskOK
<1>12. Alone(t)
  BY <1>1, <1>2, <1>3 DEF Types, Alone, SameLocals
<1>13. FlightsOK' /\ OthersRest(t)
  BY <1>1, <1>2, <1>3, <1>12, QuietFlights, AloneRest
<1>14. Local(t)'
  <2>1. pc'[t] \in {"place", "delete"}
    BY <1>1, <1>2 DEF Types
  <2>2. HoldsLock(t)' /\ LooksSomewhere(t)'
    BY <1>3, <1>5, <2>1 DEF HoldsLock, LooksSomewhere, Validating
  <2>3. ~PlacedAt(at[t])'
    BY <1>3, <1>5 DEF PlacedAt
  <2>4. ReplacesNothing(t)' /\ LooksAtPlaced(t)' /\ VerdictTrue(t)'
    BY <2>1, <2>3 DEF ReplacesNothing, LooksAtPlaced, VerdictTrue, Compares
  <2>5. fp'[t] < clock'
    BY <1>1, <1>3 DEF Local
  <2> QED  BY <2>2, <2>4, <2>5 DEF Local
<1> QED  BY <1>7, <1>8, <1>10, <1>11, <1>13, <1>14, OwnStep

LEMMA DeleteEntryStep == ASSUME IInv, NEW t \in Threads, DeleteEntry(t) PROVE IInv'
<1>1. Types /\ Local(t) /\ DiskOK /\ FlightsOK
  BY DEF IInv
<1>2. pc[t] = "delete" /\ pc' = [pc EXCEPT ![t] = "place"]
  BY DEF DeleteEntry, Goto, Put
<1>3. /\ UNCHANGED <<file, clock, kept, hashLock, results, newEntries, flushed>>
      /\ UNCHANGED <<persistent, loaded, flights, goal, want, at, fp, verdict, todo>>
  BY DEF DeleteEntry, lockVars, memoryVars
<1>4. db' \in {db, [db EXCEPT ![at[t]] = None]}
  BY DEF DeleteEntry, Put
<1>5. want[t] \in Contents /\ at[t] \in Paths /\ hashLock[at[t][1]] = t /\ ~PlacedAt(at[t])
  BY <1>1, <1>2 DEF Local, HoldsLock, Storing, ReplacesNothing
<1>6. \A p \in Paths : db'[p] \in {db[p], None}
  BY <1>1, <1>4 DEF Types
<1>7. Types'
  <2>1. pc' \in [Threads -> Labels]
    BY <1>1, <1>2, LabelTypes DEF Types
  <2>2. db' \in [Paths -> Entries \union {None}]
    BY <1>1, <1>4 DEF Types
  <2> QED  BY <1>1, <1>3, <2>1, <2>2 DEF Types
<1>8. FilesMove
  BY <1>1, <1>3, FilesRest
<1>9. Known' \subseteq Known
  BY <1>3, <1>6 DEF Known
<1>10. MemoryOK'
  BY <1>8, <1>9, MemoryFrame
<1>11. DiskOK'
  <2>1. StoredStays'
    BY <1>1, <1>3 DEF DiskOK, StoredStays
  <2> QED  BY <1>1, <1>3, <1>6, <2>1 DEF DiskOK
<1>12. Alone(t)
  BY <1>1, <1>2, <1>3 DEF Types, Alone, SameLocals
<1>13. FlightsOK' /\ OthersRest(t)
  BY <1>1, <1>2, <1>3, <1>12, QuietFlights, AloneRest
<1>14. Local(t)'
  <2>1. pc'[t] = "place"
    BY <1>1, <1>2 DEF Types
  <2>2. HoldsLock(t)' /\ LooksSomewhere(t)'
    BY <1>3, <1>5, <2>1 DEF HoldsLock, LooksSomewhere, Validating
  <2>3. ~PlacedAt(at[t])'
    BY <1>3, <1>5 DEF PlacedAt
  <2>4. ReplacesNothing(t)' /\ LooksAtPlaced(t)' /\ VerdictTrue(t)'
    BY <2>1, <2>3 DEF ReplacesNothing, LooksAtPlaced, VerdictTrue, Compares
  <2>5. fp'[t] < clock'
    BY <1>1, <1>3 DEF Local
  <2> QED  BY <2>2, <2>4, <2>5 DEF Local
<1> QED  BY <1>7, <1>8, <1>10, <1>11, <1>13, <1>14, OwnStep

\* The lock of the hash keeps everybody else from what is replaced.
LEMMA PlaceStep == ASSUME IInv, NEW t \in Threads, Place(t) PROVE IInv'
<1>1. Types /\ Local(t) /\ DiskOK /\ FlightsOK
  BY DEF IInv
<1>2. /\ pc[t] = "place"
      /\ UNCHANGED <<hashLock, results, newEntries, flushed>>
      /\ UNCHANGED <<persistent, db, loaded, flights, want, at, fp, verdict, todo>>
  BY DEF Place, lockVars, memoryVars
<1>3. want[t] \in Contents /\ at[t] \in Paths /\ hashLock[at[t][1]] = t /\ ~PlacedAt(at[t])
  BY <1>1, <1>2 DEF Local, HoldsLock, Storing, ReplacesNothing
<1>4. \/ /\ file' = [file EXCEPT ![at[t]] = Version(want[t])] /\ clock' = clock + 1
         /\ kept' = kept \union {<<at[t], want[t]>>}
         /\ pc' = [pc EXCEPT ![t] = "stat"] /\ goal' = [goal EXCEPT ![t] = "final"]
      \/ /\ pc' = [pc EXCEPT ![t] = "raise"]
         /\ UNCHANGED <<file, clock, kept, goal>>
  BY DEF Place, Validate, Goto, Put
<1>5. /\ Version(want[t]) \in Versions /\ Version(want[t]).fp = clock
      /\ Version(want[t]).content = want[t] /\ Version(want[t]) # None
  BY <1>1, <1>3, FilesAssumption DEF Types, Version, Versions
<1>6. /\ clock \in Nat \ {0} /\ clock' \in Nat \ {0} /\ clock <= clock' /\ fp[t] < clock
      /\ fp[t] \in Nat
  BY <1>1, <1>4 DEF Types, Local
<1>7. Types'
  <2>1. pc' \in [Threads -> Labels] /\ goal' \in [Threads -> Goals \union {"idle"}]
    BY <1>1, <1>4, LabelTypes DEF Types, Validating, Unbound, Goals
  <2>2. file' \in [Paths -> Versions \union {None}] /\ kept' \subseteq Paths \X Contents
    BY <1>1, <1>3, <1>4, <1>5 DEF Types
  <2> QED  BY <1>1, <1>2, <1>6, <2>1, <2>2 DEF Types
<1>8. /\ \A p \in Paths : p # at[t] => file'[p] = file[p]
      /\ \/ file' = file
         \/ /\ file'[at[t]].fp = clock /\ clock < clock' /\ file'[at[t]].content = want[t]
            /\ file'[at[t]] # None
  BY <1>1, <1>3, <1>4, <1>5, <1>6 DEF Types
<1>9. FilesMove
  BY <1>6, <1>8 DEF FilesMove
<1>10. MemoryOK'
  BY <1>2, <1>9, MemoryRests
<1>11. DiskOK'
  <2>1. \A p \in Paths : file'[p] # None => file'[p].fp < clock'
    <3>1. \A p \in Paths : file[p] # None => file[p].fp < clock /\ file[p].fp \in Nat
      BY <1>1 DEF DiskOK, Types, Versions
    <3> QED  BY <1>6, <1>8, <3>1
  <2>2. StoredStays'
    <3> SUFFICES ASSUME NEW k \in kept' PROVE file'[k[1]] # None /\ file'[k[1]].content = k[2]
      BY DEF StoredStays
    <3>1. CASE k \in kept
      <4>1. k[1] # at[t] /\ k[1] \in Paths
        BY <1>1, <1>3, <3>1 DEF PlacedAt, Types
      <4> QED  BY <1>1, <1>8, <3>1, <4>1 DEF DiskOK, StoredStays
    <3>2. CASE k \notin kept
      <4>1. /\ k = <<at[t], want[t]>> /\ file' = [file EXCEPT ![at[t]] = Version(want[t])]
        BY <1>4, <3>2
      <4> QED  BY <1>1, <1>3, <1>5, <4>1 DEF Types
    <3> QED  BY <3>1, <3>2
  <2> QED  BY <1>1, <1>2, <2>1, <2>2 DEF DiskOK
<1>12. Alone(t)
  BY <1>1, <1>2, <1>4 DEF Types, Alone, SameLocals
<1>13. FlightsOK'
  BY <1>1, <1>2, <1>12, QuietFlights
<1>14. OthersRest(t)
  <2>1. \A p \in Paths : hashLock[p[1]] # t /\ PlacedLater(p) => PlacedAt(p) /\ file'[p] = file[p]
    BY <1>3, <1>4, <1>8 DEF PlacedLater, PlacedAt
  <2> QED  BY <1>2, <1>12, <2>1 DEF OthersRest, Alone, Undisturbed
<1>15. Local(t)'
  <2>1. fp'[t] < clock'
    BY <1>2, <1>6
  <2>2. CASE pc'[t] = "raise"
    BY <2>1, <2>2, UnboundLocal DEF Unbound
  <2>3. CASE pc'[t] = "stat" /\ goal'[t] = "final"
    <3>1. HoldsLock(t)' /\ LooksSomewhere(t)'
      BY <1>2, <1>3, <2>3 DEF HoldsLock, LooksSomewhere, Validating, Goals
    <3>2. ReplacesNothing(t)' /\ LooksAtPlaced(t)' /\ VerdictTrue(t)'
      BY <2>3 DEF ReplacesNothing, LooksAtPlaced, VerdictTrue, Compares
    <3> QED  BY <2>1, <3>1, <3>2 DEF Local
  <2> QED  BY <1>1, <1>4, <2>2, <2>3 DEF Types
<1> QED  BY <1>7, <1>9, <1>10, <1>11, <1>13, <1>14, <1>15, OwnStep

LEMMA FinalStep == ASSUME IInv, NEW t \in Threads, Final(t) PROVE IInv'
<1>1. Types /\ Local(t)
  BY DEF IInv
<1>2. pc[t] = "final" /\ \E l \in {"stored", "raise"} : pc' = [pc EXCEPT ![t] = l]
  BY DEF Final, Goto, Put
<1>3. /\ UNCHANGED <<file, clock, kept, hashLock, results, newEntries, flushed>>
      /\ UNCHANGED <<persistent, db, loaded, flights, goal, want, at, fp, verdict, todo>>
  BY DEF Final, lockVars, memoryVars
<1>4. want[t] \in Contents /\ at[t] \in Paths /\ hashLock[at[t][1]] = t
  BY <1>1, <1>2 DEF Local, HoldsLock, Storing
<1>5. Types'
  <2>1. pc' \in [Threads -> Labels]
    BY <1>1, <1>2, LabelTypes DEF Types, Unbound
  <2> QED  BY <1>1, <1>3, <2>1 DEF Types
<1>6. Alone(t)
  BY <1>1, <1>2, <1>3 DEF Types, Alone, SameLocals
<1>7. Quiet(t)
  BY <1>2, <1>3, <1>6 DEF Quiet
<1>8. Local(t)'
  <2>1. pc'[t] \in {"stored", "raise"}
    BY <1>1, <1>2 DEF Types
  <2>2. HoldsLock(t)' /\ LooksSomewhere(t)'
    BY <1>3, <1>4, <2>1 DEF HoldsLock, LooksSomewhere, Validating
  <2>3. ReplacesNothing(t)' /\ LooksAtPlaced(t)' /\ VerdictTrue(t)'
    BY <2>1 DEF ReplacesNothing, LooksAtPlaced, VerdictTrue, Compares
  <2>4. fp'[t] < clock'
    BY <1>1, <1>3 DEF Local
  <2> QED  BY <2>2, <2>3, <2>4 DEF Local
<1> QED  BY <1>5, <1>7, <1>8, QuietStep

-----------------------------------------------------------------------------
(* The steps of a preparation and of a lookup.                             *)

\* A call begins or moves on, and neither claims nor owns what others see.
LEMMA UnboundStep ==
  ASSUME IInv, NEW t \in Threads, NEW l \in Unbound,
         pc[t] \notin {"decode", "decoded"}, pc' = [pc EXCEPT ![t] = l],
         UNCHANGED <<file, clock, kept, hashLock, results, newEntries, flushed>>,
         UNCHANGED <<persistent, db, loaded, flights, goal, want, at, fp, verdict>>,
         todo' \in [Threads -> SUBSET Paths]
  PROVE  IInv'
<1>1. Types /\ Local(t)
  BY DEF IInv
<1>2. Types'
  <2>1. pc' \in [Threads -> Labels]
    BY <1>1, LabelTypes DEF Types
  <2> QED  BY <1>1, <2>1 DEF Types
<1>3. Alone(t)
  BY <1>1 DEF Types, Alone, SameLocals
<1>4. Quiet(t)
  BY <1>3 DEF Quiet
<1>5. pc'[t] \in Unbound /\ fp'[t] < clock'
  BY <1>1 DEF Types, Local
<1> QED  BY <1>2, <1>4, <1>5, UnboundLocal, QuietStep

LEMMA BeginPrepareStep ==
  ASSUME IInv, NEW t \in Threads, NEW P \in SUBSET Paths, BeginPrepare(t, P)
  PROVE  IInv'
<1>1. pc[t] = "idle" /\ pc' = [pc EXCEPT ![t] = "load"] /\ todo' = [todo EXCEPT ![t] = P]
  BY DEF BeginPrepare, Goto, Put
<1>2. /\ UNCHANGED <<file, clock, kept, hashLock, results, newEntries, flushed>>
      /\ UNCHANGED <<persistent, db, loaded, flights, goal, want, at, fp, verdict>>
  BY DEF BeginPrepare
<1>3. todo' \in [Threads -> SUBSET Paths]
  BY <1>1 DEF IInv, Types
<1>4. "load" \in Unbound
  BY DEF Unbound
<1> QED  BY <1>1, <1>2, <1>3, <1>4, UnboundStep

\* A path is looked at, for a rendered page or as the next of a preparation.
LEMMA LookAtStep ==
  ASSUME IInv, NEW t \in Threads, NEW p \in Paths, NEW g \in {"answer", "next"},
         pc[t] \in {"idle", "next"}, pc' = [pc EXCEPT ![t] = "stat"],
         goal' = [goal EXCEPT ![t] = g], at' = [at EXCEPT ![t] = p],
         UNCHANGED <<file, clock, kept, hashLock, results, newEntries, flushed>>,
         UNCHANGED <<persistent, db, loaded, flights, want, fp, verdict>>,
         todo' \in [Threads -> SUBSET Paths]
  PROVE  IInv'
<1>1. Types /\ Local(t)
  BY DEF IInv
<1>2. Types'
  <2>1. pc' \in [Threads -> Labels] /\ goal' \in [Threads -> Goals \union {"idle"}]
    BY <1>1, LabelTypes DEF Types, Validating, Goals
  <2>2. at' \in [Threads -> Paths \union {None}]
    BY <1>1 DEF Types
  <2> QED  BY <1>1, <2>1, <2>2 DEF Types
<1>3. Alone(t)
  BY <1>1 DEF Types, Alone, SameLocals
<1>4. Quiet(t)
  BY <1>3 DEF Quiet
<1>5. Local(t)'
  <2>1. pc'[t] = "stat" /\ goal'[t] \in {"answer", "next"} /\ at'[t] \in Paths
    BY <1>1 DEF Types
  <2>2. HoldsLock(t)' /\ LooksSomewhere(t)'
    BY <2>1 DEF HoldsLock, LooksSomewhere, Storing, Validating, Goals
  <2>3. ReplacesNothing(t)' /\ LooksAtPlaced(t)' /\ VerdictTrue(t)'
    BY <2>1 DEF ReplacesNothing, LooksAtPlaced, VerdictTrue, Compares
  <2>4. fp'[t] < clock'
    BY <1>1 DEF Local
  <2> QED  BY <2>2, <2>3, <2>4 DEF Local
<1> QED  BY <1>2, <1>4, <1>5, QuietStep

LEMMA CheckNextStep == ASSUME IInv, NEW t \in Threads, CheckNext(t) PROVE IInv'
<1>1. /\ pc[t] = "next"
      /\ UNCHANGED <<file, clock, kept, hashLock, results, newEntries, flushed>>
      /\ UNCHANGED <<persistent, db, loaded, flights, want, fp, verdict>>
  BY DEF CheckNext, lockVars, memoryVars
<1>2. Types
  BY DEF IInv
<1>3. CASE todo[t] = {}
  <2>1. pc' = [pc EXCEPT ![t] = "flush"] /\ UNCHANGED <<goal, at, todo>>
    BY <1>3 DEF CheckNext, Goto, Put
  <2>2. todo' \in [Threads -> SUBSET Paths] /\ "flush" \in Unbound
    BY <1>2, <2>1 DEF Types, Unbound
  <2> QED  BY <1>1, <2>1, <2>2, UnboundStep
<1>4. CASE todo[t] # {}
  <2>1. PICK p \in todo[t] : /\ todo' = [todo EXCEPT ![t] = todo[t] \ {p}]
                             /\ at' = [at EXCEPT ![t] = p] /\ pc' = [pc EXCEPT ![t] = "stat"]
                             /\ goal' = [goal EXCEPT ![t] = "next"]
    BY <1>4 DEF CheckNext, Validate, Goto, Put
  <2>2. p \in Paths /\ todo' \in [Threads -> SUBSET Paths]
    BY <1>2, <2>1 DEF Types
  <2> QED  BY <1>1, <2>1, <2>2, LookAtStep
<1> QED  BY <1>3, <1>4

LEMMA StartLookupStep ==
  ASSUME IInv, NEW t \in Threads, NEW p \in Paths, StartLookup(t, p)
  PROVE  IInv'
<1>1. /\ pc[t] = "idle" /\ pc' = [pc EXCEPT ![t] = "stat"]
      /\ goal' = [goal EXCEPT ![t] = "answer"] /\ at' = [at EXCEPT ![t] = p]
      /\ UNCHANGED <<file, clock, kept, hashLock, results, newEntries, flushed>>
      /\ UNCHANGED <<persistent, db, loaded, flights, want, fp, verdict, todo>>
  BY DEF StartLookup, Validate, Goto, Put, lockVars, memoryVars
<1>2. todo' \in [Threads -> SUBSET Paths]
  BY <1>1 DEF IInv, Types
<1> QED  BY <1>1, <1>2, LookAtStep

\* What is read into the memory is an entry of the database.
LEMMA LoadStep == ASSUME IInv, NEW t \in Threads, Load(t) PROVE IInv'
<1>1. Types /\ Local(t) /\ DiskOK /\ FlightsOK
  BY DEF IInv
<1>2. pc[t] = "load" /\ pc' = [pc EXCEPT ![t] = "loaded"]
  BY DEF Load, Goto, Put
<1>3. /\ UNCHANGED <<file, clock, kept, hashLock, results, newEntries, flushed>>
      /\ UNCHANGED <<persistent, db, flights, goal, want, at, fp, verdict, todo>>
  BY DEF Load, lockVars
<1>4. /\ loaded' \in [Paths -> Entries \union {None}]
      /\ \A p \in Paths : loaded'[p] \in {loaded[p], db[p], None}
  BY <1>1 DEF Load, Types
<1>5. Types'
  <2>1. pc' \in [Threads -> Labels]
    BY <1>1, <1>2, LabelTypes DEF Types, Unbound
  <2> QED  BY <1>1, <1>3, <1>4, <2>1 DEF Types
<1>6. FilesMove
  BY <1>1, <1>3, FilesRest
<1>7. Known' \subseteq Known
  BY <1>3, <1>4 DEF Known
<1>8. MemoryOK'
  BY <1>6, <1>7, MemoryFrame
<1>9. DiskOK'
  <2>1. StoredStays'
    BY <1>1, <1>3 DEF DiskOK, StoredStays
  <2> QED  BY <1>1, <1>3, <1>4, <2>1 DEF DiskOK
<1>10. Alone(t)
  BY <1>1, <1>2, <1>3 DEF Types, Alone, SameLocals
<1>11. FlightsOK' /\ OthersRest(t)
  BY <1>1, <1>2, <1>3, <1>10, QuietFlights, AloneRest
<1>12. Local(t)'
  <2>1. pc'[t] \in Unbound /\ fp'[t] < clock'
    BY <1>1, <1>2, <1>3 DEF Types, Local, Unbound
  <2> QED  BY <2>1, UnboundLocal
<1> QED  BY <1>5, <1>6, <1>8, <1>9, <1>11, <1>12, OwnStep

LEMMA LoadedStep == ASSUME IInv, NEW t \in Threads, Loaded(t) PROVE IInv'
<1>1. Types /\ Local(t) /\ DiskOK /\ FlightsOK
  BY DEF IInv
<1>2. pc[t] = "loaded" /\ pc' = [pc EXCEPT ![t] = "next"]
  BY DEF Loaded, Goto, Put
<1>3. /\ UNCHANGED <<file, clock, kept, hashLock, results, newEntries, flushed>>
      /\ UNCHANGED <<db, flights, goal, want, at, fp, verdict, todo>>
  BY DEF Loaded, lockVars
<1>4. /\ loaded' = [p \in Paths |-> None]
      /\ persistent' \in [Paths -> Entries \union {None}]
      /\ \A p \in Paths : persistent'[p] \in {loaded[p], persistent[p]}
  BY <1>1 DEF Loaded, Types
<1>5. Types'
  <2>1. pc' \in [Threads -> Labels]
    BY <1>1, <1>2, LabelTypes DEF Types, Unbound
  <2> QED  BY <1>1, <1>3, <1>4, <2>1 DEF Types
<1>6. FilesMove
  BY <1>1, <1>3, FilesRest
<1>7. Known' \subseteq Known
  BY <1>3, <1>4 DEF Known
<1>8. MemoryOK'
  BY <1>6, <1>7, MemoryFrame
<1>9. DiskOK'
  <2>1. StoredStays'
    BY <1>1, <1>3 DEF DiskOK, StoredStays
  <2> QED  BY <1>1, <1>3, <1>4, <2>1 DEF DiskOK
<1>10. Alone(t)
  BY <1>1, <1>2, <1>3 DEF Types, Alone, SameLocals
<1>11. FlightsOK' /\ OthersRest(t)
  BY <1>1, <1>2, <1>3, <1>10, QuietFlights, AloneRest
<1>12. Local(t)'
  <2>1. pc'[t] \in Unbound /\ fp'[t] < clock'
    BY <1>1, <1>2, <1>3 DEF Types, Local, Unbound
  <2> QED  BY <2>1, UnboundLocal
<1> QED  BY <1>5, <1>6, <1>8, <1>9, <1>11, <1>12, OwnStep

LEMMA FlushStep == ASSUME IInv, NEW t \in Threads, Flush(t) PROVE IInv'
<1>1. Types /\ Local(t) /\ DiskOK /\ FlightsOK
  BY DEF IInv
<1>2. /\ pc[t] = "flush" /\ pc' = [pc EXCEPT ![t] = "save"]
      /\ newEntries' = {} /\ flushed' = newEntries
  BY DEF Flush, Goto, Put
<1>3. /\ UNCHANGED <<file, clock, kept, hashLock, results>>
      /\ UNCHANGED <<persistent, db, loaded, flights, goal, want, at, fp, verdict, todo>>
  BY DEF Flush, lockVars
<1>4. Types'
  <2>1. pc' \in [Threads -> Labels]
    BY <1>1, <1>2, LabelTypes DEF Types, Unbound
  <2> QED  BY <1>1, <1>2, <1>3, <2>1 DEF Types
<1>5. FilesMove /\ DiskOK'
  BY <1>1, <1>3, FilesRest, DiskRests
<1>6. Known' \subseteq Known
  BY <1>2, <1>3 DEF Known
<1>7. MemoryOK'
  BY <1>5, <1>6, MemoryFrame
<1>8. Alone(t)
  BY <1>1, <1>2, <1>3 DEF Types, Alone, SameLocals
<1>9. FlightsOK' /\ OthersRest(t)
  BY <1>1, <1>2, <1>3, <1>8, QuietFlights, AloneRest
<1>10. Local(t)'
  <2>1. pc'[t] \in Unbound /\ fp'[t] < clock'
    BY <1>1, <1>2, <1>3 DEF Types, Local, Unbound
  <2> QED  BY <2>1, UnboundLocal
<1> QED  BY <1>4, <1>5, <1>7, <1>9, <1>10, OwnStep

\* Bounded fingerprints have a last one: the first distance to the bound.
LEMMA LastEntry ==
  ASSUME NEW E, E # {}, NEW n \in Nat, \A e \in E : e.fp \in Nat /\ e.fp < n
  PROVE  \E e \in E : \A d \in E : d.fp <= e.fp
<1> DEFINE D == {n - e.fp : e \in E}
<1>1. D \subseteq Nat /\ D # {}
  OBVIOUS
<1>2. \E x \in D : \A y \in D : <<y, x>> \notin OpToRel(<, Nat)
  <2> HIDE DEF D
  <2> QED  BY <1>1, NatLessThanWellFounded, WFMin
<1>3. PICK x \in D : \A y \in D : ~(y < x)
  BY <1>1, <1>2 DEF OpToRel
<1>4. PICK e \in E : x = n - e.fp
  BY <1>3
<1>5. \A d \in E : ~(n - d.fp < n - e.fp)
  BY <1>3, <1>4
<1> QED  BY <1>5

\* The table gets entries that were on their way, each under its path.
LEMMA SaveStep == ASSUME IInv, NEW t \in Threads, Save(t) PROVE IInv'
<1>1. Types /\ DiskOK /\ FlightsOK /\ MemoryOK
  BY DEF IInv
<1>2. pc[t] = "save" /\ Leave(t) /\ flushed' = {}
  BY DEF Save
<1>3. /\ UNCHANGED <<file, clock, kept, results, newEntries, persistent, loaded, flights>>
  BY DEF Save
<1>4. clock' \in Nat \ {0} /\ clock \in Nat
  BY <1>1, <1>3 DEF Types
<1>5. /\ db' \in [Paths -> Entries \union {None}]
      /\ \A p \in Paths : db'[p] = db[p] \/ (db'[p] \in flushed /\ db'[p].path = p)
  <2>1. CASE db' = db
    BY <1>1, <2>1 DEF Types
  <2>2. CASE db' # db
    <3> DEFINE E(p) == {e \in flushed : e.path = p}
               Last(p) == CHOOSE e \in E(p) : \A d \in E(p) : d.fp <= e.fp
    <3>1. db' = [p \in Paths |-> IF E(p) = {} THEN db[p] ELSE Last(p)]
      BY <2>2 DEF Save
    <3>2. ASSUME NEW p \in Paths, E(p) # {} PROVE Last(p) \in E(p)
      <4>1. \A e \in E(p) : e.fp \in Nat /\ e.fp < clock
        BY <1>1, KnownMembers DEF MemoryOK, Entries
      <4>2. \E e \in E(p) : \A d \in E(p) : d.fp <= e.fp
        <5> HIDE DEF E
        <5> QED  BY <1>4, <3>2, <4>1, LastEntry
      <4> QED  BY <4>2
    <3>3. \A p \in Paths : E(p) # {} => Last(p) \in flushed /\ Last(p).path = p
      BY <3>2
    <3> HIDE DEF E, Last
    <3>4. \A p \in Paths : db'[p] = db[p] \/ (db'[p] \in flushed /\ db'[p].path = p)
      BY <3>1, <3>3
    <3> QED  BY <1>1, <3>1, <3>3, <3>4 DEF Types
  <2> QED  BY <2>1, <2>2
<1>6. Alone(t) /\ Local(t)'
  BY <1>1, <1>2, <1>4, LeaveFacts
<1>7. Types'
  BY <1>1, <1>2, <1>3, <1>4, <1>5, LeaveFacts DEF Types
<1>8. FilesMove
  BY <1>1, <1>3, FilesRest
<1>9. Known' \subseteq Known
  BY <1>2, <1>3, <1>5 DEF Known
<1>10. MemoryOK'
  BY <1>8, <1>9, MemoryFrame
<1>11. DiskOK'
  <2>1. StoredStays'
    BY <1>1, <1>3 DEF DiskOK, StoredStays
  <2> QED  BY <1>1, <1>3, <1>5, <2>1 DEF DiskOK
<1>12. FlightsOK' /\ OthersRest(t)
  BY <1>1, <1>2, <1>3, <1>6, QuietFlights, AloneRest
<1> QED  BY <1>6, <1>7, <1>8, <1>10, <1>11, <1>12, OwnStep

-----------------------------------------------------------------------------
(* What happens around a command, and the whole.                           *)

LEMMA DamageStep == ASSUME IInv, NEW p \in Paths, Damage(p) PROVE IInv'
<1>1. Types /\ DiskOK /\ FlightsOK
  BY DEF IInv
<1>2. /\ UNCHANGED <<hashLock, results, flights, persistent, newEntries, flushed>>
      /\ UNCHANGED <<loaded, db, pc, goal, want, at, fp, verdict, todo>>
  BY DEF Damage, lockVars, memoryVars, threadVars
<1>3. /\ clock' = clock + 1 /\ kept' = {k \in kept : k[1] # p}
      /\ \E f \in {None, Version("broken")} : file' = [file EXCEPT ![p] = f]
  BY DEF Damage, Put
<1>4. Version("broken") \in Versions /\ Version("broken").fp = clock
  BY <1>1 DEF Types, Version, Versions
<1>5. clock \in Nat \ {0} /\ clock' \in Nat \ {0} /\ clock < clock'
  BY <1>1, <1>3 DEF Types
<1>6. /\ \A q \in Paths : q # p => file'[q] = file[q]
      /\ file'[p] = None \/ file'[p].fp = clock
  BY <1>1, <1>3, <1>4 DEF Types
<1>7. Types'
  <2>1. file' \in [Paths -> Versions \union {None}] /\ kept' \subseteq Paths \X Contents
    BY <1>1, <1>3, <1>4 DEF Types
  <2> QED  BY <1>1, <1>2, <1>5, <2>1 DEF Types
<1>8. FilesMove
  BY <1>5, <1>6 DEF FilesMove
<1>9. MemoryOK'
  BY <1>2, <1>8, MemoryRests
<1>10. DiskOK'
  <2>1. \A q \in Paths : file'[q] # None => file'[q].fp < clock'
    <3>1. \A q \in Paths : file[q] # None => file[q].fp < clock /\ file[q].fp \in Nat
      BY <1>1 DEF DiskOK, Types, Versions
    <3> QED  BY <1>5, <1>6, <3>1
  <2>2. StoredStays'
    BY <1>1, <1>3, <1>6 DEF DiskOK, StoredStays, Types
  <2> QED  BY <1>1, <1>2, <2>1, <2>2 DEF DiskOK
<1>11. FlightsOK'
  BY <1>1, <1>2, FlightsFrame
<1>12. ASSUME NEW u \in Threads PROVE Local(u)'
  <2>1. SameLocals(u)
    BY <1>2 DEF SameLocals
  <2>2. Undisturbed(u)
    BY <1>2, <1>3, <1>6 DEF Undisturbed, PlacedAt, PlacedLater
  <2> QED  BY <1>8, <2>1, <2>2, LocalFrame
<1> QED  BY <1>7, <1>9, <1>10, <1>11, <1>12 DEF IInv

\* What was put somewhere and not damaged can be decoded: no end of a command
\* removes it.
LEMMA EndCommandStep == ASSUME IInv, EndCommand PROVE IInv'
<1>1. Types /\ DiskOK
  BY DEF IInv
<1>2. /\ hashLock' = [h \in Hashes |-> None] /\ clock' = clock /\ db' = db /\ kept' = kept
      /\ results' = {} /\ flights' = {} /\ newEntries' = {} /\ flushed' = {}
      /\ persistent' = [p \in Paths |-> None] /\ loaded' = [p \in Paths |-> None]
      /\ pc' = [t \in Threads |-> "idle"] /\ goal' = [t \in Threads |-> "idle"]
      /\ want' = [t \in Threads |-> None] /\ at' = [t \in Threads |-> None]
      /\ fp' = [t \in Threads |-> 0] /\ verdict' = [t \in Threads |-> FALSE]
      /\ todo' = [t \in Threads |-> {}]
  BY DEF EndCommand
<1>3. /\ file' \in [Paths -> Versions \union {None}]
      /\ \A p \in Paths : /\ file'[p] = file[p] \/ file'[p] = None
                          /\ Valid(file[p]) => file'[p] = file[p]
  BY <1>1 DEF EndCommand, Types
<1>4. Types'
  <2>1. pc' \in [Threads -> Labels]
    BY <1>2, LabelTypes DEF Unbound
  <2> QED  BY <1>1, <1>2, <1>3, <2>1 DEF Types
<1>5. FilesMove
  BY <1>1, <1>2, <1>3 DEF Types, FilesMove
<1>6. Known' \subseteq Known
  BY <1>2 DEF Known
<1>7. MemoryOK'
  BY <1>5, <1>6, MemoryFrame
<1>8. DiskOK'
  <2>1. StoredStays'
    <3> SUFFICES ASSUME NEW k \in kept PROVE file'[k[1]] # None /\ file'[k[1]].content = k[2]
      BY <1>2 DEF StoredStays
    <3>1. /\ k[1] \in Paths /\ k[2] \in Contents
          /\ file[k[1]] # None /\ file[k[1]].content = k[2]
      BY <1>1 DEF Types, DiskOK, StoredStays
    <3>2. Valid(file[k[1]])
      BY <3>1, FilesAssumption DEF Valid
    <3> QED  BY <1>3, <3>1, <3>2
  <2> QED  BY <1>1, <1>2, <1>3, <2>1 DEF DiskOK
<1>9. FlightsOK'
  BY <1>2 DEF FlightsOK
<1>10. ASSUME NEW u \in Threads PROVE Local(u)'
  <2>1. pc'[u] \in Unbound /\ fp'[u] < clock'
    BY <1>1, <1>2 DEF Types, Unbound
  <2> QED  BY <2>1, UnboundLocal
<1> QED  BY <1>4, <1>7, <1>8, <1>9, <1>10 DEF IInv

LEMMA RestStep == ASSUME IInv, UNCHANGED vars PROVE IInv'
<1>1. /\ UNCHANGED <<file, clock, kept, hashLock, results, flights, persistent, newEntries>>
      /\ UNCHANGED <<flushed, loaded, db, pc, goal, want, at, fp, verdict, todo>>
  BY DEF vars, lockVars, memoryVars, threadVars
<1>2. Types /\ DiskOK /\ FlightsOK
  BY DEF IInv
<1>3. Types'
  BY <1>1, <1>2 DEF Types
<1>4. FilesMove /\ DiskOK' /\ MemoryOK' /\ FlightsOK'
  BY <1>1, <1>2, FilesRest, DiskRests, MemoryRests, FlightsFrame
<1>5. ASSUME NEW u \in Threads PROVE Local(u)'
  <2>1. SameLocals(u) /\ Undisturbed(u)
    BY <1>1 DEF SameLocals, Undisturbed, PlacedAt, PlacedLater
  <2> QED  BY <1>4, <2>1, LocalFrame
<1> QED  BY <1>3, <1>4, <1>5 DEF IInv

LEMMA ThreadStep == ASSUME IInv, NEW t \in Threads, Step(t) PROVE IInv'
<1>1. CASE Stat(t) \/ Look(t) \/ AwaitPreload(t) \/ Decode(t) \/ Record(t)
  BY <1>1, StatStep, LookStep, AwaitStep, DecodeStep, RecordStep
<1>2. CASE DecodeRaises(t) \/ Raise(t)
  BY <1>2, DecodeRaisesStep, RaiseStep
<1>3. CASE Lock(t) \/ Exists(t) \/ Compare(t) \/ Invalidate(t) \/ DeleteEntry(t)
  BY <1>3, LockStep, ExistsStep, CompareStep, InvalidateStep, DeleteEntryStep
<1>4. CASE Place(t) \/ Final(t) \/ FinishStore(t)
  BY <1>4, PlaceStep, FinalStep, FinishStoreStep
<1>5. CASE Load(t) \/ Loaded(t) \/ CheckNext(t) \/ Flush(t) \/ Save(t) \/ Answer(t)
  BY <1>5, LoadStep, LoadedStep, CheckNextStep, FlushStep, SaveStep, AnswerStep
<1> QED  BY <1>1, <1>2, <1>3, <1>4, <1>5 DEF Step

LEMMA NextInv == IInv /\ [Next]_vars => IInv'
<1> SUFFICES ASSUME IInv, [Next]_vars PROVE IInv'
  OBVIOUS
<1>1. ASSUME NEW t \in Threads, Step(t) PROVE IInv'
  BY <1>1, ThreadStep
<1>2. ASSUME NEW t \in Threads, NEW c \in Contents, StartStore(t, c) PROVE IInv'
  BY <1>2, StartStoreStep
<1>3. ASSUME NEW t \in Threads, NEW P \in SUBSET Paths, BeginPrepare(t, P) PROVE IInv'
  BY <1>3, BeginPrepareStep
<1>4. ASSUME NEW t \in Threads, NEW p \in Paths, StartLookup(t, p) PROVE IInv'
  BY <1>4, StartLookupStep
<1>5. ASSUME NEW p \in Paths, Damage(p) PROVE IInv'
  BY <1>5, DamageStep
<1>6. CASE EndCommand
  BY <1>6, EndCommandStep
<1>7. CASE Terminated \/ UNCHANGED vars
  BY <1>7, RestStep DEF Terminated
<1> QED  BY <1>1, <1>2, <1>3, <1>4, <1>5, <1>6, <1>7 DEF Next

\* The invariant of the files and of what is remembered of them.
THEOREM Invariance == Spec => []IInv
<1> QED  BY InitInv, NextInv, PTL DEF Spec

\* What _store_image_file_without_mapping has put somewhere, or has found there
\* and shared, keeps its content until it is damaged from outside: no second
\* image with its hash, retry, failed step or end of a command replaces it.
THEOREM StoredFilesStay == Spec => []StoredStays
<1>1. IInv => StoredStays
  BY InvariantImplies
<1> QED  BY <1>1, Invariance, PTL

\* Whatever the validation cache holds of the present version of a file, in
\* memory or in its database, and whatever it has just answered, is true.
THEOREM CacheStaysSound == Spec => []CacheIsSound
<1>1. IInv => CacheIsSound
  BY InvariantImplies
<1> QED  BY <1>1, Invariance, PTL
=============================================================================
