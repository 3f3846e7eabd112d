------------------------- MODULE MCArchiveProcessing -------------------------
(***************************************************************************)
(* Small instances of what is derived from an archive: its processing      *)
(* and a floor map.  The first uses only the outcomes of the second, so    *)
(* they share no state: in a behaviour one of them moves, the other rests. *)
(***************************************************************************)
EXTENDS ArchiveProcessing, TLC

CONSTANTS Parts, b1, b2, u1, u2,                          \* ArchiveProcessing
          LastLou, Mine, PerPage, MaxChanges, MaxFaults  \* FloorMap

\* Two floors after the first one, and two texts that share an image.
MCBodies == {b1, b2}
MCUrls == {u1, u2}
MCRefsOf == b1 :> {u1} @@ b2 :> {u1, u2}
MCHidden == {b2}

\* A thread of five floors on three pages, four of them the author's.
MCMine == {0, 2, 3, 4}

VARIABLES
  part,  \* the part that moves
  floor, refs, total, map, built, mapStep, mapJob, changes, faults

Floor == INSTANCE FloorMap WITH pc <- mapStep, job <- mapJob
ASSUME FloorMapBounds == Floor!FloorMapAssumption

mapVars == <<floor, refs, total, map, built, mapStep, mapJob, changes, faults>>

PartsInit ==
  /\ part \in Parts /\ Init /\ Floor!Init
  /\ part # "processing" => archive = FreshArchive
ProcessingMoves == part = "processing" /\ Next /\ UNCHANGED <<part, mapVars>>
FloorMapMoves == part = "floor map" /\ Floor!Next /\ UNCHANGED <<part, vars>>
PartsNext == ProcessingMoves \/ FloorMapMoves
PartsSpec == PartsInit /\ [][PartsNext]_<<part, vars, mapVars>>

\* The properties of the floor map, stated in FloorMap.
\* What a map says of missing floors is true (floor_map.py).
MissingAreTrue == Floor!MissingAreTrue
\* A build locates the floors that are there (floor_map.py).
KnownAreFound == Floor!KnownAreFound
\* What is located stays located (floor_map.py).
LocatedStays == Floor!LocatedStays
=============================================================================
