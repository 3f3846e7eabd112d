----------------------------- MODULE ViewerCache -----------------------------
(***************************************************************************)
(* The caches of the viewer (nga_tools/web/server_state.py): summaries of  *)
(* threads and databases, schemas and the use of images, built from files  *)
(* that commands and edits write at the same time, and kept as long as the *)
(* files' times and sizes stay the same.                                   *)
(*                                                                         *)
(* A version of a file stands for its content and for its fingerprint, if  *)
(* it has one.  Some files are read and not fingerprinted: the archive,    *)
(* for the identity of its store, when the schema of a file beside it is   *)
(* shown, and the images of overlays, of whose folder only the time is     *)
(* taken (the folder is a file of its own here).                           *)
(*                                                                         *)
(* The thread configs are read by the caller, before the cache is asked    *)
(* (web/routes.py); the other files are read when an item is built.        *)
(***************************************************************************)
EXTENDS Integers

CONSTANTS Requests, Files,
          Early,       \* the files read before the cache is asked
          Unseen,      \* the files read but not fingerprinted
          MaxWrites,   \* bound: writes to each file
          NoRequest

VARIABLES
  version,              \* file -> version
  cached,               \* _fingerprint and _items: what is kept, and for what
  guard,                \* who is in the cache, or NoRequest
  request               \* request -> its progress

viewerVars == <<version, cached, guard, request>>

Seen == Files \ Unseen
Nothing == [f \in Files |-> -1]

\* torn is history: a file was written while the item was made.
Idle == [at |-> "idle", refresh |-> FALSE, start |-> Nothing, print |-> Nothing,
         item |-> Nothing, torn |-> FALSE]

ViewerInit ==
  /\ version = [f \in Files |-> 0]
  /\ cached = [print |-> Nothing, item |-> Nothing, torn |-> FALSE]
  /\ guard = NoRequest
  /\ request = [r \in Requests |-> Idle]

Advance(r, fields) == request' = [request EXCEPT ![r] = fields]

\* load_thread_metadata, before the call.
Ask(r, refresh) ==
  /\ request[r].at = "idle"
  /\ Advance(r, [Idle EXCEPT !.at = "print", !.refresh = refresh, !.start = version,
               !.item = [f \in Files |-> IF f \in Early THEN version[f] ELSE -1]])
  /\ UNCHANGED <<version, cached, guard>>

\* _thread_list_fingerprint and its like: one file after the other.
Fingerprint(r) ==
  /\ request[r].at \in {"print", "reprint"}
  /\ \E f \in Seen :
       /\ request[r].print[f] = -1
       /\ Advance(r, [request[r] EXCEPT !.print[f] = version[f]])
  /\ UNCHANGED <<version, cached, guard>>

Printed(r) == \A f \in Seen : request[r].print[f] # -1

\* Mutant: what is kept serves any request.
IsHitAlways(r) == ~request[r].refresh /\ cached.item # Nothing
\* Mutant: what is kept serves a refresh too.
IsHitForRefresh(r) == cached.print = request[r].print /\ cached.item # Nothing
IsHit(r) ==
  /\ ~request[r].refresh
  /\ cached.print = request[r].print /\ cached.item # Nothing

\* Serve what is kept, or build anew.
Enter(r) ==
  /\ request[r].at = "print" /\ Printed(r) /\ guard = NoRequest
  /\ IF IsHit(r)
     THEN Advance(r, [request[r] EXCEPT !.at = "served", !.item = cached.item,
                                   !.torn = cached.torn])
          /\ UNCHANGED guard
     ELSE Advance(r, [request[r] EXCEPT !.at = "build"]) /\ guard' = r
  /\ UNCHANGED <<version, cached>>

\* scan_thread_summaries and its like: all files of the item, in any order.
Read(r) ==
  /\ request[r].at = "build"
  /\ \E f \in Files :
       /\ request[r].item[f] = -1
       /\ Advance(r, [request[r] EXCEPT !.item[f] = version[f]])
  /\ UNCHANGED <<version, cached, guard>>

Built(r) ==
  /\ request[r].at = "build" /\ \A f \in Files : request[r].item[f] # -1
  /\ Advance(r, [request[r] EXCEPT !.at = "reprint", !.print = Nothing])
  /\ UNCHANGED <<version, cached, guard>>

\* What was built is kept for the fingerprint taken afterwards.
Keep(r) ==
  /\ request[r].at = "reprint" /\ Printed(r)
  /\ cached' = [print |-> request[r].print, item |-> request[r].item, torn |-> request[r].torn]
  /\ guard' = NoRequest
  /\ Advance(r, [request[r] EXCEPT !.at = "served"])
  /\ UNCHANGED version

Answer(r) ==
  /\ request[r].at = "served"
  /\ Advance(r, Idle)
  /\ UNCHANGED <<version, cached, guard>>

\* A command or an edit writes a file.
WriteFile(f) ==
  /\ version[f] < MaxWrites
  /\ version' = [version EXCEPT ![f] = @ + 1]
  /\ request' = [r \in Requests |-> [request[r] EXCEPT !.torn = @ \/ request[r].at \notin {"idle", "served"}]]
  /\ UNCHANGED <<cached, guard>>

ViewerNext ==
  \/ \E r \in Requests :
       \/ \E refresh \in BOOLEAN : Ask(r, refresh)
       \/ Fingerprint(r) \/ Enter(r) \/ Read(r) \/ Built(r) \/ Keep(r) \/ Answer(r)
  \/ \E f \in Files : WriteFile(f)

ViewerSpec == ViewerInit /\ [][ViewerNext]_viewerVars

-----------------------------------------------------------------------------

\* What a request is served shows each fingerprinted file as it was when the request
\* came, or later: unless a file was written while the kept item was being made, from
\* the reading of the configs to the second fingerprint.  The fingerprint taken
\* afterwards hides such a write, and the item stays until the next one.  A request
\* for a refresh is served all files like this, the ones that are not fingerprinted
\* too, whatever was written meanwhile; other requests may get these ones as old as
\* the item that is kept.  (ThreadSummaryCache, PostVersionThreadCache,
\* DatabaseSummaryCache, DatabaseSchemaCache, ImageUsageCache, server_state.py.)
ServedIsCurrent ==
  \A r \in Requests : request[r].at = "served" =>
    \A f \in Files :
      (f \in Seen /\ ~request[r].torn) \/ request[r].refresh =>
        request[r].item[f] >= request[r].start[f]
=============================================================================
