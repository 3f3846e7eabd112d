-------------------------- MODULE ArchiveProcessing --------------------------
(***************************************************************************)
(* How one author's view of a thread is backed up.  The archive keeps its  *)
(* posts, the web edits over them and the floor map in one SQLite file,    *)
(* and what has been derived from them in a second one; no transaction     *)
(* spans both.  A run brings the derived state up to date by a ladder of   *)
(* shortcuts: nothing changed, repair of the due missing floors only,      *)
(* rebuild of the floor map only, an incremental or a complete rebuild of  *)
(* the image references, and at the bottom full processing.  Whether a     *)
(* shortcut may be taken is decided by revision numbers and fingerprints.  *)
(*                                                                         *)
(* Runs and web edits of one output directory exclude each other (the lock *)
(* of core/output_lock.py), so the actions of a run interleave only with   *)
(* crashes; an exception that leaves the run is a crash too.  An action    *)
(* writes at most one of the two files, in one transaction.  Re-reads that *)
(* guard against a concurrent writer therefore always agree and are left   *)
(* out.  Floor 0 (the opening post) is always present and has no images.   *)
(***************************************************************************)
EXTENDS Naturals, FiniteSets

CONSTANTS
  Lous,          \* floors of the author's view after the opening post: 1 .. N
  Bodies,        \* post texts
  Hidden,        \* the texts an anonymous post of the thread can have
  Urls,          \* image URLs
  RefsOf,        \* the URLs a text references
  None,          \* an absent value
  MaxRuns,       \* bound: runs begun
  MaxEdits       \* bound: web edits

ASSUME LousAreFloors ==
  IsFiniteSet(Lous) /\ Lous # {} /\ Lous = 1 .. Cardinality(Lous)
ASSUME BoundsAreNumbers == MaxRuns \in Nat /\ MaxEdits \in Nat
ASSUME TextsReferToUrls ==
  Hidden \subseteq Bodies /\ RefsOf \in [Bodies -> SUBSET Urls]

VARIABLES
  archive,       \* archive.sqlite3
  state,         \* archive_state.sqlite3
  mapped,        \* URLs that the image index maps to a stored file
  pc,            \* where the current run is
  job,           \* the current run's local state
  runs, edits    \* how many runs and web edits have begun

vars == <<archive, state, mapped, pc, job, runs, edits>>

Versions == [body : Bodies, anon : BOOLEAN]
Entries == {"absent", "known", "candidate", "located", "recovered"}
Totals == {0} \cup Lous         \* the last floor the site announces

(* What the two caches can be marked with: revisions and a number of floors, *)
(* a revision and the fingerprints of the web edits.                         *)
Prints == [Lous -> (SUBSET Urls) \cup {None}] \X [Lous -> Versions \cup {None}]
FloorMarks == (Nat \X Nat) \X (Totals \cup {None})
ImageMarks == Nat \X Prints

ASSUME NoneIsAbsent ==
  /\ None \notin Versions /\ \A us \in SUBSET Urls : us # None
  /\ None \notin FloorMarks /\ None \notin ImageMarks

-----------------------------------------------------------------------------
(* The archive: latest version of each floor, every version seen, overlays,  *)
(* selected versions, the floor map and the two revisions.                   *)

Present(a) == {l \in Lous : a.latest[l] # None}

(* Floors the author's view shows; anonymous originals are not among them.   *)
PostRefs(a) == {l \in Present(a) : ~a.latest[l].anon}

Missing(a, total) ==
  {l \in Lous \ PostRefs(a) : l <= total \/ \E r \in PostRefs(a) : l < r}

Unresolved(a, total) == Missing(a, total) \ Present(a)

(* A selection is ignored while the version it names is the latest one.      *)
Selections(a) ==
  [l \in Lous |-> IF a.chosen[l] = a.latest[l] THEN None ELSE a.chosen[l]]

Fingerprints(a) == <<a.overlay, Selections(a)>>

(* The URLs floor l shows: its overlay, else its selected or latest version. *)
Refs(a, l) ==
  IF l \notin Present(a) THEN {}
  ELSE IF a.overlay[l] # None THEN a.overlay[l]
  ELSE IF Selections(a)[l] # None THEN RefsOf[a.chosen[l].body]
  ELSE RefsOf[a.latest[l].body]

RefsIn(a, lous) == UNION {Refs(a, l) : l \in lous}

(* upsert_pages, upsert_recovered_posts: write versions; one that differs    *)
(* from the floor's latest moves the archive revision.                       *)
Changed(a, versions) ==
  {l \in DOMAIN versions : versions[l] # a.latest[l]}

Latest(a, versions) ==
  [l \in Lous |-> IF l \in DOMAIN versions THEN versions[l] ELSE a.latest[l]]

(* A version seen before is not stored again, and none is ever dropped.      *)
Seen(a, versions) ==
  [l \in Lous |-> IF l \in DOMAIN versions THEN a.seen[l] \cup {versions[l]}
                                           ELSE a.seen[l]]

Upserted(a, versions) ==
  [a EXCEPT !.latest = Latest(a, versions), !.seen = Seen(a, versions),
            !.rev = IF Changed(a, versions) = {} THEN @ ELSE @ + 1]

MarkedRecovered(a, lous) ==
  [a EXCEPT !.map = [l \in Lous |-> IF l \in lous THEN "recovered" ELSE @[l]],
            !.floorRev = IF lous = {} THEN @ ELSE @ + 1]

-----------------------------------------------------------------------------
(* What the derived state is compared with.                                  *)

Revisions == <<archive.rev, archive.floorRev>>

FloorCurrent == state.floor = <<Revisions, state.pagination>>

ImageIsCurrent(image, rev) == image = <<rev, Fingerprints(archive)>>

ImageCurrent == ImageIsCurrent(state.image, archive.rev)

(* URL counts of a set of manifest rows.                                     *)
Count(rows, url) == Cardinality({l \in Lous : rows[l] # None /\ url \in rows[l]})
Counts(rows) == [u \in Urls |-> Count(rows, u)]
Only(rows, lous) == [l \in Lous |-> IF l \in lous THEN rows[l] ELSE None]

RowsFor(lous) == [l \in Lous |-> IF l \in lous THEN Refs(archive, l) ELSE None]

-----------------------------------------------------------------------------
NoPlan == [kind |-> "none", tasks |-> {}, retained |-> {}, rows |-> None,
           pending |-> {}]

NoJob == [total |-> None, forced |-> FALSE, immediate |-> TRUE, base |-> None,
          changed |-> {}, added |-> {}, inc |-> 0,
          snap |-> None, always |-> FALSE, due |-> {}, unresolved |-> {},
          recovered |-> None, full |-> FALSE, cacheable |-> TRUE,
          plan |-> NoPlan]

Nowhere(x) == [l \in Lous |-> x]

FreshArchive ==
  [latest |-> Nowhere(None), seen |-> Nowhere({}), overlay |-> Nowhere(None),
   chosen |-> Nowhere(None), map |-> Nowhere("absent"), built |-> None,
   rev |-> 0, floorRev |-> 0]

FreshState ==
  [pagination |-> None, floor |-> None, floors |-> {}, image |-> None,
   images |-> {}, manifest |-> None, counts |-> [u \in Urls |-> 0]]

(* An archive a release without image manifests left behind, up to date.     *)
Inherited(b) ==
  LET v == [body |-> b, anon |-> FALSE]
  IN  [FreshArchive EXCEPT !.latest[1] = v, !.seen[1] = {v}, !.map[1] = "known",
                           !.built = <<{1}, {}>>, !.rev = 1, !.floorRev = 1]

InheritedState(b) ==
  [FreshState EXCEPT
     !.pagination = 1, !.floor = <<<<1, 1>>, 1>>,
     !.image = <<1, Fingerprints(Inherited(b))>>]

Init ==
  /\ \/ archive = FreshArchive /\ state = FreshState /\ mapped = {}
     \/ \E b \in Bodies :
          /\ archive = Inherited(b)
          /\ mapped \in SUBSET RefsOf[b]
          /\ state = [InheritedState(b) EXCEPT !.images = RefsOf[b] \ mapped]
  /\ pc = "idle" /\ job = NoJob /\ runs = 0 /\ edits = 0

-----------------------------------------------------------------------------
(* Steps of a run.  Next to each: the file it writes.                        *)

Goto(label) == pc' = label
EndRun == pc' = "idle" /\ job' = NoJob

Base == [image |-> state.image, rev |-> archive.rev]

(* backup sub/all: the fetched pages are stored in one transaction           *)
(* (archive).  The view a page set shows: total floors, some of them missing.*)
BeginSync ==
  /\ pc = "idle" /\ runs < MaxRuns
  /\ \E total \in Totals, forced \in BOOLEAN, immediate \in BOOLEAN :
     \E shown \in SUBSET (1 .. total) :
     \E body \in [shown -> Bodies] :
       LET page == [l \in shown |-> [body |-> body[l], anon |-> FALSE]]
           changed == Changed(archive, page)
       IN  /\ forced => immediate
           /\ archive' = Upserted(archive, page)
           /\ job' = [NoJob EXCEPT !.total = total, !.forced = forced,
                                   !.immediate = immediate, !.base = Base,
                                   !.changed = changed,
                                   !.added = changed \ Present(archive),
                                   !.inc = IF changed = {} THEN 0 ELSE 1]
  /\ runs' = runs + 1 /\ Goto("pages")
  /\ UNCHANGED <<state, mapped, edits>>

(* (state)                                                                   *)
CommitPagination ==
  /\ pc = "pages"
  /\ state' = [state EXCEPT !.pagination = job.total]
  /\ Goto("repair")
  /\ UNCHANGED <<archive, mapped, job, runs, edits>>

(* Maintenance: no page is fetched; refuses without a complete state.        *)
BeginMaintain ==
  /\ pc = "idle" /\ runs < MaxRuns
  /\ None \notin {state.floor, state.image, state.pagination}
  /\ \E immediate \in BOOLEAN :
       job' = [NoJob EXCEPT !.total = state.pagination, !.base = Base,
                            !.immediate = immediate]
  /\ runs' = runs + 1 /\ Goto("repair")
  /\ UNCHANGED <<archive, state, mapped, edits>>

(* Floors the map calls recovered although the archive has no text of them.  *)
Bodyless == {l \in Lous : archive.map[l] = "recovered"} \ Present(archive)

(* repair_recovered_missing_floor_entries raises: the run ends in an error.  *)
Refuse ==
  /\ pc = "repair" /\ Bodyless # {}
  /\ Goto("refused") /\ job' = NoJob
  /\ UNCHANGED <<archive, state, mapped, runs, edits>>

Refused ==
  /\ pc = "refused" /\ EndRun
  /\ UNCHANGED <<archive, state, mapped, runs, edits>>

(* (archive) A located floor whose anonymous text is stored is recovered.    *)
RepairRecovered ==
  /\ pc = "repair" /\ Bodyless = {}
  /\ LET found == {l \in Present(archive) \ PostRefs(archive) :
                     archive.map[l] = "located"}
     IN  archive' = MarkedRecovered(archive, found)
  /\ job' = [job EXCEPT !.snap = <<archive'.rev, archive'.floorRev>>]
  /\ Goto(IF job.forced THEN "full" ELSE "reuse")
  /\ UNCHANGED <<state, mapped, runs, edits>>

(* Mutant: a floor never tried before may be put off as well.                *)
DueChoicesAnyone(floors) ==
  IF job.immediate THEN {floors} ELSE SUBSET floors

(* The missing floors to try now.  Neighbours share a decision, and a floor  *)
(* never tried before is always due; otherwise a ticket decides.             *)
DueChoices(floors) ==
  IF job.immediate THEN {floors}
  ELSE {due \in SUBSET floors :
          /\ floors \ due \subseteq state.floors
          /\ \A l \in floors : l + 1 \in floors => (l \in due <=> l + 1 \in due)}

(* No write: which shortcut the floor state allows.                          *)
ReuseFloorState ==
  /\ pc = "reuse"
  /\ \/ /\ FloorCurrent
        /\ \E due \in DueChoices(state.floors) :
             LET exact == \A l \in due : archive.map[l] = "located"
             IN  /\ job' = [job EXCEPT !.due = due]
                 /\ Goto(IF due = {} THEN "images"
                         ELSE IF exact THEN "exact" ELSE "refresh")
     \/ /\ ~FloorCurrent
        /\ job' = [job EXCEPT !.always = TRUE]
        /\ Goto(IF state.floor = None THEN "full" ELSE "refresh")
  /\ UNCHANGED <<archive, state, mapped, runs, edits>>

(* Writes texts recovered from the original thread (archive) and remembers   *)
(* which floors they change.                                                 *)
WriteRecovered(bodies) ==
  LET posts == [l \in DOMAIN bodies |-> [body |-> bodies[l], anon |-> TRUE]]
      changed == Changed(archive, posts)
  IN  /\ archive' = Upserted(archive, posts)
      /\ job' = [job EXCEPT !.recovered = bodies,
                            !.changed = @ \cup changed,
                            !.added = @ \cup (changed \ Present(archive)),
                            !.inc = IF changed = {} THEN @ ELSE @ + 1]

RecoverExactly ==
  /\ pc = "exact"
  /\ \/ Goto("images") /\ UNCHANGED <<archive, job>>        \* the fetch fails
     \/ \E lous \in SUBSET job.due : \E bodies \in [lous -> Hidden] :
          WriteRecovered(bodies) /\ Goto("mark")
  /\ UNCHANGED <<state, mapped, runs, edits>>

(* (archive)                                                                 *)
MarkExact ==
  /\ pc = "mark"
  /\ archive' = MarkedRecovered(archive, DOMAIN job.recovered)
  /\ Goto("attempted")
  /\ UNCHANGED <<state, mapped, job, runs, edits>>

(* Whether the repair left the archive as the run's snapshot saw it.         *)
(* Mutant: only the archive revision is compared, not the map's.             *)
UnmovedPosts == archive.rev = job.snap[1]
Unmoved == Revisions = job.snap

(* (state)                                                                   *)
StoreExactAttempt ==
  /\ pc = "attempted"
  /\ state' = [state EXCEPT !.floors = @ \ DOMAIN job.recovered]
  /\ Goto(IF Unmoved THEN "images" ELSE "commitFloor")
  /\ UNCHANGED <<archive, mapped, job, runs, edits>>

PendingAfter(pending, unresolved, attempted) ==
  ((pending \cap unresolved) \ attempted) \cup (attempted \cap unresolved)

Signature == <<PostRefs(archive), Missing(archive, job.total)>>

(* The maps a build can end with.  Entries of floors still missing are kept  *)
(* or improved; a known entry of a post that has gone is dropped.  Which     *)
(* floors improve depends on the pages of the original thread that the build *)
(* happens to read, for due floors and for posts not yet found there.        *)
Outcomes(l) ==
  CASE l \in PostRefs(archive)                  -> {"known"}
    [] l \notin PostRefs(archive) \cup Missing(archive, job.total) -> {"absent"}
    [] OTHER -> CASE archive.map[l] = "recovered" -> {"recovered"}
                  [] archive.map[l] = "located"   -> {"located", "recovered"}
                  [] OTHER -> {"absent", "candidate", "located", "recovered"}

NewMaps == {m \in [Lous -> Entries] : \A l \in Lous : m[l] \in Outcomes(l)}

(* Floors whose text a build returns: those newly recovered, and possibly    *)
(* some recovered earlier.                                                   *)
Returned(m) ==
  LET all == {l \in Lous : m[l] = "recovered"}
  IN  {r \in SUBSET all : \A l \in all \ r : archive.map[l] = "recovered"}

(* build_and_save_floor_map and replace_floor_map (archive): the map is      *)
(* committed before the texts it promises.                                   *)
WriteMap(m) ==
  archive' = IF archive.map = m /\ archive.built = Signature THEN archive
             ELSE [archive EXCEPT !.map = m, !.built = Signature,
                                  !.floorRev = @ + 1]

(* The early return of _refresh_author_floor_state for a retry list without  *)
(* any unresolved floor has no action: FloorsAccounted excludes that list.   *)
MapIsReused ==
  Missing(archive, job.total) = {} /\ archive.built = Signature

BuildFloorMap ==
  /\ pc \in {"refresh", "full"}
  /\ \E due \in DueChoices(Unresolved(archive, job.total)) :
       LET begun == [job EXCEPT !.due = due, !.full = pc = "full",
                                !.unresolved = Unresolved(archive, job.total)]
       IN  \/ /\ MapIsReused
              /\ job' = [begun EXCEPT !.recovered = <<>>]
              /\ Goto("recover") /\ UNCHANGED archive
           \/ /\ ~MapIsReused
              /\ \E m \in NewMaps : \E lous \in Returned(m) :
                 \E bodies \in [lous -> Hidden] :
                   /\ WriteMap(m)
                   /\ job' = [begun EXCEPT !.recovered = bodies]
              /\ Goto("recover")
           \/ /\ ~MapIsReused                               \* the build fails
              /\ job' = [begun EXCEPT !.cacheable = pc # "full"]
              /\ Goto(IF pc = "full" THEN "images" ELSE "full")
              /\ UNCHANGED archive
  /\ UNCHANGED <<state, mapped, runs, edits>>

(* (archive)                                                                 *)
UpsertRecovered ==
  /\ pc = "recover"
  /\ WriteRecovered(job.recovered)
  /\ Goto("storeFloors")
  /\ UNCHANGED <<state, mapped, runs, edits>>

(* (state)                                                                   *)
StoreFloors ==
  /\ pc = "storeFloors"
  /\ state' = [state EXCEPT !.floors =
                 PendingAfter(@, job.unresolved \ DOMAIN job.recovered, job.due)]
  /\ Goto(IF job.full \/ (~job.always /\ Unmoved)
            THEN "images" ELSE "commitFloor")
  /\ UNCHANGED <<archive, mapped, job, runs, edits>>

(* (state) commit_floor_processing_state.                                    *)
CommitFloor ==
  /\ pc = "commitFloor"
  /\ state' = [state EXCEPT !.floor = <<Revisions, job.total>>]
  /\ Goto(IF job.full THEN "commitImages" ELSE "images")
  /\ UNCHANGED <<archive, mapped, job, runs, edits>>

-----------------------------------------------------------------------------
(* Images: a plan, the downloads, one commit.                                *)

Plan(kind, tasks, retained, rows) ==
  [kind |-> kind, tasks |-> tasks, retained |-> retained, rows |-> rows,
   pending |-> {}]

HitPlan == Plan("hit", state.images, state.images, None)

(* Incremental work needs an image state that was current before this run    *)
(* (under today's web edits) and whose every later revision is this run's.   *)
IncrementalAllowed ==
  /\ job.base.image # None
  /\ ImageIsCurrent(job.base.image, job.base.rev)
  /\ job.changed # {} /\ job.added \subseteq job.changed
  /\ archive.rev = job.base.rev + job.inc

(* The manifest is absent: build it, but download only what this run changed *)
(* or what the extraction cache does not know (uncached).                    *)
BootstrapPlan(uncached) ==
  LET rows == RowsFor(Present(archive))
      retained == {u \in state.images : Count(rows, u) > 0}
  IN  Plan("bootstrap", RefsIn(archive, job.changed \cup uncached) \cup retained,
           retained, rows)

OldRows == Only(state.manifest.rows, job.changed)
NewRows == RowsFor(job.changed)
OldRowFloors == {l \in job.changed : OldRows[l] # None}

(* What makes the delta give up and leave the work to a complete rebuild.    *)
DeltaApplies ==
  /\ state.manifest.rev = job.base.rev
  /\ job.changed \ job.added \subseteq OldRowFloors
  /\ job.added \cap OldRowFloors = {}
  /\ \A u \in Urls : Count(OldRows, u) <= state.counts[u]
  /\ \A u \in state.images : state.counts[u] > 0 \/ Count(NewRows, u) > 0

(* Mutant: the old references are not taken off.                             *)
UpdatedCountKept(u) == state.counts[u] + Count(NewRows, u)
UpdatedCount(u) == state.counts[u] - Count(OldRows, u) + Count(NewRows, u)

(* Mutant: only pending URLs of the changed floors are retained.             *)
DeltaPlanForgets ==
  LET newly == {u \in Urls : Count(NewRows, u) > 0 /\ state.counts[u] = 0}
      retained == {u \in state.images : Count(NewRows, u) > 0}
  IN  Plan("delta", newly \cup retained, retained, NewRows)

DeltaPlan ==
  LET newly == {u \in Urls : Count(NewRows, u) > 0 /\ state.counts[u] = 0}
      retained == {u \in state.images : UpdatedCount(u) > 0}
  IN  Plan("delta", newly \cup retained, retained, NewRows)

CompletePlan(kind, lous) ==
  LET tasks == RefsIn(archive, lous)
  IN  Plan(kind, tasks, state.images \cap tasks, RowsFor(lous))

(* Which plan the state calls for.  Full processing also gives rows to the   *)
(* placeholders of floors still missing.                                     *)
Plans ==
  CASE job.full ->
         {CompletePlan("full", Present(archive)
                                 \cup Unresolved(archive, job.total))}
    [] ~job.full /\ ImageCurrent -> {HitPlan}
    [] ~job.full /\ ~ImageCurrent /\ IncrementalAllowed /\ state.manifest = None ->
         {BootstrapPlan(uncached) : uncached \in SUBSET Present(archive)}
    [] ~job.full /\ ~ImageCurrent /\ IncrementalAllowed /\ state.manifest # None
         /\ DeltaApplies -> {DeltaPlan}
    [] OTHER -> {CompletePlan("rebuild", Present(archive))}

(* Pending URLs that are not due wait; everything else of the plan is tried. *)
(* (image index)                                                             *)
DownloadImages ==
  /\ pc = "images"
  /\ \E plan \in Plans : \E due \in SUBSET plan.retained :
     LET tried == (plan.tasks \ plan.retained) \cup due
     IN  \E failed \in SUBSET (tried \ mapped) :
           /\ job.forced => due = plan.retained
           /\ mapped' = mapped \cup (tried \ failed)
           /\ job' = [job EXCEPT !.plan = [plan EXCEPT
                        !.pending = (plan.retained \ due) \cup failed]]
  /\ Goto(IF ~job.full THEN "commitImages"
          ELSE IF job.cacheable THEN "commitFloor" ELSE "uncached")
  /\ UNCHANGED <<archive, state, runs, edits>>

(* The floor map could not be built: nothing of the run is marked done.      *)
EndUncached ==
  /\ pc = "uncached" /\ EndRun
  /\ UNCHANGED <<archive, state, mapped, runs, edits>>

WholeManifest(plan) == [rev |-> archive.rev, rows |-> plan.rows]

NewManifest(plan) ==
  CASE plan.kind = "hit"   -> state.manifest
    [] plan.kind = "delta" ->
         [rev |-> archive.rev,
          rows |-> [l \in Lous |-> IF l \in job.changed THEN plan.rows[l]
                                   ELSE state.manifest.rows[l]]]
    [] OTHER               -> WholeManifest(plan)

NewCounts(plan) ==
  CASE plan.kind = "hit"   -> state.counts
    [] plan.kind = "delta" -> [u \in Urls |-> UpdatedCount(u)]
    [] OTHER               -> Counts(plan.rows)

(* (state) The four image commits: pending URLs, manifest, counts and the    *)
(* state they justify, in one transaction.                                   *)
CommitImages ==
  /\ pc = "commitImages"
  /\ state' = [state EXCEPT
       !.images = job.plan.pending,
       !.manifest = NewManifest(job.plan),
       !.counts = NewCounts(job.plan),
       !.image = IF job.plan.kind = "hit" THEN @
                 ELSE <<archive.rev, Fingerprints(archive)>>]
  /\ EndRun
  /\ UNCHANGED <<archive, mapped, runs, edits>>

(* The process dies, or an exception ends the run.                           *)
Crash ==
  /\ pc \notin {"idle", "refused"} /\ EndRun
  /\ UNCHANGED <<archive, state, mapped, runs, edits>>

-----------------------------------------------------------------------------
(* Web edits (archive); they find no run in progress.  Clearing one is not   *)
(* counted against the bound.                                                *)
WebEdit(newArchive, cost) ==
  /\ pc = "idle" /\ edits + cost <= MaxEdits
  /\ archive' = newArchive /\ archive' # archive
  /\ edits' = edits + cost
  /\ UNCHANGED <<state, mapped, pc, job, runs>>

(* Every image of an overlay must already be stored.                         *)
SaveOverlay ==
  \E l \in Present(archive) : \E urls \in SUBSET mapped :
    WebEdit([archive EXCEPT !.overlay[l] = urls], 1)

ClearOverlay ==
  \E l \in Present(archive) : WebEdit([archive EXCEPT !.overlay[l] = None], 0)

SelectVersion ==
  \E l \in Present(archive) : \E v \in archive.seen[l] \ {archive.latest[l]} :
    WebEdit([archive EXCEPT !.chosen[l] = v], 1)

ClearSelection ==
  \E l \in Present(archive) : WebEdit([archive EXCEPT !.chosen[l] = None], 0)

Next ==
  \/ BeginSync \/ CommitPagination \/ BeginMaintain
  \/ Refuse \/ Refused \/ RepairRecovered \/ ReuseFloorState
  \/ RecoverExactly \/ MarkExact \/ StoreExactAttempt
  \/ BuildFloorMap \/ UpsertRecovered \/ StoreFloors
  \/ CommitFloor \/ DownloadImages \/ EndUncached \/ CommitImages \/ Crash
  \/ SaveOverlay \/ ClearOverlay \/ SelectVersion \/ ClearSelection

Spec == Init /\ [][Next]_vars

-----------------------------------------------------------------------------
(* Types of the two files and of the run.                                    *)
TypeOK ==
  /\ archive.latest \in [Lous -> Versions \cup {None}]
  /\ archive.seen \in [Lous -> SUBSET Versions]
  /\ archive.overlay \in [Lous -> (SUBSET Urls) \cup {None}]
  /\ archive.chosen \in [Lous -> Versions \cup {None}]
  /\ archive.map \in [Lous -> Entries]
  /\ archive.rev \in Nat /\ archive.floorRev \in Nat
  /\ state.pagination \in Totals \cup {None}
  /\ state.floors \subseteq Lous /\ state.images \subseteq Urls
  /\ state.counts \in [Urls -> Nat]
  /\ state.manifest # None =>
       state.manifest.rows \in [Lous -> (SUBSET Urls) \cup {None}]
  /\ mapped \subseteq Urls
  /\ job.total \in Totals \cup {None}
  /\ runs \in 0 .. MaxRuns /\ edits \in 0 .. MaxEdits

(* While the image state counts as current, every image that any floor       *)
(* shows (after web edits) is stored or waits in the retry list: whichever   *)
(* shortcut of archive_image_processing.py got there, no URL falls through.  *)
ImagesAccounted ==
  ImageCurrent => RefsIn(archive, Lous) \subseteq mapped \cup state.images

(* A manifest the next delta would start from agrees with the archive floor  *)
(* by floor, its URL counts are the counts of its rows, and it knows every   *)
(* pending URL (commit_incremental_image_reference_state keeps all three).   *)
ManifestExact ==
  ImageCurrent /\ state.manifest # None =>
    /\ state.manifest.rev = archive.rev
    /\ \A l \in Present(archive) : state.manifest.rows[l] = Refs(archive, l)
    /\ state.counts = Counts(state.manifest.rows)
    /\ \A u \in state.images : state.counts[u] > 0

(* While the floor state counts as current, the retry list holds exactly the *)
(* missing floors without a text, so the short paths that look only at the   *)
(* list (_retry_pending_missing_floors, backup_local_work_kind) lose none.   *)
FloorsAccounted ==
  FloorCurrent => state.floors = Unresolved(archive, state.pagination)

(* A run that reaches its image commit leaves nothing stale: floors and      *)
(* images are both current afterwards, whatever ladder step it came by.      *)
CompletedRunIsCurrent ==
  [][CommitImages => (FloorCurrent /\ ImageCurrent)']_vars

(* README.MD:150: a manual backup always retries every missing floor, so no  *)
(* run may end because of what an earlier run left behind.                   *)
BackupProceeds == pc # "refused"

(* What the derived state claims to be current accounts for every image and  *)
(* every missing floor of the archive.                                       *)
DerivedIsAccounted == TypeOK /\ ImagesAccounted /\ ManifestExact /\ FloorsAccounted
=============================================================================
