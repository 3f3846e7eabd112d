----------------------- MODULE ArchiveProcessingProofs -----------------------
(***************************************************************************)
(* Proofs about ArchiveProcessing for any floors, texts, images, runs and  *)
(* web edits: what the derived state claims to be current accounts for     *)
(* every image and every missing floor, and a run that gets to its image   *)
(* commit leaves both current.  Then about FloorMap, for any thread: what  *)
(* a build says of a floor is true, stays, and misses nothing it can find. *)
(***************************************************************************)
EXTENDS MCArchiveProcessing, FiniteSetTheorems, WellFoundedInduction, TLAPS

Pcs == {"idle", "pages", "repair", "refused", "reuse", "exact", "mark", "attempted",
        "refresh", "full", "recover", "storeFloors", "commitFloor", "images", "uncached",
        "commitImages"}
Texts == Versions \cup {None}
Rows == [Lous -> (SUBSET Urls) \cup {None}]
Manifests == [rev : Nat, rows : Rows]
Kinds == {"none", "hit", "bootstrap", "delta", "full", "rebuild"}
AllPlans == [kind : Kinds, tasks : SUBSET Urls, retained : SUBSET Urls,
             rows : Rows \cup {None}, pending : SUBSET Urls]
Bases == [image : ImageMarks \cup {None}, rev : Nat]
FoundTexts == UNION {[S -> Hidden] : S \in SUBSET Lous}

Archives ==
  [latest : [Lous -> Texts], seen : [Lous -> SUBSET Versions], overlay : Rows,
   chosen : [Lous -> Texts], map : [Lous -> Entries],
   built : ((SUBSET Lous) \X (SUBSET Lous)) \cup {None}, rev : Nat, floorRev : Nat]
States ==
  [pagination : Totals \cup {None}, floor : FloorMarks \cup {None}, floors : SUBSET Lous,
   image : ImageMarks \cup {None}, images : SUBSET Urls, manifest : Manifests \cup {None},
   counts : [Urls -> Nat]]
Jobs ==
  [total : Totals \cup {None}, forced : BOOLEAN, immediate : BOOLEAN,
   base : Bases \cup {None}, changed : SUBSET Lous, added : SUBSET Lous, inc : Nat,
   snap : (Nat \X Nat) \cup {None}, always : BOOLEAN, due : SUBSET Lous,
   unresolved : SUBSET Lous, recovered : FoundTexts \cup {None}, full : BOOLEAN,
   cacheable : BOOLEAN, plan : AllPlans]

Types ==
  /\ archive \in Archives /\ state \in States /\ mapped \in SUBSET Urls
  /\ pc \in Pcs /\ job \in Jobs /\ runs \in 0..MaxRuns /\ edits \in 0..MaxEdits

-----------------------------------------------------------------------------
(* The two files.                                                            *)

SignatureOf(a, vrows) == <<PostRefs(a), Missing(a, vrows)>>

\* A floor mark that names today's revisions is true, whatever the pagination is:
\* the retry list and the map were made for the number of floors it names.
FloorOK(a, s) ==
  s.floor # None =>
    /\ s.floor[1][1] <= a.rev /\ s.floor[1][2] <= a.floorRev
    /\ s.floor[1] = <<a.rev, a.floorRev>> =>
         /\ s.floors = Unresolved(a, s.floor[2])
         /\ a.built = SignatureOf(a, s.floor[2])

\* What floor l showed under the web edits with these fingerprints.
Shown(a, prints, l) ==
  IF a.latest[l] = None THEN {}
  ELSE IF prints[1][l] # None THEN prints[1][l]
  ELSE IF prints[2][l] # None THEN RefsOf[prints[2][l].body]
  ELSE RefsOf[a.latest[l].body]

RowOK(a, manifest, l, shown) ==
  /\ a.latest[l] # None => manifest.rows[l] # None
  /\ manifest.rows[l] # None => manifest.rows[l] = shown

FloorImages(a, s, m, l) ==
  /\ Shown(a, s.image[2], l) \subseteq m \cup s.images
  /\ s.manifest # None => RowOK(a, s.manifest, l, Shown(a, s.image[2], l))

\* An image mark of today's revision is true of the web edits it names, even if
\* they are not today's: they may be undone.
ImageOK(a, s, m) ==
  s.image # None =>
    /\ s.image[1] <= a.rev
    /\ s.image[1] = a.rev =>
         /\ \A l \in Lous : FloorImages(a, s, m, l)
         /\ s.manifest # None => s.manifest.rev = a.rev

ManifestOK(s, m) ==
  s.manifest # None =>
    /\ s.counts = Counts(s.manifest.rows)
    /\ \A u \in s.images : s.counts[u] > 0
    /\ \A l \in Lous : s.manifest.rows[l] # None => s.manifest.rows[l] \subseteq m \cup s.images

-----------------------------------------------------------------------------
(* A run.                                                                    *)

Running == pc \notin {"idle", "refused"}
AsSnapped == state.floor = <<job.snap, state.pagination>>
Texted == DOMAIN job.recovered
BuildDone == pc = "images" /\ job.full /\ job.cacheable

TotalOK ==
  /\ Running => job.total \in Totals
  /\ Running /\ pc # "pages" => state.pagination = job.total

\* The short ways start from a floor mark that is current.
ShortOK ==
  /\ pc \in {"pages", "repair", "reuse", "exact", "mark", "attempted"} => ~job.full
  /\ pc \in {"reuse", "exact", "refresh"} => job.snap = Revisions
  /\ \/ pc \in {"exact", "mark", "attempted"}
     \/ pc = "refresh" /\ ~job.always
     \/ pc \in {"recover", "storeFloors"} /\ ~job.full /\ ~job.always
     => AsSnapped
  /\ pc = "exact" => job.due \subseteq state.floors
  /\ pc \in {"mark", "attempted"} =>
       /\ job.recovered \in FoundTexts
       /\ state.floors \ Texted = Unresolved(archive, job.total)
       /\ Texted # {} => archive.rev # job.snap[1]

\* A build leads to the floors that are missing after it.
BuildOK ==
  /\ pc \in {"recover", "storeFloors"} =>
       /\ job.recovered \in FoundTexts
       /\ job.due \subseteq job.unresolved /\ job.unresolved \ job.due \subseteq state.floors
  /\ pc = "recover" => /\ job.unresolved = Unresolved(archive, job.total)
                       /\ Texted \subseteq Missing(archive, job.total)
  /\ pc = "storeFloors" => Unresolved(archive, job.total) = job.unresolved \ Texted
  /\ pc = "commitFloor" \/ BuildDone => state.floors = Unresolved(archive, job.total)
  /\ pc \in {"mark", "attempted", "recover", "storeFloors", "commitFloor"} \/ BuildDone =>
       archive.built = SignatureOf(archive, job.total)
  /\ (pc = "images" /\ ~job.full) \/ pc = "commitImages" => FloorCurrent

\* The floors a run has not changed are as the image mark it began with says.
BaseOK ==
  Running =>
    /\ job.base \in Bases /\ job.base.image = state.image /\ job.base.rev <= archive.rev
    /\ state.image # None /\ state.image[1] = job.base.rev =>
         \A l \in Lous \ job.changed : FloorImages(archive, state, mapped, l)

\* The manifest a plan leads to is exact, and counts each of its URLs in us.
ManifestIsExact(plan, us) ==
  /\ NewManifest(plan) \in Manifests \cup {None} /\ NewCounts(plan) \in [Urls -> Nat]
  /\ NewManifest(plan) # None =>
    /\ NewManifest(plan).rev = archive.rev
    /\ \A l \in Lous : RowOK(archive, NewManifest(plan), l, Refs(archive, l))
    /\ NewCounts(plan) = Counts(NewManifest(plan).rows)
    /\ \A u \in us : NewCounts(plan)[u] > 0

PlanOK ==
  pc = "commitImages" \/ (pc = "commitFloor" /\ job.full) =>
    /\ job.plan.kind = "hit" => ImageCurrent
    /\ RefsIn(archive, Lous) \subseteq mapped \cup job.plan.pending
    /\ ManifestIsExact(job.plan, job.plan.pending)

Files == FloorOK(archive, state) /\ ImageOK(archive, state, mapped) /\ ManifestOK(state, mapped)
Run == TotalOK /\ ShortOK /\ BuildOK /\ BaseOK /\ PlanOK

IInv == Types /\ Files /\ Run

-----------------------------------------------------------------------------
(* Lemmas about the operators of an archive.                                 *)

LEMMA FloorsAreNumbers ==
  /\ IsFiniteSet(Lous) /\ Lous \in SUBSET (Nat \ {0}) /\ 1 \in Lous
  /\ \A vrows \in Totals : vrows \in Nat /\ 1..vrows \in SUBSET Lous
<1>1. Cardinality(Lous) \in Nat /\ Lous = 1..Cardinality(Lous)
  BY LousAreFloors, FS_CardinalityType
<1> QED  BY <1>1, LousAreFloors DEF Totals

\* What is missing depends on the latest versions only.
LEMMA SameFloors ==
  ASSUME NEW a, NEW b, a.latest = b.latest
  PROVE  /\ Present(a) = Present(b) /\ PostRefs(a) = PostRefs(b)
         /\ \A t : Missing(a, t) = Missing(b, t) /\ Unresolved(a, t) = Unresolved(b, t)
                   /\ SignatureOf(a, t) = SignatureOf(b, t)
BY DEF Present, PostRefs, Missing, Unresolved, SignatureOf

IsUpserted(a, S, v, b) ==
  /\ b \in Archives
  /\ \A l \in Lous : b.latest[l] = IF l \in S THEN v[l] ELSE a.latest[l]
  /\ b.overlay = a.overlay /\ b.chosen = a.chosen /\ b.map = a.map
  /\ b.built = a.built /\ b.floorRev = a.floorRev
  /\ Changed(a, v) \in SUBSET S /\ \A l \in S \ Changed(a, v) : v[l] = a.latest[l]
  /\ b.rev = IF Changed(a, v) = {} THEN a.rev ELSE a.rev + 1
  /\ Changed(a, v) = {} => b.latest = a.latest

LEMMA UpsertedFacts ==
  ASSUME NEW a \in Archives, NEW S \in SUBSET Lous, NEW v \in [S -> Versions]
  PROVE  IsUpserted(a, S, v, Upserted(a, v))
<1> DEFINE b == Upserted(a, v)
<1>1. DOMAIN v = S /\ \A l \in S : v[l] \in Versions
  OBVIOUS
<1>2. /\ a.latest \in [Lous -> Texts] /\ a.seen \in [Lous -> SUBSET Versions] /\ a.rev \in Nat
  BY DEF Archives
<1>3. /\ Latest(a, v) \in [Lous -> Texts]
      /\ \A l \in Lous : Latest(a, v)[l] = IF l \in S THEN v[l] ELSE a.latest[l]
  BY <1>1, <1>2 DEF Latest, Texts
<1>4. Seen(a, v) \in [Lous -> SUBSET Versions]
  BY <1>1, <1>2 DEF Seen
<1>5. Changed(a, v) \in SUBSET S /\ \A l \in S \ Changed(a, v) : v[l] = a.latest[l]
  BY <1>1 DEF Changed
<1>6. PICK r \in Nat : r = IF Changed(a, v) = {} THEN a.rev ELSE a.rev + 1
  BY <1>2
<1>7. b = [a EXCEPT !.latest = Latest(a, v), !.seen = Seen(a, v), !.rev = r]
  BY <1>6 DEF Upserted
<1>8. /\ b \in Archives /\ b.latest = Latest(a, v) /\ b.rev = r
      /\ b.overlay = a.overlay /\ b.chosen = a.chosen /\ b.map = a.map
      /\ b.built = a.built /\ b.floorRev = a.floorRev
  BY <1>3, <1>4, <1>7 DEF Archives
<1>9. Changed(a, v) = {} => Latest(a, v) = a.latest
  BY <1>2, <1>3, <1>5
<1> QED  BY <1>3, <1>5, <1>6, <1>8, <1>9 DEF IsUpserted

LEMMA MarkedFacts ==
  ASSUME NEW a \in Archives, NEW S \in SUBSET Lous, NEW b, b = MarkedRecovered(a, S)
  PROVE  /\ b \in Archives /\ b.latest = a.latest /\ b.rev = a.rev
         /\ b.overlay = a.overlay /\ b.chosen = a.chosen /\ b.built = a.built
         /\ b.floorRev = IF S = {} THEN a.floorRev ELSE a.floorRev + 1
<1>1. PICK r \in Nat : r = IF S = {} THEN a.floorRev ELSE a.floorRev + 1
  BY DEF Archives
<1>2. PICK m \in [Lous -> Entries] :
        m = [l \in Lous |-> IF l \in S THEN "recovered" ELSE a.map[l]]
  BY DEF Archives, Entries
<1>3. b = [a EXCEPT !.map = m, !.floorRev = r]
  BY <1>1, <1>2 DEF MarkedRecovered
<1> QED  BY <1>1, <1>3 DEF Archives

-----------------------------------------------------------------------------
(* What the files promise, while they change.                                *)

LEMMA MarksAreNot ==
  /\ \A mark \in FloorMarks : mark # None /\ mark[1] \in Nat \X Nat
  /\ \A mark \in ImageMarks : mark # None /\ mark[1] \in Nat /\ mark[2] \in Prints
BY NoneIsAbsent DEF FloorMarks, ImageMarks

LEMMA ShownIsUrls ==
  ASSUME NEW a \in Archives, NEW prints \in Prints, NEW l \in Lous
  PROVE  Shown(a, prints, l) \in SUBSET Urls
<1>1. /\ prints[1][l] \in (SUBSET Urls) \cup {None} /\ prints[2][l] \in Texts
      /\ a.latest[l] \in Texts
  BY DEF Prints, Archives, Texts
<1>2. \A v \in Versions : RefsOf[v.body] \in SUBSET Urls
  BY TextsReferToUrls DEF Versions
<1>3. prints[1][l] # None => prints[1][l] \in SUBSET Urls
  BY <1>1
<1>4. prints[2][l] # None => RefsOf[prints[2][l].body] \in SUBSET Urls
  BY <1>1, <1>2 DEF Texts
<1>5. a.latest[l] # None => RefsOf[a.latest[l].body] \in SUBSET Urls
  BY <1>1, <1>2 DEF Texts
<1> QED  BY <1>3, <1>4, <1>5 DEF Shown

LEMMA RefsAreShown ==
  ASSUME NEW a \in Archives, NEW l \in Lous
  PROVE  /\ Fingerprints(a) \in Prints /\ Refs(a, l) = Shown(a, Fingerprints(a), l)
         /\ Refs(a, l) \in SUBSET Urls /\ Refs(a, l) # None
         /\ l \notin Present(a) => Refs(a, l) = {}
<1>1. /\ a.overlay \in Rows /\ a.chosen \in [Lous -> Texts] /\ a.latest \in [Lous -> Texts]
  BY DEF Archives
<1>2. Selections(a) \in [Lous -> Texts]
      /\ \A k \in Lous : Selections(a)[k] # None => Selections(a)[k] = a.chosen[k]
  BY <1>1 DEF Selections, Texts
<1>3. Fingerprints(a) \in Prints
  BY <1>1, <1>2 DEF Fingerprints, Prints, Rows, Texts
<1>4. Refs(a, l) = Shown(a, Fingerprints(a), l)
  BY <1>2 DEF Refs, Shown, Fingerprints, Present
<1>5. l \notin Present(a) => Refs(a, l) = {}
  BY DEF Refs
<1> QED  BY <1>3, <1>4, <1>5, ShownIsUrls, NoneIsAbsent

LEMMA FloorImagesMoved ==
  ASSUME NEW a \in Archives, NEW b \in Archives, NEW s, NEW m, NEW n, NEW l \in Lous,
         a.latest[l] = b.latest[l], m \subseteq n, FloorImages(a, s, m, l)
  PROVE  FloorImages(b, s, n, l)
BY DEF FloorImages, Shown, RowOK

\* The archive moves on: what is changed moves a revision.
LEMMA FloorMoved ==
  ASSUME NEW a \in Archives, NEW b \in Archives, NEW s \in States, FloorOK(a, s),
         a.rev <= b.rev, a.floorRev <= b.floorRev,
         a.rev = b.rev /\ a.floorRev = b.floorRev => a.latest = b.latest /\ a.built = b.built
  PROVE  FloorOK(b, s)
<1> SUFFICES ASSUME s.floor # None  PROVE FloorOK(b, s)
  BY DEF FloorOK
<1>1. /\ s.floor[1] \in Nat \X Nat /\ a.rev \in Nat /\ b.rev \in Nat
      /\ a.floorRev \in Nat /\ b.floorRev \in Nat
  BY MarksAreNot DEF States, Archives
<1>2. s.floor[1][1] <= a.rev /\ s.floor[1][2] <= a.floorRev
  BY DEF FloorOK
<1>3. s.floor[1][1] <= b.rev /\ s.floor[1][2] <= b.floorRev
  BY <1>1, <1>2
<1>4. ASSUME s.floor[1] = <<b.rev, b.floorRev>>
      PROVE  s.floors = Unresolved(b, s.floor[2]) /\ b.built = SignatureOf(b, s.floor[2])
  <2>1. a.rev = b.rev /\ a.floorRev = b.floorRev
    BY <1>1, <1>2, <1>4
  <2>2. s.floors = Unresolved(a, s.floor[2]) /\ a.built = SignatureOf(a, s.floor[2])
    BY <1>4, <2>1 DEF FloorOK
  <2> QED  BY <2>1, <2>2, SameFloors
<1> QED  BY <1>3, <1>4 DEF FloorOK

LEMMA ImageMoved ==
  ASSUME NEW a \in Archives, NEW b \in Archives, NEW s \in States, NEW m, NEW n,
         ImageOK(a, s, m), a.rev <= b.rev, a.rev = b.rev => a.latest = b.latest, m \subseteq n
  PROVE  ImageOK(b, s, n)
<1> SUFFICES ASSUME s.image # None  PROVE ImageOK(b, s, n)
  BY DEF ImageOK
<1>1. s.image[1] \in Nat /\ a.rev \in Nat /\ b.rev \in Nat /\ s.image[1] <= a.rev
  BY MarksAreNot DEF States, Archives, ImageOK
<1>2. ASSUME s.image[1] = b.rev
      PROVE  /\ \A l \in Lous : FloorImages(b, s, n, l)
             /\ s.manifest # None => s.manifest.rev = b.rev
  <2>1. a.rev = b.rev
    BY <1>1, <1>2
  <2>2. /\ \A l \in Lous : FloorImages(a, s, m, l)
        /\ s.manifest # None => s.manifest.rev = a.rev
    BY <1>2, <2>1 DEF ImageOK
  <2> QED  BY <2>1, <2>2, FloorImagesMoved
<1>3. s.image[1] <= b.rev
  BY <1>1
<1> QED  BY <1>2, <1>3 DEF ImageOK

LEMMA ManifestMoved ==
  ASSUME NEW s, NEW m, NEW n, ManifestOK(s, m), m \subseteq n
  PROVE  ManifestOK(s, n)
BY DEF ManifestOK

\* What is not derived does not matter to the images: only these four fields do.
LEMMA SameImages ==
  ASSUME NEW a, NEW s, NEW r, NEW m, ImageOK(a, s, m), ManifestOK(s, m),
         r.image = s.image, r.images = s.images, r.manifest = s.manifest, r.counts = s.counts
  PROVE  ImageOK(a, r, m) /\ ManifestOK(r, m) /\ \A l : FloorImages(a, s, m, l) => FloorImages(a, r, m, l)
BY DEF ImageOK, ManifestOK, FloorImages

LEMMA FilesMoved ==
  ASSUME Types, Files, archive' \in Archives, UNCHANGED state, mapped \subseteq mapped',
         archive.rev <= archive'.rev, archive.floorRev <= archive'.floorRev,
         archive.rev = archive'.rev => archive.latest = archive'.latest,
         archive.rev = archive'.rev /\ archive.floorRev = archive'.floorRev
           => archive.built = archive'.built
  PROVE  Files'
<1>1. archive \in Archives /\ state \in States
  BY DEF Types
<1>2. FloorOK(archive', state)
  BY <1>1, FloorMoved DEF Files
<1>3. ImageOK(archive', state, mapped')
  BY <1>1, ImageMoved DEF Files
<1>4. ManifestOK(state, mapped')
  BY ManifestMoved DEF Files
<1> QED  BY <1>2, <1>3, <1>4 DEF Files

-----------------------------------------------------------------------------
(* The initial states.                                                       *)

LEMMA NoneTyped ==
  /\ NoJob \in Jobs /\ NoJob.base = None /\ NoJob.changed = {} /\ ~NoJob.full
  /\ FreshArchive \in Archives /\ FreshState \in States
  /\ \A l \in Lous : Nowhere(None)[l] = None
<1>1. /\ Nowhere(None) \in [Lous -> Texts] /\ Nowhere(None) \in Rows
      /\ Nowhere({}) \in [Lous -> SUBSET Versions] /\ Nowhere("absent") \in [Lous -> Entries]
      /\ \A l \in Lous : Nowhere(None)[l] = None
  BY DEF Nowhere, Texts, Rows, Entries
<1>2. NoPlan \in AllPlans
  BY DEF NoPlan, AllPlans, Kinds
<1>3. NoJob \in Jobs /\ NoJob.base = None /\ NoJob.changed = {} /\ ~NoJob.full
  BY <1>2 DEF NoJob, Jobs
<1>4. FreshArchive \in Archives
  BY <1>1 DEF FreshArchive, Archives
<1>5. FreshState \in States
  BY DEF FreshState, States
<1> QED  BY <1>1, <1>3, <1>4, <1>5

\* A state put together field by field.
StateOf(p, f, ls, i, us, mf, c) ==
  [pagination |-> p, floor |-> f, floors |-> ls, image |-> i, images |-> us,
   manifest |-> mf, counts |-> c]

LEMMA StateTyped ==
  ASSUME NEW p \in Totals, NEW f \in FloorMarks \cup {None}, NEW ls \in SUBSET Lous,
         NEW i \in ImageMarks \cup {None}, NEW us \in SUBSET Urls,
         NEW mf \in Manifests \cup {None}, NEW c \in [Urls -> Nat]
  PROVE  StateOf(p, f, ls, i, us, mf, c) \in States
BY DEF States, StateOf

LEMMA InheritedOK ==
  ASSUME NEW b \in Bodies, NEW m \in SUBSET RefsOf[b], NEW a, a = Inherited(b),
         NEW s, s = [InheritedState(b) EXCEPT !.images = RefsOf[b] \ m]
  PROVE  /\ a \in Archives /\ s \in States /\ m \in SUBSET Urls
         /\ FloorOK(a, s) /\ ImageOK(a, s, m) /\ ManifestOK(s, m)
<1> DEFINE v == [body |-> b, anon |-> FALSE]
<1>1. v \in Versions /\ v.body = b /\ v.anon = FALSE /\ v # None
  <2>1. v \in Versions /\ v.body = b /\ v.anon = FALSE
    BY DEF Versions
  <2> HIDE DEF v
  <2> QED  BY <2>1, NoneIsAbsent
<1>2. RefsOf[b] \in SUBSET Urls /\ 1 \in Lous /\ 1 \in Totals /\ 0 \in Totals
  BY TextsReferToUrls, FloorsAreNumbers DEF Totals
<1>3. a = [FreshArchive EXCEPT !.latest[1] = v, !.seen[1] = {v}, !.map[1] = "known",
             !.built = <<{1}, {}>>, !.rev = 1, !.floorRev = 1]
  BY DEF Inherited
<1> HIDE DEF v
<1>4. FreshArchive.latest \in [Lous -> Texts] /\ FreshArchive.seen \in [Lous -> SUBSET Versions]
      /\ FreshArchive.map \in [Lous -> Entries] /\ FreshArchive.latest = Nowhere(None)
      /\ FreshArchive.overlay = Nowhere(None) /\ FreshArchive.chosen = Nowhere(None)
  BY NoneTyped DEF FreshArchive, Archives
<1>5. PICK latest \in [Lous -> Texts], seen \in [Lous -> SUBSET Versions],
           entries \in [Lous -> Entries] :
        /\ latest = [FreshArchive.latest EXCEPT ![1] = v]
        /\ seen = [FreshArchive.seen EXCEPT ![1] = {v}]
        /\ entries = [FreshArchive.map EXCEPT ![1] = "known"]
  BY <1>1, <1>2, <1>4 DEF Texts, Entries
<1>6. a = [latest |-> latest, seen |-> seen, overlay |-> Nowhere(None),
           chosen |-> Nowhere(None), map |-> entries, built |-> <<{1}, {}>>, rev |-> 1,
           floorRev |-> 1]
  BY <1>3, <1>5, ZenonT(30) DEF FreshArchive
<1>7. <<{1}, {}>> \in ((SUBSET Lous) \X (SUBSET Lous)) \cup {None}
  BY <1>2
<1>8. /\ a \in Archives /\ a.latest = latest /\ a.built = <<{1}, {}>> /\ a.rev = 1
      /\ a.floorRev = 1 /\ a.overlay = Nowhere(None) /\ a.chosen = Nowhere(None)
  <2>1. Nowhere(None) \in Rows /\ Nowhere(None) \in [Lous -> Texts]
    BY DEF Nowhere, Rows, Texts
  <2> QED  BY <1>6, <1>7, <2>1 DEF Archives
<1>9. \A l \in Lous : a.latest[l] = IF l = 1 THEN v ELSE None
  BY <1>2, <1>4, <1>5, <1>8, NoneTyped
<1>10. Present(a) = {1} /\ PostRefs(a) = {1}
  BY <1>1, <1>2, <1>9 DEF Present, PostRefs
<1>11. Missing(a, 1) = {}
  BY <1>10, FloorsAreNumbers DEF Missing
<1>12. Fingerprints(a) \in Prints
  BY <1>2, <1>8, RefsAreShown
<1>13. /\ s = [pagination |-> 1, floor |-> <<<<1, 1>>, 1>>, floors |-> {},
                image |-> <<1, Fingerprints(a)>>, images |-> RefsOf[b] \ m,
                manifest |-> None, counts |-> [u \in Urls |-> 0]]
       /\ <<<<1, 1>>, 1>> \in FloorMarks /\ <<1, Fingerprints(a)>> \in ImageMarks
  <2>1. <<<<1, 1>>, 1>> \in FloorMarks /\ <<1, Fingerprints(a)>> \in ImageMarks
    BY <1>2, <1>12 DEF FloorMarks, ImageMarks
  <2> QED  BY <2>1 DEF InheritedState, FreshState
<1>14. /\ s \in States /\ s.floor = <<<<1, 1>>, 1>> /\ s.image = <<1, Fingerprints(a)>>
       /\ s.images = RefsOf[b] \ m /\ s.manifest = None /\ s.floors = {}
  <2>1. PICK c \in [Urls -> Nat], us \in SUBSET Urls :
          c = [u \in Urls |-> 0] /\ us = RefsOf[b] \ m
    BY <1>2
  <2>2. PICK f \in FloorMarks, i \in ImageMarks :
          f = <<<<1, 1>>, 1>> /\ i = <<1, Fingerprints(a)>>
    BY <1>13
  <2>3. s = StateOf(1, f, {}, i, us, None, c)
    BY <1>13, <2>1, <2>2 DEF StateOf
  <2>4. s \in States
    BY <1>2, <2>3, StateTyped, SMTT(20)
  <2> QED  BY <2>1, <2>2, <2>3, <2>4 DEF StateOf
<1>15. FloorOK(a, s)
  BY <1>8, <1>10, <1>11, <1>14 DEF FloorOK, SignatureOf, Unresolved
<1>16. ASSUME NEW l \in Lous  PROVE FloorImages(a, s, m, l)
  <2>1. Shown(a, Fingerprints(a), l) = Refs(a, l)
    BY <1>8, RefsAreShown
  <2>2. Refs(a, l) \in {{}, RefsOf[b]}
    <3>1. Selections(a)[l] = None
      BY <1>8, NoneTyped DEF Selections
    <3>2. a.overlay[l] = None
      BY <1>8, NoneTyped
    <3> QED  BY <1>1, <1>9, <1>10, <3>1, <3>2 DEF Refs
  <2> QED  BY <1>14, <2>1, <2>2 DEF FloorImages
<1>17. ImageOK(a, s, m) /\ ManifestOK(s, m)
  <2>1. s.image[1] = 1 /\ s.image[1] <= a.rev /\ s.manifest = None
    BY <1>8, <1>14
  <2> QED  BY <1>16, <2>1 DEF ImageOK, ManifestOK
<1> QED  BY <1>2, <1>8, <1>14, <1>15, <1>17

\* Between runs nothing is promised of a run.
LEMMA IdleRun ==
  ASSUME pc \in {"idle", "refused"}
  PROVE  Run
BY DEF Run, TotalOK, ShortOK, BuildOK, BuildDone, BaseOK, PlanOK, Running

LEMMA InitOK == Init => IInv
<1> SUFFICES ASSUME Init  PROVE IInv
  OBVIOUS
<1>1. pc = "idle" /\ job = NoJob /\ runs = 0 /\ edits = 0
  BY DEF Init
<1>2. Run
  BY <1>1, IdleRun
<1>3. CASE archive = FreshArchive /\ state = FreshState /\ mapped = {}
  <2>1. FreshState.floor = None /\ FreshState.image = None /\ FreshState.manifest = None
    BY DEF FreshState
  <2>2. Files
    BY <1>3, <2>1 DEF Files, FloorOK, ImageOK, ManifestOK
  <2>3. Types
    BY <1>1, <1>3, NoneTyped, BoundsAreNumbers DEF Types, Pcs
  <2> QED  BY <1>2, <2>2, <2>3 DEF IInv
<1>4. ASSUME NEW b \in Bodies, archive = Inherited(b), mapped \in SUBSET RefsOf[b],
             state = [InheritedState(b) EXCEPT !.images = RefsOf[b] \ mapped]
      PROVE  IInv
  <2>1. /\ archive \in Archives /\ state \in States /\ mapped \in SUBSET Urls /\ Files
    BY <1>4, InheritedOK DEF Files
  <2>2. Types
    BY <1>1, <2>1, NoneTyped, BoundsAreNumbers DEF Types, Pcs
  <2> QED  BY <1>2, <2>1, <2>2 DEF IInv
<1> QED  BY <1>3, <1>4 DEF Init

-----------------------------------------------------------------------------
(* Frames: what a step that leaves the derived state alone keeps.            *)

LEMMA BaseMoved ==
  ASSUME Types, BaseOK, Running, archive' \in Archives, archive.rev <= archive'.rev,
         job'.base = job.base, job.changed \subseteq job'.changed, job'.changed \in SUBSET Lous,
         \A l \in Lous \ job'.changed : archive'.latest[l] = archive.latest[l],
         state'.image = state.image, state'.images = state.images,
         state'.manifest = state.manifest, mapped \subseteq mapped'
  PROVE  BaseOK'
<1>1. archive \in Archives /\ archive.rev \in Nat /\ archive'.rev \in Nat
  BY DEF Types, Archives
<1>2. /\ job.base \in Bases /\ job.base.image = state.image /\ job.base.rev <= archive.rev
      /\ job.base.rev \in Nat
  BY DEF BaseOK, Bases
<1>3. ASSUME state'.image # None, state'.image[1] = job'.base.rev,
             NEW l \in Lous \ job'.changed
      PROVE  FloorImages(archive', state', mapped', l)
  <2>1. FloorImages(archive, state, mapped, l)
    BY <1>3 DEF BaseOK
  <2>2. FloorImages(archive', state, mapped', l)
    BY <1>1, <2>1, FloorImagesMoved
  <2> QED  BY <2>2 DEF FloorImages
<1>4. job'.base.rev <= archive'.rev
  BY <1>1, <1>2
<1> QED  BY <1>2, <1>3, <1>4 DEF BaseOK

LEMMA BaseTyped == Types => Base \in Bases
BY DEF Types, States, Archives, Base, Bases

LEMMA BaseBegun ==
  ASSUME Types, Files, archive' \in Archives, archive.rev <= archive'.rev,
         job'.base = Base, UNCHANGED <<state, mapped>>,
         \A l \in Lous \ job'.changed : archive'.latest[l] = archive.latest[l]
  PROVE  BaseOK' /\ Base \in Bases
<1>1. archive \in Archives /\ archive.rev \in Nat /\ state.image \in ImageMarks \cup {None}
  BY DEF Types, Archives, States
<1>2. /\ job'.base = [image |-> state.image, rev |-> archive.rev] /\ job'.base \in Bases
      /\ job'.base.image = state.image /\ job'.base.rev = archive.rev
  BY <1>1 DEF Base, Bases
<1>3. ASSUME state.image # None, state.image[1] = archive.rev, NEW l \in Lous \ job'.changed
      PROVE  FloorImages(archive', state, mapped, l)
  <2>1. FloorImages(archive, state, mapped, l)
    BY <1>3 DEF Files, ImageOK
  <2> QED  BY <1>1, <2>1, FloorImagesMoved
<1> QED  BY <1>2, <1>3 DEF BaseOK

\* Anonymous texts are not the author's posts: what is missing stays missing, but
\* is no longer unresolved.
AnonWritten(a, S, v, b) ==
  /\ v \in [S -> Versions] /\ PostRefs(b) = PostRefs(a) /\ Present(b) = Present(a) \cup S
  /\ \A t : /\ Missing(b, t) = Missing(a, t) /\ Unresolved(b, t) = Unresolved(a, t) \ S
            /\ SignatureOf(b, t) = SignatureOf(a, t)

LEMMA AnonUpserted ==
  ASSUME NEW a \in Archives, NEW S \in SUBSET Lous, S \cap PostRefs(a) = {},
         NEW v \in [S -> Versions], \A l \in S : v[l].anon = TRUE
  PROVE  AnonWritten(a, S, v, Upserted(a, v))
<1> DEFINE b == Upserted(a, v)
<1> HIDE DEF b
<1>1. \A l \in S : v[l].anon = TRUE
  OBVIOUS
<1>2. \A l \in S : v[l] # None
  BY NoneIsAbsent
<1>3. \A l \in Lous : b.latest[l] = IF l \in S THEN v[l] ELSE a.latest[l]
  <2>1. IsUpserted(a, S, v, b)
    BY UpsertedFacts DEF b
  <2> QED  BY <2>1 DEF IsUpserted
<1>4. Present(b) = Present(a) \cup S
  BY <1>2, <1>3 DEF Present
<1>5. PostRefs(b) = PostRefs(a)
  BY <1>1, <1>3, <1>4 DEF PostRefs, Present
<1>6. \A t : Missing(b, t) = Missing(a, t)
  BY <1>5 DEF Missing
<1>7. AnonWritten(a, S, v, b)
  BY <1>4, <1>5, <1>6 DEF Unresolved, SignatureOf, AnonWritten
<1> QED  BY <1>7 DEF b

-----------------------------------------------------------------------------
(* The steps before the ladder.                                              *)

SyncJob(vrows, forced, immediate, base, changed, added, inc) ==
  [NoJob EXCEPT !.total = vrows, !.forced = forced, !.immediate = immediate, !.base = base,
                !.changed = changed, !.added = added, !.inc = inc]

LEMMA SyncJobTyped ==
  ASSUME NEW vrows \in Totals, NEW forced \in BOOLEAN, NEW immediate \in BOOLEAN,
         NEW base \in Bases, NEW changed \in SUBSET Lous, NEW added \in SUBSET Lous,
         NEW inc \in Nat,
         NEW j, j = SyncJob(vrows, forced, immediate, base, changed, added, inc)
  PROVE  j \in Jobs /\ j.total = vrows /\ j.base = base /\ j.changed = changed /\ ~j.full
<1>1. j = [total |-> vrows, forced |-> forced, immediate |-> immediate, base |-> base,
           changed |-> changed, added |-> added, inc |-> inc, snap |-> None, always |-> FALSE,
           due |-> {}, unresolved |-> {}, recovered |-> None, full |-> FALSE,
           cacheable |-> TRUE, plan |-> NoPlan]
  BY DEF SyncJob, NoJob
<1>2. NoPlan \in AllPlans
  BY DEF NoPlan, AllPlans, Kinds
<1> QED  BY <1>1, <1>2 DEF Jobs

StoresPage(vrows, forced, immediate, page) ==
  LET changed == Changed(archive, page)
  IN  /\ archive' = Upserted(archive, page)
      /\ job' = SyncJob(vrows, forced, immediate, Base, changed, changed \ Present(archive),
                        IF changed = {} THEN 0 ELSE 1)

LEMMA BeginSyncOK == IInv /\ BeginSync => IInv'
<1> SUFFICES ASSUME IInv, BeginSync  PROVE IInv'
  OBVIOUS
<1>1. /\ Types /\ Files /\ archive \in Archives /\ pc = "idle" /\ pc' = "pages"
      /\ runs \in 0..MaxRuns /\ runs < MaxRuns /\ runs' = runs + 1
      /\ UNCHANGED <<state, mapped, edits>>
  BY DEF IInv, Types, BeginSync, Goto
<1>2. PICK vrows \in Totals, forced \in BOOLEAN, immediate \in BOOLEAN :
        \E shown \in SUBSET (1..vrows) : \E page \in [shown -> Versions] :
          StoresPage(vrows, forced, immediate, page)
  <2>1. PICK vrows \in Totals, forced \in BOOLEAN, immediate \in BOOLEAN :
          \E shown \in SUBSET (1..vrows) : \E body \in [shown -> Bodies] :
            LET page == [l \in shown |-> [body |-> body[l], anon |-> FALSE]]
                changed == Changed(archive, page)
            IN  /\ forced => immediate
                /\ archive' = Upserted(archive, page)
                /\ job' = [NoJob EXCEPT !.total = vrows, !.forced = forced,
                             !.immediate = immediate, !.base = Base, !.changed = changed,
                             !.added = changed \ Present(archive),
                             !.inc = IF changed = {} THEN 0 ELSE 1]
    BY DEF BeginSync
  <2>2. PICK shown \in SUBSET (1..vrows) : \E body \in [shown -> Bodies] :
          StoresPage(vrows, forced, immediate, [l \in shown |-> [body |-> body[l], anon |-> FALSE]])
    BY <2>1 DEF StoresPage, SyncJob
  <2>3. PICK body \in [shown -> Bodies] :
          StoresPage(vrows, forced, immediate, [l \in shown |-> [body |-> body[l], anon |-> FALSE]])
    BY <2>2
  <2>4. [l \in shown |-> [body |-> body[l], anon |-> FALSE]] \in [shown -> Versions]
    BY DEF Versions
  <2> QED  BY <2>3, <2>4
<1>3. PICK shown \in SUBSET (1..vrows) : \E page \in [shown -> Versions] :
        StoresPage(vrows, forced, immediate, page)
  BY <1>2
<1>4. PICK page \in [shown -> Versions] : StoresPage(vrows, forced, immediate, page)
  BY <1>3
<1>5. PICK changed : changed = Changed(archive, page)
  OBVIOUS
<1>6. shown \in SUBSET Lous /\ Present(archive) \in SUBSET Lous
  BY <1>2, <1>3, FloorsAreNumbers DEF Present
<1>7. /\ archive' \in Archives /\ archive'.floorRev = archive.floorRev
      /\ archive'.built = archive.built /\ changed \in SUBSET Lous
      /\ \A l \in Lous \ changed : archive'.latest[l] = archive.latest[l]
      /\ archive'.rev = IF changed = {} THEN archive.rev ELSE archive.rev + 1
      /\ changed = {} => archive'.latest = archive.latest
  <2>1. IsUpserted(archive, shown, page, archive')
    BY <1>1, <1>4, <1>6, UpsertedFacts DEF StoresPage
  <2> QED  BY <1>5, <1>6, <2>1 DEF IsUpserted
<1>8. /\ archive.rev \in Nat /\ archive'.rev \in Nat /\ archive.floorRev \in Nat
      /\ archive.rev <= archive'.rev /\ archive.floorRev <= archive'.floorRev
      /\ archive.rev = archive'.rev => changed = {}
  BY <1>1, <1>7 DEF Archives
<1>9. PICK ad \in SUBSET Lous, inc \in Nat :
        ad = changed \ Present(archive) /\ inc = IF changed = {} THEN 0 ELSE 1
  BY <1>7
<1>10. job' = SyncJob(vrows, forced, immediate, Base, changed, ad, inc)
  BY <1>4, <1>5, <1>9 DEF StoresPage
<1>11. job'.total = vrows /\ job'.base = Base /\ job'.changed = changed /\ ~job'.full
  BY <1>1, <1>2, <1>7, <1>9, <1>10, BaseTyped, SyncJobTyped
<1>12. BaseOK' /\ Base \in Bases
  BY <1>1, <1>7, <1>8, <1>11, BaseBegun
<1>13. job' \in Jobs
  BY <1>2, <1>7, <1>9, <1>10, <1>12, SyncJobTyped
<1>14. Types'
  BY <1>1, <1>7, <1>13, BoundsAreNumbers DEF Types, Pcs
<1>15. Files'
  BY <1>1, <1>7, <1>8, FilesMoved
<1>16. TotalOK' /\ ShortOK' /\ BuildOK' /\ PlanOK'
  BY <1>1, <1>2, <1>11 DEF TotalOK, ShortOK, BuildOK, BuildDone, PlanOK
<1> QED  BY <1>12, <1>14, <1>15, <1>16 DEF IInv, Run

LEMMA CommitPaginationOK == IInv /\ CommitPagination => IInv'
<1> SUFFICES ASSUME IInv, CommitPagination  PROVE IInv'
  OBVIOUS
<1>1. /\ Types /\ Files /\ Run /\ pc = "pages" /\ pc' = "repair"
      /\ UNCHANGED <<archive, mapped, job, runs, edits>>
      /\ state' = [state EXCEPT !.pagination = job.total]
  BY DEF IInv, CommitPagination, Goto
<1>2. job.total \in Totals /\ Running /\ state \in States /\ job \in Jobs
  BY <1>1 DEF Run, TotalOK, Running, Types
<1>3. /\ state' \in States /\ state'.pagination = job.total /\ state'.floor = state.floor
      /\ state'.floors = state.floors /\ state'.image = state.image
      /\ state'.images = state.images /\ state'.manifest = state.manifest
      /\ state'.counts = state.counts
  BY <1>1, <1>2 DEF States
<1>4. Types'
  BY <1>1, <1>3 DEF Types, Pcs
<1>5. Files'
  <2>1. ImageOK(archive, state', mapped) /\ ManifestOK(state', mapped)
    BY <1>1, <1>3, SameImages DEF Files
  <2>2. FloorOK(archive, state')
    BY <1>1, <1>3 DEF Files, FloorOK
  <2> QED  BY <1>1, <2>1, <2>2 DEF Files
<1>6. BaseOK'
  <2>1. archive \in Archives /\ archive.rev \in Nat /\ job.changed \in SUBSET Lous
    BY <1>1, <1>2 DEF Types, Archives, Jobs
  <2> QED  BY <1>1, <1>2, <1>3, <2>1, BaseMoved DEF Run
<1>7. TotalOK' /\ ShortOK' /\ BuildOK' /\ PlanOK'
  BY <1>1, <1>2, <1>3 DEF Run, TotalOK, ShortOK, BuildOK, BuildDone, PlanOK
<1> QED  BY <1>4, <1>5, <1>6, <1>7 DEF IInv, Run

LEMMA BeginMaintainOK == IInv /\ BeginMaintain => IInv'
<1> SUFFICES ASSUME IInv, BeginMaintain  PROVE IInv'
  OBVIOUS
<1>1. /\ Types /\ Files /\ pc = "idle" /\ pc' = "repair" /\ runs \in 0..MaxRuns
      /\ runs < MaxRuns /\ runs' = runs + 1 /\ state.pagination # None
      /\ UNCHANGED <<archive, state, mapped, edits>> /\ archive \in Archives
  BY DEF IInv, Types, BeginMaintain, Goto
<1>2. PICK immediate, vrows, bs :
        /\ immediate \in BOOLEAN /\ vrows = state.pagination /\ bs = Base
        /\ job' = [NoJob EXCEPT !.total = vrows, !.base = bs, !.immediate = immediate]
  BY DEF BeginMaintain
<1>3. vrows \in Totals
  BY <1>1, <1>2 DEF Types, States
<1>4. job'.total = vrows /\ job'.base = bs /\ job'.changed = {} /\ ~job'.full
  BY <1>2, NoneTyped DEF Jobs
<1>5. BaseOK' /\ Base \in Bases
  <2>1. archive.rev \in Nat
    BY <1>1 DEF Archives
  <2> QED  BY <1>1, <1>2, <1>4, <2>1, BaseBegun
<1>6. job' \in Jobs
  BY <1>2, <1>3, <1>5, NoneTyped, ZenonT(30) DEF Jobs
<1>7. Types'
  BY <1>1, <1>6, BoundsAreNumbers DEF Types, Pcs
<1>8. Files'
  BY <1>1 DEF Files
<1>9. TotalOK' /\ ShortOK' /\ BuildOK' /\ PlanOK'
  BY <1>1, <1>2, <1>3, <1>4 DEF TotalOK, ShortOK, BuildOK, BuildDone, PlanOK
<1> QED  BY <1>5, <1>7, <1>8, <1>9 DEF IInv, Run

\* Steps after which no run is left.
LEMMA RunEnds ==
  ASSUME IInv, pc' \in {"idle", "refused"}, job' = NoJob, UNCHANGED <<archive, state, mapped>>,
         UNCHANGED <<runs, edits>>
  PROVE  IInv'
<1>1. Types'
  BY NoneTyped DEF IInv, Types, Pcs
<1>2. Files'
  BY DEF IInv, Files
<1>3. Run'
  BY DEF Run, TotalOK, ShortOK, BuildOK, BuildDone, BaseOK, PlanOK, Running
<1> QED  BY <1>1, <1>2, <1>3 DEF IInv

LEMMA EndsOK == IInv /\ (Refuse \/ Refused \/ EndUncached \/ Crash) => IInv'
BY RunEnds DEF Refuse, Refused, EndUncached, Crash, EndRun, Goto

-----------------------------------------------------------------------------
(* The short ways.                                                           *)

LEMMA RepairRecoveredOK == IInv /\ RepairRecovered => IInv'
<1> SUFFICES ASSUME IInv, RepairRecovered  PROVE IInv'
  OBVIOUS
<1>1. /\ Types /\ Files /\ Run /\ pc = "repair" /\ pc' \in {"full", "reuse"}
      /\ archive \in Archives /\ job \in Jobs /\ Running
      /\ UNCHANGED <<state, mapped, runs, edits>>
  BY DEF IInv, Types, RepairRecovered, Goto, Running
<1>2. PICK found, snap :
        /\ found \in SUBSET Lous /\ archive' = MarkedRecovered(archive, found)
        /\ snap = <<archive'.rev, archive'.floorRev>> /\ job' = [job EXCEPT !.snap = snap]
  BY DEF RepairRecovered, Present
<1>3. /\ archive' \in Archives /\ archive'.latest = archive.latest
      /\ archive'.rev = archive.rev /\ archive'.built = archive.built
      /\ archive'.floorRev = IF found = {} THEN archive.floorRev ELSE archive.floorRev + 1
  BY <1>1, <1>2, MarkedFacts
<1>4. /\ archive.rev \in Nat /\ archive.floorRev \in Nat /\ archive'.floorRev \in Nat
      /\ archive.rev <= archive'.rev /\ archive.floorRev <= archive'.floorRev
  BY <1>1, <1>3 DEF Archives
<1>5. snap \in Nat \X Nat /\ job.changed \in SUBSET Lous
  BY <1>1, <1>2, <1>3, <1>4 DEF Jobs
<1>6. /\ job' \in Jobs /\ job'.snap = snap /\ job'.total = job.total
      /\ job'.base = job.base /\ job'.changed = job.changed /\ job'.full = job.full
  BY <1>1, <1>2, <1>5 DEF Jobs
<1>7. Types'
  BY <1>1, <1>3, <1>6 DEF Types, Pcs
<1>8. Files'
  BY <1>1, <1>3, <1>4, FilesMoved
<1>9. BaseOK'
  BY <1>1, <1>3, <1>4, <1>5, <1>6, BaseMoved DEF Run
<1>10. TotalOK'
  BY <1>1, <1>6 DEF Run, TotalOK, Running
<1>11. ShortOK' /\ BuildOK' /\ PlanOK'
  BY <1>1, <1>2, <1>6 DEF Run, ShortOK, BuildOK, BuildDone, PlanOK, Revisions
<1> QED  BY <1>7, <1>8, <1>9, <1>10, <1>11 DEF IInv, Run

\* A floor mark that counts as current speaks of the run's floors.
LEMMA FloorIsTrue ==
  ASSUME Types, Files, FloorCurrent
  PROVE  /\ state.floors = Unresolved(archive, state.pagination)
         /\ archive.built = SignatureOf(archive, state.pagination)
<1>1. state.floor # None
  <2>1. Revisions \in Nat \X Nat /\ state.pagination \in Totals \cup {None}
    BY DEF Types, Archives, States, Revisions
  <2>2. <<Revisions, state.pagination>> \in FloorMarks
    BY <2>1 DEF FloorMarks
  <2> QED  BY <2>2, NoneIsAbsent DEF FloorCurrent
<1> QED  BY <1>1 DEF FloorCurrent, Revisions, Files, FloorOK

LEMMA ReuseFloorStateOK == IInv /\ ReuseFloorState => IInv'
<1> SUFFICES ASSUME IInv, ReuseFloorState  PROVE IInv'
  OBVIOUS
<1>1. /\ Types /\ Files /\ Run /\ pc = "reuse" /\ archive \in Archives /\ job \in Jobs
      /\ state \in States /\ Running /\ UNCHANGED <<archive, state, mapped, runs, edits>>
  BY DEF IInv, Types, ReuseFloorState, Running
<1>2. /\ job.snap = Revisions /\ state.pagination = job.total /\ job.total \in Totals
      /\ ~job.full
      /\ job.changed \in SUBSET Lous /\ archive.rev <= archive.rev
  BY <1>1 DEF Run, ShortOK, TotalOK, Jobs, Archives
<1>3. \/ /\ FloorCurrent /\ pc' \in {"images", "exact", "refresh"}
         /\ \E due \in SUBSET state.floors : job' = [job EXCEPT !.due = due]
      \/ /\ pc' \in {"full", "refresh"} /\ job' = [job EXCEPT !.always = TRUE]
  BY DEF ReuseFloorState, DueChoices, Goto
<1>4. /\ job' \in Jobs /\ job'.total = job.total /\ job'.base = job.base
      /\ job'.changed = job.changed /\ job'.snap = job.snap /\ job'.full = job.full
      /\ pc' = "exact" => job'.due \subseteq state.floors
      /\ \/ FloorCurrent /\ pc' \in {"images", "exact", "refresh"}
         \/ job'.always /\ pc' \in {"full", "refresh"}
  <2>1. CASE /\ FloorCurrent /\ pc' \in {"images", "exact", "refresh"}
             /\ \E due \in SUBSET state.floors : job' = [job EXCEPT !.due = due]
    <3>1. PICK due \in SUBSET state.floors : job' = [job EXCEPT !.due = due]
      BY <2>1
    <3>2. due \in SUBSET Lous
      BY <1>1 DEF States
    <3> QED  BY <1>1, <2>1, <3>1, <3>2 DEF Jobs
  <2>2. CASE pc' \in {"full", "refresh"} /\ job' = [job EXCEPT !.always = TRUE]
    BY <1>1, <2>2 DEF Jobs
  <2> QED  BY <1>3, <2>1, <2>2
<1>5. Types'
  BY <1>1, <1>4 DEF Types, Pcs
<1>6. Files'
  BY <1>1 DEF Files
<1>7. BaseOK'
  BY <1>1, <1>2, <1>4, BaseMoved DEF Run
<1>8. TotalOK'
  BY <1>1, <1>2, <1>4 DEF TotalOK, Running
<1>9. ShortOK'
  <2>1. job'.snap = Revisions'
    BY <1>1, <1>2, <1>4 DEF Revisions
  <2>2. FloorCurrent => AsSnapped'
    BY <1>1, <1>2, <1>4 DEF FloorCurrent, AsSnapped
  <2> QED  BY <1>1, <1>2, <1>4, <2>1, <2>2 DEF ShortOK
<1>10. BuildOK'
  <2>1. pc' = "images" =>
          /\ FloorCurrent' /\ state.floors = Unresolved(archive, job.total)
          /\ archive.built = SignatureOf(archive, job.total)
    BY <1>1, <1>2, <1>4, FloorIsTrue DEF FloorCurrent, Revisions
  <2> QED  BY <1>1, <1>4, <2>1 DEF BuildOK, BuildDone
<1>11. PlanOK'
  BY <1>4 DEF PlanOK
<1> QED  BY <1>5, <1>6, <1>7, <1>8, <1>9, <1>10, <1>11 DEF IInv, Run

\* Texts of missing floors are written: the floors that get one are resolved.
Written(S, bodies) ==
  /\ archive' \in Archives /\ archive'.built = archive.built
  /\ archive'.floorRev = archive.floorRev /\ archive.rev <= archive'.rev
  /\ archive.rev = archive'.rev => archive.latest = archive'.latest
  /\ ~(S \subseteq Present(archive)) => archive'.rev = archive.rev + 1
  /\ \A t : /\ Missing(archive', t) = Missing(archive, t)
            /\ Unresolved(archive', t) = Unresolved(archive, t) \ S
            /\ SignatureOf(archive', t) = SignatureOf(archive, t)
  /\ job' \in Jobs /\ job'.recovered = bodies /\ job.changed \subseteq job'.changed
  /\ \A l \in Lous \ job'.changed : archive'.latest[l] = archive.latest[l]
  /\ job'.total = job.total /\ job'.base = job.base /\ job'.snap = job.snap
  /\ job'.always = job.always /\ job'.due = job.due /\ job'.unresolved = job.unresolved
  /\ job'.full = job.full /\ job'.cacheable = job.cacheable

LEMMA WrittenFacts ==
  ASSUME Types, NEW S \in SUBSET Lous, NEW bodies \in [S -> Hidden],
         S \cap PostRefs(archive) = {}, WriteRecovered(bodies)
  PROVE  Written(S, bodies)
<1>1. archive \in Archives /\ job \in Jobs /\ archive.rev \in Nat /\ Present(archive) \in SUBSET Lous
  BY DEF Types, Archives, Present
<1>2. PICK v, ch :
        /\ v = [l \in S |-> [body |-> bodies[l], anon |-> TRUE]] /\ ch = Changed(archive, v)
        /\ archive' = Upserted(archive, v)
        /\ job' = [job EXCEPT !.recovered = bodies, !.changed = @ \cup ch,
                     !.added = @ \cup (ch \ Present(archive)),
                     !.inc = IF ch = {} THEN @ ELSE @ + 1]
  <2>1. DOMAIN bodies = S
    OBVIOUS
  <2> QED  BY <2>1 DEF WriteRecovered
<1>3. /\ v \in [S -> Versions] /\ \A t : /\ Missing(archive', t) = Missing(archive, t)
            /\ Unresolved(archive', t) = Unresolved(archive, t) \ S
            /\ SignatureOf(archive', t) = SignatureOf(archive, t)
  <2>1. v \in [S -> Versions] /\ \A l \in S : v[l].anon = TRUE
    BY <1>2, TextsReferToUrls DEF Versions
  <2>2. AnonWritten(archive, S, v, archive')
    BY <1>1, <1>2, <2>1, AnonUpserted
  <2> QED  BY <2>1, <2>2 DEF AnonWritten
<1>4. IsUpserted(archive, S, v, archive')
  BY <1>1, <1>2, <1>3, UpsertedFacts
<1>5. /\ archive' \in Archives /\ archive'.built = archive.built
      /\ archive'.floorRev = archive.floorRev /\ archive.rev <= archive'.rev
      /\ archive.rev = archive'.rev => archive.latest = archive'.latest
      /\ ch # {} => archive'.rev = archive.rev + 1
      /\ \A l \in Lous \ ch : archive'.latest[l] = archive.latest[l]
  <2>1. /\ archive' \in Archives /\ archive'.built = archive.built
        /\ archive'.floorRev = archive.floorRev /\ ch \in SUBSET Lous
        /\ ch = {} => archive'.latest = archive.latest
        /\ archive'.rev = IF ch = {} THEN archive.rev ELSE archive.rev + 1
    BY <1>2, <1>4 DEF IsUpserted
  <2>2. \A l \in Lous \ ch : archive'.latest[l] = archive.latest[l]
    BY <1>2, <1>4 DEF IsUpserted
  <2>3. /\ archive.rev <= archive'.rev
        /\ ch # {} => archive'.rev = archive.rev + 1
        /\ archive.rev = archive'.rev => ch = {}
    <3>1. PICK x, y : x \in Nat /\ x = archive.rev /\ y = archive'.rev
      BY <1>1
    <3>2. y = IF ch = {} THEN x ELSE x + 1
      BY <2>1, <3>1
    <3>3. x <= y /\ (ch # {} => y = x + 1) /\ (x = y => ch = {})
      BY <3>1, <3>2
    <3> QED  BY <3>1, <3>3
  <2> QED  BY <2>1, <2>2, <2>3
<1>6. ~(S \subseteq Present(archive)) => ch # {}
  <2>1. ASSUME NEW l \in S, l \notin Present(archive)  PROVE l \in ch
    <3>1. archive.latest[l] = None /\ v[l] # None
      BY <1>3, <2>1, NoneIsAbsent DEF Present
    <3>2. DOMAIN v = S
      BY <1>3
    <3> QED  BY <1>2, <3>1, <3>2 DEF Changed
  <2> QED  BY <2>1
<1>7. PICK changed, added, inc :
        /\ changed \in SUBSET Lous /\ added \in SUBSET Lous /\ inc \in Nat
        /\ changed = job.changed \cup ch
        /\ job' = [job EXCEPT !.recovered = bodies, !.changed = changed, !.added = added,
                     !.inc = inc]
  <2>1. ch \in SUBSET Lous
    BY <1>2, <1>4 DEF IsUpserted
  <2>2. job.changed \in SUBSET Lous /\ job.added \in SUBSET Lous /\ job.inc \in Nat
    BY <1>1 DEF Jobs
  <2>3. /\ job.changed \cup ch \in SUBSET Lous
        /\ job.added \cup (ch \ Present(archive)) \in SUBSET Lous
        /\ (IF ch = {} THEN job.inc ELSE job.inc + 1) \in Nat
    BY <2>1, <2>2
  <2>4. job' = [job EXCEPT !.recovered = bodies, !.changed = job.changed \cup ch,
                  !.added = job.added \cup (ch \ Present(archive)),
                  !.inc = IF ch = {} THEN job.inc ELSE job.inc + 1]
    BY <1>1, <1>2 DEF Jobs
  <2> QED  BY <2>3, <2>4
<1>8. bodies \in FoundTexts
  BY DEF FoundTexts
<1>9. /\ job' \in Jobs /\ job'.recovered = bodies /\ job'.changed = changed
      /\ job'.total = job.total /\ job'.base = job.base /\ job'.snap = job.snap
      /\ job'.always = job.always /\ job'.due = job.due /\ job'.unresolved = job.unresolved
      /\ job'.full = job.full /\ job'.cacheable = job.cacheable
  BY <1>1, <1>7, <1>8 DEF Jobs
<1>10. \A l \in Lous \ job'.changed : archive'.latest[l] = archive.latest[l]
  BY <1>5, <1>7, <1>9
<1> QED  BY <1>3, <1>5, <1>6, <1>7, <1>9, <1>10 DEF Written

LEMMA RecoverExactlyOK == IInv /\ RecoverExactly => IInv'
<1> SUFFICES ASSUME IInv, RecoverExactly  PROVE IInv'
  OBVIOUS
<1>1. /\ Types /\ Files /\ Run /\ pc = "exact" /\ archive \in Archives /\ job \in Jobs
      /\ state \in States /\ Running /\ UNCHANGED <<state, mapped, runs, edits>>
  BY DEF IInv, Types, RecoverExactly, Running
<1>2. /\ job.snap = Revisions /\ state.pagination = job.total /\ job.total \in Totals
      /\ ~job.full
      /\ job.due \subseteq state.floors /\ AsSnapped /\ BaseOK
  BY <1>1 DEF Run, ShortOK, TotalOK
<1>3. /\ FloorCurrent /\ state.floors = Unresolved(archive, job.total)
      /\ archive.built = SignatureOf(archive, job.total)
  <2>1. FloorCurrent
    BY <1>2 DEF AsSnapped, FloorCurrent
  <2> QED  BY <1>1, <1>2, <2>1, FloorIsTrue
<1>4. \/ pc' = "images" /\ UNCHANGED <<archive, job>>
      \/ /\ pc' = "mark"
         /\ \E lous \in SUBSET job.due : \E bodies \in [lous -> Hidden] : WriteRecovered(bodies)
  BY DEF RecoverExactly, Goto
<1>5. CASE pc' = "images" /\ UNCHANGED <<archive, job>>
  <2>1. Types'
    BY <1>1, <1>5 DEF Types, Pcs
  <2>2. Files'
    BY <1>1, <1>5 DEF Files
  <2>3. TotalOK' /\ ShortOK' /\ PlanOK'
    BY <1>1, <1>2, <1>5 DEF TotalOK, ShortOK, PlanOK
  <2>4. FloorCurrent'
    BY <1>1, <1>3, <1>5 DEF FloorCurrent, Revisions
  <2>5. BuildOK'
    BY <1>1, <1>3, <1>5, <2>4 DEF BuildOK, BuildDone
  <2>6. BaseOK'
    BY <1>1, <1>2, <1>5 DEF BaseOK, Running
  <2> QED  BY <2>1, <2>2, <2>3, <2>5, <2>6 DEF IInv, Run
<1>6. ASSUME pc' = "mark", NEW lous \in SUBSET job.due, NEW bodies \in [lous -> Hidden],
             WriteRecovered(bodies)
      PROVE  IInv'
  <2>1. lous \in SUBSET Unresolved(archive, job.total) /\ lous \in SUBSET Lous
    BY <1>1, <1>2, <1>3 DEF States
  <2>2. lous \cap PostRefs(archive) = {} /\ lous \cap Present(archive) = {}
    BY <2>1 DEF Unresolved, Missing
  <2>3. Written(lous, bodies)
    BY <1>1, <1>6, <2>1, <2>2, WrittenFacts
  <2>4. Types'
    BY <1>1, <1>6, <2>3 DEF Types, Pcs, Written
  <2>5. Files'
    BY <1>1, <2>3, FilesMoved DEF Written, Archives
  <2>6. BaseOK'
    <3>1. job'.changed \in SUBSET Lous
      BY <2>4 DEF Types, Jobs
    <3> QED  BY <1>1, <1>2, <2>3, <3>1, BaseMoved DEF Written
  <2>7. TotalOK'
    BY <1>1, <1>2, <1>6, <2>3 DEF TotalOK, Running, Written
  <2>8. /\ job'.recovered = bodies /\ DOMAIN bodies = lous /\ bodies \in FoundTexts
        /\ job'.snap = job.snap /\ job'.total = job.total /\ job'.full = job.full
    BY <2>1, <2>3 DEF Written, FoundTexts
  <2>9. ShortOK'
    <3>1. AsSnapped'
      BY <1>1, <1>2, <2>8 DEF AsSnapped
    <3>2. state'.floors \ lous = Unresolved(archive', job'.total)
      BY <1>1, <1>3, <2>3, <2>8 DEF Written
    <3>3. lous # {} => archive'.rev # job'.snap[1]
      <4>1. archive.rev \in Nat /\ job.snap[1] = archive.rev
        BY <1>1, <1>2 DEF Archives, Revisions
      <4>2. lous # {} => ~(lous \subseteq Present(archive))
        BY <2>2
      <4>3. lous # {} => archive'.rev = archive.rev + 1
        BY <2>3, <4>2 DEF Written
      <4> QED  BY <2>8, <4>1, <4>3
    <3> QED  BY <1>2, <1>6, <2>8, <3>1, <3>2, <3>3 DEF ShortOK, Texted
  <2>10. BuildOK'
    <3>1. archive'.built = SignatureOf(archive', job'.total)
      BY <1>3, <2>3, <2>8 DEF Written
    <3> QED  BY <1>6, <3>1 DEF BuildOK, BuildDone
  <2>11. PlanOK'
    BY <1>6 DEF PlanOK
  <2> QED  BY <2>4, <2>5, <2>6, <2>7, <2>9, <2>10, <2>11 DEF IInv, Run
<1> QED  BY <1>4, <1>5, <1>6

LEMMA MarkExactOK == IInv /\ MarkExact => IInv'
<1> SUFFICES ASSUME IInv, MarkExact  PROVE IInv'
  OBVIOUS
<1>1. /\ Types /\ Files /\ Run /\ pc = "mark" /\ pc' = "attempted" /\ archive \in Archives
      /\ job \in Jobs /\ Running /\ UNCHANGED <<state, mapped, job, runs, edits>>
      /\ archive' = MarkedRecovered(archive, Texted)
  BY DEF IInv, Types, MarkExact, Running, Goto, Texted
<1>2. /\ state.pagination = job.total /\ job.total \in Totals /\ BaseOK /\ AsSnapped
      /\ ~job.full /\ job.recovered \in FoundTexts
      /\ state.floors \ Texted = Unresolved(archive, job.total)
      /\ Texted # {} => archive.rev # job.snap[1]
      /\ archive.built = SignatureOf(archive, job.total)
  BY <1>1 DEF Run, ShortOK, TotalOK, BuildOK
<1>3. Texted \in SUBSET Lous
  BY <1>2 DEF FoundTexts, Texted
<1>4. /\ archive' \in Archives /\ archive'.latest = archive.latest
      /\ archive'.rev = archive.rev /\ archive'.built = archive.built
      /\ archive'.floorRev = IF Texted = {} THEN archive.floorRev ELSE archive.floorRev + 1
  BY <1>1, <1>3, MarkedFacts
<1>5. /\ archive.rev \in Nat /\ archive.floorRev \in Nat
      /\ archive.rev <= archive'.rev /\ archive.floorRev <= archive'.floorRev
  BY <1>1, <1>4 DEF Archives
<1>6. Types'
  BY <1>1, <1>4 DEF Types, Pcs
<1>7. Files'
  BY <1>1, <1>4, <1>5, FilesMoved
<1>8. BaseOK'
  <2>1. job.changed \in SUBSET Lous
    BY <1>1 DEF Jobs
  <2> QED  BY <1>1, <1>2, <1>4, <1>5, <2>1, BaseMoved
<1>9. TotalOK' /\ PlanOK'
  BY <1>1, <1>2 DEF TotalOK, PlanOK
<1>10. /\ Unresolved(archive', job.total) = Unresolved(archive, job.total)
       /\ SignatureOf(archive', job.total) = SignatureOf(archive, job.total)
  BY <1>4, SameFloors
<1>11. ShortOK' /\ BuildOK'
  <2>1. AsSnapped' /\ Texted' = Texted
    BY <1>1, <1>2 DEF AsSnapped, Texted
  <2> QED  BY <1>1, <1>2, <1>4, <1>10, <2>1 DEF ShortOK, BuildOK, BuildDone
<1> QED  BY <1>6, <1>7, <1>8, <1>9, <1>11 DEF IInv, Run

\* A new retry list leaves the images as they are.
LEMMA ListMoved ==
  ASSUME IInv, Running, NEW floors \in SUBSET Lous, state' = [state EXCEPT !.floors = floors],
         UNCHANGED <<archive, mapped, job, runs, edits>>, pc' \in Pcs,
         FloorCurrent \/ (state.floor # None /\ state.floor[1] = Revisions)
           => floors = Unresolved(archive, state.floor[2])
  PROVE  /\ Types' /\ Files' /\ BaseOK' /\ state'.floors = floors
         /\ state'.floor = state.floor /\ state'.pagination = state.pagination
<1>1. Types /\ Files /\ BaseOK /\ state \in States /\ archive \in Archives /\ job \in Jobs
  BY DEF IInv, Types, Run
<1>2. /\ state' \in States /\ state'.pagination = state.pagination /\ state'.floor = state.floor
      /\ state'.floors = floors /\ state'.image = state.image
      /\ state'.images = state.images /\ state'.manifest = state.manifest
      /\ state'.counts = state.counts
  BY <1>1 DEF States
<1>3. Types'
  BY <1>1, <1>2 DEF Types
<1>4. ImageOK(archive, state', mapped) /\ ManifestOK(state', mapped)
  BY <1>1, <1>2, SameImages DEF Files
<1>5. FloorOK(archive, state')
  BY <1>1, <1>2 DEF Files, FloorOK, Revisions
<1>6. BaseOK'
  <2>1. archive.rev \in Nat /\ job.changed \in SUBSET Lous
    BY <1>1 DEF Archives, Jobs
  <2> QED  BY <1>1, <1>2, <2>1, BaseMoved
<1> QED  BY <1>2, <1>3, <1>4, <1>5, <1>6 DEF Files

LEMMA StoreExactAttemptOK == IInv /\ StoreExactAttempt => IInv'
<1> SUFFICES ASSUME IInv, StoreExactAttempt  PROVE IInv'
  OBVIOUS
<1>1. /\ Types /\ Files /\ Run /\ pc = "attempted" /\ archive \in Archives /\ state \in States
      /\ job \in Jobs /\ Running /\ UNCHANGED <<archive, mapped, job, runs, edits>>
      /\ state' = [state EXCEPT !.floors = state.floors \ Texted]
      /\ pc' = IF Unmoved THEN "images" ELSE "commitFloor"
  BY DEF IInv, Types, StoreExactAttempt, Running, Goto, Texted, States
<1>2. /\ state.pagination = job.total /\ job.total \in Totals /\ AsSnapped /\ ~job.full
      /\ state.floors \ Texted = Unresolved(archive, job.total)
      /\ Texted # {} => archive.rev # job.snap[1]
      /\ archive.built = SignatureOf(archive, job.total)
  BY <1>1 DEF Run, ShortOK, TotalOK, BuildOK
<1>3. /\ Types' /\ Files' /\ BaseOK' /\ state'.floors = state.floors \ Texted
      /\ state'.floor = state.floor /\ state'.pagination = state.pagination
  <2>1. state.floors \ Texted \in SUBSET Lous /\ pc' \in Pcs
    BY <1>1 DEF States, Pcs
  <2>2. state.floor[2] = job.total
    BY <1>2 DEF AsSnapped
  <2> QED  BY <1>1, <1>2, <2>1, <2>2, ListMoved
<1>4. TotalOK' /\ ShortOK' /\ PlanOK' /\ AsSnapped'
  BY <1>1, <1>2, <1>3 DEF TotalOK, ShortOK, PlanOK, AsSnapped
<1>5. BuildOK'
  <2>1. pc' = "images" => FloorCurrent'
    BY <1>1, <1>4 DEF AsSnapped, FloorCurrent, Unmoved, Revisions
  <2> QED  BY <1>1, <1>2, <1>3, <2>1 DEF BuildOK, BuildDone
<1> QED  BY <1>3, <1>4, <1>5 DEF IInv, Run

-----------------------------------------------------------------------------
(* Building the floor map.                                                   *)

\* Texts are returned of missing floors only.
LEMMA ReturnedAreMissing ==
  ASSUME NEW m \in NewMaps, NEW lous \in Returned(m)
  PROVE  lous \in SUBSET Missing(archive, job.total) /\ m \in [Lous -> Entries]
<1>1. m \in [Lous -> Entries] /\ \A l \in Lous : m[l] \in Outcomes(l)
  BY DEF NewMaps
<1>2. \A l \in lous : l \in Lous /\ m[l] = "recovered"
  BY DEF Returned
<1>3. ASSUME NEW l \in lous  PROVE l \in Missing(archive, job.total)
  <2>1. l \in PostRefs(archive) => Outcomes(l) = {"known"}
    BY DEF Outcomes
  <2>2. l \notin PostRefs(archive) \cup Missing(archive, job.total) => Outcomes(l) = {"absent"}
    BY DEF Outcomes
  <2>3. "recovered" \in Outcomes(l)
    BY <1>1, <1>2
  <2> QED  BY <2>1, <2>2, <2>3
<1> QED  BY <1>1, <1>3

\* What a build may do to the archive: nothing, or move the map's revision.
MapWritten ==
  /\ archive' \in Archives /\ archive'.latest = archive.latest /\ archive'.rev = archive.rev
  /\ archive'.built = SignatureOf(archive, job.total)
  /\ archive.floorRev <= archive'.floorRev
  /\ archive.floorRev = archive'.floorRev => archive.built = archive'.built

LEMMA WriteMapFacts ==
  ASSUME Types, NEW m \in [Lous -> Entries], WriteMap(m)
  PROVE  MapWritten
<1>1. archive \in Archives /\ archive.floorRev \in Nat
  BY DEF Types, Archives
<1>2. /\ Signature = SignatureOf(archive, job.total)
      /\ Signature \in ((SUBSET Lous) \X (SUBSET Lous)) \cup {None}
  BY DEF Signature, SignatureOf, PostRefs, Present, Missing
<1>3. CASE archive' = archive /\ archive.built = Signature
  BY <1>1, <1>2, <1>3 DEF MapWritten
<1>4. CASE archive' = [archive EXCEPT !.map = m, !.built = Signature, !.floorRev = @ + 1]
  <2>1. PICK sig \in ((SUBSET Lous) \X (SUBSET Lous)) \cup {None}, r \in Nat :
          sig = Signature /\ r = archive.floorRev + 1
    BY <1>1, <1>2
  <2>2. archive' = [archive EXCEPT !.map = m, !.built = sig, !.floorRev = r]
    BY <1>1, <1>4, <2>1 DEF Archives
  <2>3. /\ archive' \in Archives /\ archive'.latest = archive.latest
        /\ archive'.rev = archive.rev /\ archive'.built = sig /\ archive'.floorRev = r
    BY <1>1, <2>2 DEF Archives
  <2>4. archive.floorRev <= archive'.floorRev /\ archive.floorRev # archive'.floorRev
    BY <1>1, <2>1, <2>3
  <2> QED  BY <1>2, <2>1, <2>3, <2>4 DEF MapWritten
<1> QED  BY <1>3, <1>4 DEF WriteMap

\* What all ways to leave a build have in common.
Begun(due, recovered) ==
  /\ due \in SUBSET Unresolved(archive, job.total)
  /\ Unresolved(archive, job.total) \ due \subseteq state.floors
  /\ job' \in Jobs /\ job'.total = job.total /\ job'.base = job.base
  /\ job'.changed = job.changed /\ job'.snap = job.snap /\ job'.always = job.always
  /\ job'.due = due /\ job'.unresolved = Unresolved(archive, job.total)
  /\ job'.full = (pc = "full") /\ job'.recovered = recovered

LEMMA BegunFacts ==
  ASSUME Types, NEW due \in DueChoices(Unresolved(archive, job.total)),
         NEW recovered \in FoundTexts \cup {None}, NEW cacheable \in BOOLEAN, NEW full \in BOOLEAN,
         full = (pc = "full"),
         job' = [job EXCEPT !.due = due, !.full = full,
                   !.unresolved = Unresolved(archive, job.total), !.recovered = recovered,
                   !.cacheable = cacheable]
  PROVE  Begun(due, recovered) /\ job'.cacheable = cacheable
<1>1. job \in Jobs
  BY DEF Types
<1>2. PICK unresolved \in SUBSET Lous : unresolved = Unresolved(archive, job.total)
  BY DEF Unresolved, Missing
<1>3. /\ due \in SUBSET Lous
      /\ due \in SUBSET unresolved /\ unresolved \ due \subseteq state.floors
  BY <1>2 DEF DueChoices
<1>4. PICK j : j = [job EXCEPT !.due = due, !.unresolved = unresolved, !.recovered = recovered]
  OBVIOUS
<1>5. /\ j \in Jobs /\ j.total = job.total /\ j.base = job.base /\ j.changed = job.changed
      /\ j.snap = job.snap /\ j.always = job.always /\ j.due = due
      /\ j.unresolved = unresolved /\ j.recovered = recovered
  BY <1>1, <1>2, <1>3, <1>4 DEF Jobs
<1>6. job' = [j EXCEPT !.full = full, !.cacheable = cacheable]
  BY <1>1, <1>2, <1>4 DEF Jobs
<1>7. job' \in Jobs
  BY <1>5, <1>6 DEF Jobs
<1>8. /\ job'.total = job.total /\ job'.base = job.base /\ job'.changed = job.changed
      /\ job'.snap = job.snap /\ job'.always = job.always /\ job'.due = due
      /\ job'.unresolved = unresolved /\ job'.full = full /\ job'.recovered = recovered
      /\ job'.cacheable = cacheable
  BY <1>5, <1>6 DEF Jobs
<1> QED  BY <1>2, <1>3, <1>7, <1>8 DEF Begun

LEMMA BuildFloorMapCases ==
  ASSUME Types, BuildFloorMap
  PROVE  \E due, recovered :
           /\ Begun(due, recovered)
           /\ \/ /\ pc' = "recover" /\ MapWritten /\ recovered \in FoundTexts
                 /\ DOMAIN recovered \subseteq Missing(archive, job.total)
              \/ /\ archive' = archive
                 /\ pc = "full" => ~job'.cacheable
                 /\ pc' = IF pc = "full" THEN "images" ELSE "full"
<1>1. job \in Jobs /\ archive \in Archives /\ pc \in {"refresh", "full"}
  BY DEF Types, BuildFloorMap
<1>2. PICK full \in BOOLEAN : full = (pc = "full")
  OBVIOUS
<1>3. PICK due \in DueChoices(Unresolved(archive, job.total)) :
        LET begun == [job EXCEPT !.due = due, !.full = (pc = "full"),
                                 !.unresolved = Unresolved(archive, job.total)]
        IN  \/ /\ MapIsReused
               /\ job' = [begun EXCEPT !.recovered = <<>>]
               /\ Goto("recover") /\ UNCHANGED archive
            \/ /\ ~MapIsReused
               /\ \E m \in NewMaps : \E lous \in Returned(m) :
                  \E bodies \in [lous -> Hidden] :
                    /\ WriteMap(m)
                    /\ job' = [begun EXCEPT !.recovered = bodies]
               /\ Goto("recover")
            \/ /\ ~MapIsReused
               /\ job' = [begun EXCEPT !.cacheable = pc # "full"]
               /\ Goto(IF pc = "full" THEN "images" ELSE "full")
               /\ UNCHANGED archive
  BY DEF BuildFloorMap
<1>4. CASE /\ MapIsReused /\ Goto("recover") /\ UNCHANGED archive
           /\ job' = [job EXCEPT !.due = due, !.full = (pc = "full"),
                        !.unresolved = Unresolved(archive, job.total), !.recovered = <<>>]
  <2>1. <<>> \in FoundTexts /\ DOMAIN <<>> = {}
    <3>1. <<>> \in [{} -> Hidden] /\ {} \in SUBSET Lous
      OBVIOUS
    <3> QED  BY <3>1 DEF FoundTexts
  <2>2. PICK cacheable \in BOOLEAN : cacheable = job.cacheable
    BY <1>1 DEF Jobs
  <2>3. job' = [job EXCEPT !.due = due, !.full = full,
                  !.unresolved = Unresolved(archive, job.total), !.recovered = <<>>,
                  !.cacheable = cacheable]
    BY <1>1, <1>2, <1>4, <2>2 DEF Jobs
  <2>4. Begun(due, <<>>)
    BY <1>2, <1>3, <2>1, <2>2, <2>3, BegunFacts
  <2>5. MapWritten
    BY <1>1, <1>4 DEF MapIsReused, MapWritten, Signature, SignatureOf, Archives
  <2> QED  BY <1>4, <2>1, <2>4, <2>5 DEF Goto
<1>5. ASSUME NEW m \in NewMaps, NEW lous \in Returned(m), NEW bodies \in [lous -> Hidden],
             WriteMap(m), Goto("recover"),
             job' = [job EXCEPT !.due = due, !.full = (pc = "full"),
                       !.unresolved = Unresolved(archive, job.total), !.recovered = bodies]
      PROVE  /\ Begun(due, bodies) /\ pc' = "recover" /\ MapWritten /\ bodies \in FoundTexts
             /\ DOMAIN bodies \subseteq Missing(archive, job.total)
  <2>1. lous \in SUBSET Missing(archive, job.total) /\ m \in [Lous -> Entries]
    BY ReturnedAreMissing
  <2>2. bodies \in FoundTexts /\ DOMAIN bodies = lous
    BY <2>1 DEF FoundTexts, Missing
  <2>3. PICK cacheable \in BOOLEAN : cacheable = job.cacheable
    BY <1>1 DEF Jobs
  <2>4. job' = [job EXCEPT !.due = due, !.full = full,
                  !.unresolved = Unresolved(archive, job.total), !.recovered = bodies,
                  !.cacheable = cacheable]
    BY <1>1, <1>2, <1>5, <2>3 DEF Jobs
  <2>5. Begun(due, bodies)
    BY <1>2, <1>3, <2>2, <2>3, <2>4, BegunFacts
  <2>6. MapWritten
    BY <1>5, <2>1, WriteMapFacts
  <2> QED  BY <1>5, <2>1, <2>2, <2>5, <2>6 DEF Goto
<1>6. CASE /\ Goto(IF pc = "full" THEN "images" ELSE "full") /\ UNCHANGED archive
           /\ job' = [job EXCEPT !.due = due, !.full = (pc = "full"),
                        !.unresolved = Unresolved(archive, job.total),
                        !.cacheable = pc # "full"]
  <2>1. PICK cacheable \in BOOLEAN, recovered \in FoundTexts \cup {None} :
          cacheable = (pc # "full") /\ recovered = job.recovered
    BY <1>1 DEF Jobs
  <2>2. job' = [job EXCEPT !.due = due, !.full = full,
                  !.unresolved = Unresolved(archive, job.total), !.recovered = recovered,
                  !.cacheable = cacheable]
    BY <1>1, <1>2, <1>6, <2>1 DEF Jobs
  <2>3. Begun(due, recovered) /\ job'.cacheable = cacheable
    BY <1>2, <1>3, <2>1, <2>2, BegunFacts
  <2> QED  BY <1>6, <2>1, <2>3 DEF Goto
<1> QED  BY <1>3, <1>4, <1>5, <1>6

LEMMA BuildFloorMapOK == IInv /\ BuildFloorMap => IInv'
<1> SUFFICES ASSUME IInv, BuildFloorMap  PROVE IInv'
  OBVIOUS
<1>1. /\ Types /\ Files /\ Run /\ pc \in {"refresh", "full"} /\ archive \in Archives
      /\ job \in Jobs /\ Running /\ UNCHANGED <<state, mapped, runs, edits>>
  BY DEF IInv, Types, BuildFloorMap, Running
<1>2. PICK due, recovered :
        /\ Begun(due, recovered)
        /\ \/ /\ pc' = "recover" /\ MapWritten /\ recovered \in FoundTexts
              /\ DOMAIN recovered \subseteq Missing(archive, job.total)
           \/ /\ archive' = archive
              /\ pc = "full" => ~job'.cacheable
              /\ pc' = IF pc = "full" THEN "images" ELSE "full"
  BY <1>1, BuildFloorMapCases
<1>3. /\ state.pagination = job.total /\ job.total \in Totals /\ BaseOK
      /\ pc = "refresh" /\ ~job.always => AsSnapped
  BY <1>1 DEF Run, TotalOK, ShortOK
<1>4. /\ archive' \in Archives /\ archive'.latest = archive.latest /\ archive'.rev = archive.rev
      /\ archive.floorRev <= archive'.floorRev
      /\ archive.floorRev = archive'.floorRev => archive.built = archive'.built
  <2>1. archive.floorRev <= archive.floorRev
    BY <1>1 DEF Archives
  <2> QED  BY <1>1, <1>2, <2>1 DEF MapWritten
<1>5. archive.rev <= archive'.rev /\ job.changed \in SUBSET Lous
  BY <1>1, <1>4 DEF Archives, Jobs
<1>6. Types'
  BY <1>1, <1>2, <1>4 DEF Types, Pcs, Begun
<1>7. Files'
  BY <1>1, <1>4, <1>5, FilesMoved
<1>8. BaseOK'
  BY <1>1, <1>2, <1>3, <1>4, <1>5, BaseMoved DEF Begun
<1>9. TotalOK' /\ PlanOK'
  BY <1>1, <1>2, <1>3 DEF TotalOK, PlanOK, Begun
<1>10. \A t : /\ Unresolved(archive', t) = Unresolved(archive, t)
              /\ Missing(archive', t) = Missing(archive, t)
              /\ SignatureOf(archive', t) = SignatureOf(archive, t)
  BY <1>4, SameFloors
<1>11. ShortOK'
  <2>1. AsSnapped => AsSnapped'
    BY <1>1, <1>2 DEF AsSnapped, Begun
  <2> QED  BY <1>1, <1>2, <1>3, <2>1 DEF ShortOK, Begun
<1>12. BuildOK'
  <2>1. CASE /\ pc' = "recover" /\ MapWritten /\ recovered \in FoundTexts
             /\ DOMAIN recovered \subseteq Missing(archive, job.total)
    <3>1. /\ job'.recovered = recovered /\ job'.total = job.total /\ job'.due = due
          /\ job'.unresolved = Unresolved(archive, job.total)
          /\ due \in SUBSET Unresolved(archive, job.total)
          /\ Unresolved(archive, job.total) \ due \subseteq state.floors
      BY <1>2 DEF Begun
    <3>2. /\ Unresolved(archive', job'.total) = Unresolved(archive, job.total)
          /\ Missing(archive', job'.total) = Missing(archive, job.total)
          /\ archive'.built = SignatureOf(archive', job'.total)
      BY <1>10, <2>1, <3>1 DEF MapWritten
    <3> QED  BY <1>1, <2>1, <3>1, <3>2 DEF BuildOK, BuildDone, Texted
  <2>2. CASE /\ pc = "full" => ~job'.cacheable
             /\ pc' = IF pc = "full" THEN "images" ELSE "full"
    <3>1. pc = "full" => job'.full
      BY <1>2 DEF Begun
    <3> QED  BY <1>1, <2>2, <3>1 DEF BuildOK, BuildDone
  <2> QED  BY <1>2, <2>1, <2>2
<1> QED  BY <1>6, <1>7, <1>8, <1>9, <1>11, <1>12 DEF IInv, Run

LEMMA UpsertRecoveredOK == IInv /\ UpsertRecovered => IInv'
<1> SUFFICES ASSUME IInv, UpsertRecovered  PROVE IInv'
  OBVIOUS
<1>1. /\ Types /\ Files /\ Run /\ pc = "recover" /\ pc' = "storeFloors" /\ archive \in Archives
      /\ job \in Jobs /\ Running /\ UNCHANGED <<state, mapped, runs, edits>>
      /\ WriteRecovered(job.recovered)
  BY DEF IInv, Types, UpsertRecovered, Running, Goto
<1>2. /\ state.pagination = job.total /\ job.total \in Totals /\ BaseOK
      /\ ~job.full /\ ~job.always => AsSnapped
      /\ job.recovered \in FoundTexts /\ job.due \subseteq job.unresolved
      /\ job.unresolved \ job.due \subseteq state.floors
      /\ job.unresolved = Unresolved(archive, job.total)
      /\ Texted \subseteq Missing(archive, job.total)
      /\ archive.built = SignatureOf(archive, job.total)
  BY <1>1 DEF Run, TotalOK, ShortOK, BuildOK
<1>3. PICK S, bodies :
        S \in SUBSET Lous /\ bodies \in [S -> Hidden] /\ bodies = job.recovered /\ S = Texted
  <2>1. PICK S \in SUBSET Lous : job.recovered \in [S -> Hidden]
    BY <1>2 DEF FoundTexts
  <2> QED  BY <2>1 DEF Texted
<1>4. Written(S, bodies)
  <2>1. S \cap PostRefs(archive) = {}
    BY <1>2, <1>3 DEF Missing
  <2> QED  BY <1>1, <1>3, <2>1, WrittenFacts
<1>5. Types'
  BY <1>1, <1>4 DEF Types, Pcs, Written
<1>6. Files'
  BY <1>1, <1>4, FilesMoved DEF Written, Archives
<1>7. BaseOK'
  <2>1. job'.changed \in SUBSET Lous
    BY <1>5 DEF Types, Jobs
  <2> QED  BY <1>1, <1>2, <1>4, <2>1, BaseMoved DEF Written
<1>8. TotalOK' /\ PlanOK'
  BY <1>1, <1>2, <1>4 DEF TotalOK, PlanOK, Written
<1>9. ShortOK'
  <2>1. AsSnapped => AsSnapped'
    BY <1>1, <1>4 DEF AsSnapped, Written
  <2> QED  BY <1>1, <1>2, <1>4, <2>1 DEF ShortOK, Written
<1>10. BuildOK'
  <2>1. /\ job'.recovered = job.recovered /\ Texted' = Texted /\ job'.total = job.total
        /\ job'.due = job.due /\ job'.unresolved = job.unresolved
    BY <1>3, <1>4 DEF Written, Texted
  <2>2. /\ Unresolved(archive', job.total) = job.unresolved \ Texted
        /\ archive'.built = SignatureOf(archive', job.total)
    BY <1>2, <1>3, <1>4 DEF Written
  <2> QED  BY <1>1, <1>2, <2>1, <2>2 DEF BuildOK, BuildDone
<1> QED  BY <1>5, <1>6, <1>7, <1>8, <1>9, <1>10 DEF IInv, Run

LEMMA StoreFloorsOK == IInv /\ StoreFloors => IInv'
<1> SUFFICES ASSUME IInv, StoreFloors  PROVE IInv'
  OBVIOUS
<1> DEFINE after == PendingAfter(state.floors, job.unresolved \ Texted, job.due)
<1>1. /\ Types /\ Files /\ Run /\ pc = "storeFloors" /\ archive \in Archives /\ state \in States
      /\ job \in Jobs /\ Running /\ UNCHANGED <<archive, mapped, job, runs, edits>>
      /\ state' = [state EXCEPT !.floors = after]
      /\ pc' = IF job.full \/ (~job.always /\ Unmoved) THEN "images" ELSE "commitFloor"
  BY DEF IInv, Types, StoreFloors, Running, Goto, Texted, States
<1>2. /\ state.pagination = job.total /\ job.total \in Totals
      /\ ~job.full /\ ~job.always => AsSnapped
      /\ job.due \subseteq job.unresolved /\ job.unresolved \ job.due \subseteq state.floors
      /\ Unresolved(archive, job.total) = job.unresolved \ Texted
      /\ archive.built = SignatureOf(archive, job.total)
  BY <1>1 DEF Run, TotalOK, ShortOK, BuildOK
<1>3. after = Unresolved(archive, job.total)
  BY <1>2 DEF PendingAfter
<1>4. after \in SUBSET Lous
  BY <1>3 DEF Unresolved, Missing
<1>5. FloorCurrent \/ (state.floor # None /\ state.floor[1] = Revisions)
        => after = Unresolved(archive, state.floor[2])
  <2>1. CASE FloorCurrent
    BY <1>2, <1>3, <2>1 DEF FloorCurrent
  <2>2. CASE state.floor # None /\ state.floor[1] = Revisions
    <3>1. archive.built = SignatureOf(archive, state.floor[2])
      BY <1>1, <2>2 DEF Files, FloorOK, Revisions
    <3>2. Missing(archive, state.floor[2]) = Missing(archive, job.total)
      BY <1>2, <3>1 DEF SignatureOf
    <3> QED  BY <1>3, <3>2 DEF Unresolved
  <2> QED  BY <2>1, <2>2
<1> HIDE DEF after
<1>6. /\ Types' /\ Files' /\ BaseOK' /\ state'.floors = after
      /\ state'.floor = state.floor /\ state'.pagination = state.pagination
  BY <1>1, <1>4, <1>5, ListMoved DEF Pcs
<1>7. TotalOK' /\ PlanOK'
  BY <1>1, <1>2, <1>6 DEF TotalOK, PlanOK
<1>8. ShortOK' /\ (AsSnapped => AsSnapped')
  BY <1>1, <1>2, <1>6 DEF ShortOK, AsSnapped
<1>9. BuildOK'
  <2>1. pc' = "images" /\ ~job.full => FloorCurrent'
    BY <1>1, <1>2, <1>6 DEF AsSnapped, FloorCurrent, Unmoved, Revisions
  <2> QED  BY <1>1, <1>2, <1>3, <1>6, <2>1 DEF BuildOK, BuildDone
<1> QED  BY <1>6, <1>7, <1>8, <1>9 DEF IInv, Run

-----------------------------------------------------------------------------
(* The marks of the floors, and the web edits.                               *)

\* What a plan leads to depends on nothing that the rest of its run changes.
LEMMA SameManifest ==
  ASSUME NEW p, NEW q, NEW us, NEW vs \in SUBSET us, ManifestIsExact(p, us),
         q.kind = p.kind, q.rows = p.rows, archive' = archive,
         state'.manifest = state.manifest, state'.counts = state.counts,
         job'.changed = job.changed
  PROVE  ManifestIsExact(q, vs)'
<1>1. NewManifest(q)' = NewManifest(p)
  BY DEF NewManifest, WholeManifest
<1>2. NewCounts(q)' = NewCounts(p)
  <2>1. OldRows' = OldRows /\ NewRows' = NewRows
    BY DEF OldRows, NewRows, RowsFor
  <2>2. \A u : UpdatedCount(u)' = UpdatedCount(u)
    BY <2>1 DEF UpdatedCount
  <2> QED  BY <2>2 DEF NewCounts
<1> QED  BY <1>1, <1>2 DEF ManifestIsExact

LEMMA CommitFloorOK == IInv /\ CommitFloor => IInv'
<1> SUFFICES ASSUME IInv, CommitFloor  PROVE IInv'
  OBVIOUS
<1>1. /\ Types /\ Files /\ Run /\ pc = "commitFloor" /\ archive \in Archives
      /\ state \in States /\ job \in Jobs /\ Running
      /\ UNCHANGED <<archive, mapped, job, runs, edits>>
      /\ state' = [state EXCEPT !.floor = <<Revisions, job.total>>]
      /\ pc' = IF job.full THEN "commitImages" ELSE "images"
  BY DEF IInv, Types, CommitFloor, Running, Goto
<1>2. /\ state.pagination = job.total /\ job.total \in Totals /\ BaseOK
      /\ state.floors = Unresolved(archive, job.total)
      /\ archive.built = SignatureOf(archive, job.total)
  BY <1>1 DEF Run, TotalOK, BuildOK
<1>3. /\ Revisions \in Nat \X Nat /\ archive.rev <= archive.rev /\ Revisions[1] = archive.rev
      /\ archive.floorRev <= archive.floorRev /\ Revisions[2] = archive.floorRev
  BY <1>1 DEF Archives, Revisions
<1>4. PICK mark \in FloorMarks : mark = <<Revisions, job.total>>
  BY <1>2, <1>3 DEF FloorMarks
<1>5. /\ state' \in States /\ state'.pagination = state.pagination /\ state'.floor = mark
      /\ state'.floors = state.floors /\ state'.image = state.image
      /\ state'.images = state.images /\ state'.manifest = state.manifest
      /\ state'.counts = state.counts
  BY <1>1, <1>4 DEF States
<1>6. Types'
  BY <1>1, <1>5 DEF Types, Pcs
<1>7. Files'
  <2>1. ImageOK(archive, state', mapped) /\ ManifestOK(state', mapped)
    BY <1>1, <1>5, SameImages DEF Files
  <2>2. state'.floor[1] = Revisions /\ state'.floor[2] = job.total
    BY <1>4, <1>5
  <2>3. FloorOK(archive, state')
    BY <1>2, <1>3, <1>5, <2>2 DEF FloorOK
  <2> QED  BY <1>1, <2>1, <2>3 DEF Files
<1>8. BaseOK'
  <2>1. job.changed \in SUBSET Lous
    BY <1>1 DEF Jobs
  <2> QED  BY <1>1, <1>2, <1>3, <1>5, <2>1, BaseMoved
<1>9. TotalOK' /\ ShortOK'
  BY <1>1, <1>2, <1>5 DEF TotalOK, ShortOK
<1>10. BuildOK'
  <2>1. FloorCurrent'
    BY <1>1, <1>2, <1>4, <1>5 DEF FloorCurrent, Revisions
  <2> QED  BY <1>1, <1>2, <1>5, <2>1 DEF BuildOK, BuildDone
<1>11. PlanOK'
  <2> SUFFICES ASSUME job.full  PROVE PlanOK'
    BY <1>1 DEF PlanOK
  <2>1. /\ job.plan.kind = "hit" => ImageCurrent
        /\ RefsIn(archive, Lous) \subseteq mapped \cup job.plan.pending
        /\ ManifestIsExact(job.plan, job.plan.pending)
    BY <1>1 DEF Run, PlanOK
  <2>2. PICK plan, us : plan = job.plan /\ us = job.plan.pending
    OBVIOUS
  <2>3. ManifestIsExact(plan, us)'
    BY <1>1, <1>5, <2>1, <2>2, SameManifest
  <2>4. ImageCurrent => ImageCurrent'
    BY <1>1, <1>5 DEF ImageCurrent, ImageIsCurrent
  <2>5. plan = job'.plan /\ us = job'.plan.pending
    BY <1>1, <2>2
  <2> QED  BY <1>1, <2>1, <2>3, <2>4, <2>5 DEF PlanOK
<1> QED  BY <1>6, <1>7, <1>8, <1>9, <1>10, <1>11 DEF IInv, Run

LEMMA WebEditKeeps ==
  ASSUME IInv, NEW cost \in Nat, NEW new, WebEdit(new, cost), new \in Archives,
         new.latest = archive.latest, new.built = archive.built, new.rev = archive.rev,
         new.floorRev = archive.floorRev
  PROVE  IInv'
<1>1. /\ Types /\ Files /\ pc = "idle" /\ edits + cost <= MaxEdits /\ archive' = new
      /\ edits' = edits + cost /\ UNCHANGED <<state, mapped, pc, job, runs>>
      /\ edits \in 0..MaxEdits /\ archive \in Archives
  BY DEF IInv, Types, WebEdit
<1>2. edits' \in 0..MaxEdits
  BY <1>1, BoundsAreNumbers
<1>3. Types'
  BY <1>1, <1>2 DEF Types
<1>4. archive.rev <= archive'.rev /\ archive.floorRev <= archive'.floorRev
  BY <1>1 DEF Archives
<1>5. Files'
  BY <1>1, <1>4, FilesMoved
<1>6. Run'
  BY <1>1 DEF Run, TotalOK, ShortOK, BuildOK, BuildDone, BaseOK, PlanOK, Running
<1> QED  BY <1>3, <1>5, <1>6 DEF IInv

LEMMA WebEditsOK ==
  IInv /\ (SaveOverlay \/ ClearOverlay \/ SelectVersion \/ ClearSelection) => IInv'
<1> SUFFICES ASSUME IInv, SaveOverlay \/ ClearOverlay \/ SelectVersion \/ ClearSelection
             PROVE  IInv'
  OBVIOUS
<1>1. /\ archive \in Archives /\ mapped \in SUBSET Urls /\ archive.overlay \in Rows
      /\ archive.chosen \in [Lous -> Texts] /\ archive.seen \in [Lous -> SUBSET Versions]
      /\ Present(archive) \in SUBSET Lous
  BY DEF IInv, Types, Archives, Present
<1>2. ASSUME NEW l \in Lous, NEW row \in (SUBSET Urls) \cup {None}, NEW cost \in Nat,
             WebEdit([archive EXCEPT !.overlay[l] = row], cost)
      PROVE  IInv'
  <2>1. PICK new : new = [archive EXCEPT !.overlay[l] = row]
    OBVIOUS
  <2>2. [archive.overlay EXCEPT ![l] = row] \in Rows
    BY <1>1, <1>2 DEF Rows
  <2>3. /\ new \in Archives /\ new.latest = archive.latest /\ new.built = archive.built
        /\ new.rev = archive.rev /\ new.floorRev = archive.floorRev
    BY <1>1, <2>1, <2>2 DEF Archives
  <2> QED  BY <1>2, <2>1, <2>3, WebEditKeeps
<1>3. ASSUME NEW l \in Lous, NEW v \in Texts, NEW cost \in Nat,
             WebEdit([archive EXCEPT !.chosen[l] = v], cost)
      PROVE  IInv'
  <2>1. PICK new : new = [archive EXCEPT !.chosen[l] = v]
    OBVIOUS
  <2>2. [archive.chosen EXCEPT ![l] = v] \in [Lous -> Texts]
    BY <1>1, <1>3
  <2>3. /\ new \in Archives /\ new.latest = archive.latest /\ new.built = archive.built
        /\ new.rev = archive.rev /\ new.floorRev = archive.floorRev
    BY <1>1, <2>1, <2>2 DEF Archives
  <2> QED  BY <1>3, <2>1, <2>3, WebEditKeeps
<1>4. CASE SaveOverlay
  BY <1>1, <1>2, <1>4 DEF SaveOverlay
<1>5. CASE ClearOverlay
  BY <1>1, <1>2, <1>5 DEF ClearOverlay
<1>6. CASE SelectVersion
  BY <1>1, <1>3, <1>6 DEF SelectVersion, Texts
<1>7. CASE ClearSelection
  BY <1>1, <1>3, <1>7 DEF ClearSelection, Texts
<1> QED  BY <1>4, <1>5, <1>6, <1>7

-----------------------------------------------------------------------------
(* Rows of a manifest and their counts.                                      *)

Showing(rows, u) == {l \in Lous : rows[l] # None /\ u \in rows[l]}

LEMMA CountFacts ==
  ASSUME NEW rows, NEW u
  PROVE  /\ IsFiniteSet(Showing(rows, u)) /\ Count(rows, u) = Cardinality(Showing(rows, u))
         /\ Count(rows, u) \in Nat
         /\ Count(rows, u) > 0 <=> \E l \in Lous : rows[l] # None /\ u \in rows[l]
<1>1. Count(rows, u) = Cardinality(Showing(rows, u))
  BY DEF Count, Showing
<1>2. Showing(rows, u) \in SUBSET Lous
  BY DEF Showing
<1>3. IsFiniteSet(Showing(rows, u))
  BY <1>2, FloorsAreNumbers, FS_Subset
<1>4. Count(rows, u) \in Nat /\ (Count(rows, u) = 0 <=> Showing(rows, u) = {})
  BY <1>1, <1>3, FS_CardinalityType, FS_EmptySet
<1>5. Showing(rows, u) = {} <=> ~\E l \in Lous : rows[l] # None /\ u \in rows[l]
  BY DEF Showing
<1> QED  BY <1>1, <1>3, <1>4, <1>5

LEMMA CountsTyped ==
  ASSUME NEW rows
  PROVE  Counts(rows) \in [Urls -> Nat] /\ \A u \in Urls : Counts(rows)[u] = Count(rows, u)
BY CountFacts DEF Counts

\* Exchanging the rows of some floors: take their old counts off, add the new ones.
LEMMA CountsExchanged ==
  ASSUME NEW rows, NEW new, NEW C \in SUBSET Lous, NEW merged, NEW u,
         merged = [l \in Lous |-> IF l \in C THEN new[l] ELSE rows[l]],
         \A l \in Lous \ C : new[l] = None
  PROVE  Count(merged, u) = Count(rows, u) - Count(Only(rows, C), u) + Count(new, u)
<1> DEFINE R == Showing(rows, u)
           O == Showing(Only(rows, C), u)
           N == Showing(new, u)
           M == Showing(merged, u)
<1>1. /\ IsFiniteSet(R) /\ IsFiniteSet(O) /\ IsFiniteSet(N) /\ IsFiniteSet(M)
      /\ Count(rows, u) = Cardinality(R) /\ Count(Only(rows, C), u) = Cardinality(O)
      /\ Count(new, u) = Cardinality(N) /\ Count(merged, u) = Cardinality(M)
  BY CountFacts
<1>2. O = R \cap C
  BY DEF Showing, Only
<1>3. N \subseteq C /\ M = (R \ O) \cup N
  BY <1>2 DEF Showing
<1> HIDE DEF R, O, N, M
<1>4. (R \ O) \cap N = {} /\ R \cap O = O
  BY <1>2, <1>3
<1>5. IsFiniteSet(R \ O) /\ Cardinality(R \ O) = Cardinality(R) - Cardinality(O)
  <2>1. IsFiniteSet(R \ O) /\ Cardinality(R \ O) = Cardinality(R) - Cardinality(R \cap O)
    BY <1>1, FS_Difference
  <2> QED  BY <1>4, <2>1
<1>6. Cardinality(M) = Cardinality(R \ O) + Cardinality(N) - Cardinality((R \ O) \cap N)
  BY <1>1, <1>3, <1>5, FS_Union
<1>7. Cardinality((R \ O) \cap N) = 0
  BY <1>4, FS_EmptySet
<1>8. Cardinality(R) \in Nat /\ Cardinality(O) \in Nat /\ Cardinality(N) \in Nat
  BY <1>1, FS_CardinalityType
<1> QED  BY <1>1, <1>5, <1>6, <1>7, <1>8

LEMMA RowsForFacts ==
  ASSUME Types, NEW lous \in SUBSET Lous
  PROVE  /\ RowsFor(lous) \in Rows
         /\ \A l \in Lous : RowsFor(lous)[l] = IF l \in lous THEN Refs(archive, l) ELSE None
         /\ \A l \in Lous : Refs(archive, l) \in SUBSET Urls /\ Refs(archive, l) # None
<1>1. archive \in Archives
  BY DEF Types
<1>2. \A l \in Lous : Refs(archive, l) \in SUBSET Urls /\ Refs(archive, l) # None
  BY <1>1, RefsAreShown
<1> QED  BY <1>2 DEF RowsFor, Rows

-----------------------------------------------------------------------------
(* The plans.                                                                *)

PlanSound(plan) ==
  /\ plan \in AllPlans /\ plan.retained \subseteq plan.tasks
  /\ plan.kind = "hit" => ImageCurrent
  /\ RefsIn(archive, Lous) \subseteq mapped \cup plan.tasks
  /\ ManifestIsExact(plan, plan.tasks)

\* A manifest made of the rows of all floors there are.
LEMMA WholeIsExact ==
  ASSUME Types, NEW lous \in SUBSET Lous, Present(archive) \subseteq lous, NEW plan,
         plan.kind \notin {"hit", "delta"}, plan.rows = RowsFor(lous), NEW us \in SUBSET Urls,
         \A u \in us : \E l \in lous : u \in Refs(archive, l)
  PROVE  ManifestIsExact(plan, us)
<1>1. /\ RowsFor(lous) \in Rows
      /\ \A l \in Lous : RowsFor(lous)[l] = IF l \in lous THEN Refs(archive, l) ELSE None
      /\ \A l \in Lous : Refs(archive, l) \in SUBSET Urls /\ Refs(archive, l) # None
  BY RowsForFacts
<1>2. /\ NewManifest(plan) = [rev |-> archive.rev, rows |-> RowsFor(lous)]
      /\ NewCounts(plan) = Counts(RowsFor(lous))
  BY DEF NewManifest, NewCounts, WholeManifest
<1>3. archive.rev \in Nat /\ \A l \in Lous : archive.latest[l] # None => l \in lous
  BY DEF Types, Archives, Present
<1>4. NewManifest(plan) \in Manifests /\ NewCounts(plan) \in [Urls -> Nat]
  BY <1>1, <1>2, <1>3, CountsTyped DEF Manifests
<1>5. \A l \in Lous : RowOK(archive, NewManifest(plan), l, Refs(archive, l))
  BY <1>1, <1>2, <1>3 DEF RowOK
<1>6. ASSUME NEW u \in us  PROVE NewCounts(plan)[u] > 0
  <2>1. PICK l \in lous : u \in Refs(archive, l)
    OBVIOUS
  <2>2. Count(RowsFor(lous), u) > 0
    BY <1>1, <2>1, CountFacts
  <2> QED  BY <1>2, <2>2, CountsTyped
<1> QED  BY <1>2, <1>4, <1>5, <1>6 DEF ManifestIsExact

LEMMA RefsInFacts ==
  ASSUME Types, NEW lous \in SUBSET Lous
  PROVE  /\ RefsIn(archive, lous) \in SUBSET Urls
         /\ \A u \in RefsIn(archive, lous) : \E l \in lous : u \in Refs(archive, l)
         /\ \A l \in lous : Refs(archive, l) \subseteq RefsIn(archive, lous)
         /\ \A l \in Lous : Refs(archive, l) # {} => l \in Present(archive)
<1>1. \A l \in Lous : Refs(archive, l) \in SUBSET Urls
  BY RowsForFacts
<1> QED  BY <1>1 DEF RefsIn, Refs

LEMMA CompletePlanSound ==
  ASSUME Types, NEW lous \in SUBSET Lous, Present(archive) \subseteq lous,
         NEW kind \in {"full", "rebuild"}, NEW plan, plan = CompletePlan(kind, lous)
  PROVE  PlanSound(plan)
<1>1. /\ plan.kind = kind /\ plan.tasks = RefsIn(archive, lous)
      /\ plan.retained = state.images \cap RefsIn(archive, lous)
      /\ plan.rows = RowsFor(lous) /\ plan.pending = {}
      /\ plan = [kind |-> kind, tasks |-> RefsIn(archive, lous),
                 retained |-> state.images \cap RefsIn(archive, lous),
                 rows |-> RowsFor(lous), pending |-> {}]
  BY DEF CompletePlan, Plan
<1>2. RefsIn(archive, lous) \in SUBSET Urls /\ RowsFor(lous) \in Rows
  BY RefsInFacts, RowsForFacts
<1>3. plan \in AllPlans
  BY <1>1, <1>2 DEF AllPlans, Kinds
<1>4. RefsIn(archive, Lous) \subseteq RefsIn(archive, lous)
  BY RefsInFacts DEF RefsIn
<1>5. ManifestIsExact(plan, plan.tasks)
  BY <1>1, <1>2, RefsInFacts, WholeIsExact
<1> QED  BY <1>1, <1>3, <1>4, <1>5 DEF PlanSound

LEMMA HitPlanSound == IInv /\ ImageCurrent => PlanSound(HitPlan)
<1> SUFFICES ASSUME IInv, ImageCurrent  PROVE PlanSound(HitPlan)
  OBVIOUS
<1>1. /\ Types /\ Files /\ archive \in Archives /\ state \in States
  BY DEF IInv, Types
<1>2. /\ HitPlan = [kind |-> "hit", tasks |-> state.images, retained |-> state.images,
                    rows |-> None, pending |-> {}]
      /\ NewManifest(HitPlan) = state.manifest /\ NewCounts(HitPlan) = state.counts
  BY DEF HitPlan, Plan, NewManifest, NewCounts
<1>3. HitPlan \in AllPlans
  BY <1>1, <1>2 DEF AllPlans, Kinds, States
<1>4. /\ state.image # None /\ state.image[1] = archive.rev
      /\ state.image[2] = Fingerprints(archive)
  <2>1. Fingerprints(archive) \in Prints /\ archive.rev \in Nat
    BY <1>1, RefsAreShown, FloorsAreNumbers DEF Archives
  <2>2. <<archive.rev, Fingerprints(archive)>> \in ImageMarks
    BY <2>1 DEF ImageMarks
  <2> QED  BY <2>2, NoneIsAbsent DEF ImageCurrent, ImageIsCurrent
<1>5. /\ \A l \in Lous : FloorImages(archive, state, mapped, l)
      /\ state.manifest # None => state.manifest.rev = archive.rev
  BY <1>1, <1>4 DEF Files, ImageOK
<1>6. \A l \in Lous : Shown(archive, state.image[2], l) = Refs(archive, l)
  BY <1>1, <1>4, RefsAreShown
<1>7. \A l \in Lous : /\ Refs(archive, l) \subseteq mapped \cup state.images
                      /\ state.manifest # None =>
                           RowOK(archive, state.manifest, l, Refs(archive, l))
  BY <1>5, <1>6 DEF FloorImages
<1>8. RefsIn(archive, Lous) \subseteq mapped \cup state.images
  BY <1>7 DEF RefsIn
<1>9. ManifestIsExact(HitPlan, state.images)
  <2>1. state.manifest \in Manifests \cup {None} /\ state.counts \in [Urls -> Nat]
    BY <1>1 DEF States
  <2>2. state.manifest # None =>
          /\ state.counts = Counts(state.manifest.rows)
          /\ \A u \in state.images : state.counts[u] > 0
    BY <1>1 DEF Files, ManifestOK
  <2> QED  BY <1>2, <1>5, <1>7, <2>1, <2>2 DEF ManifestIsExact
<1> QED  BY <1>2, <1>3, <1>8, <1>9 DEF PlanSound

\* A floor this run has not changed shows what the image state says of it, if that
\* state was current when the run began.
LEMMA UnchangedFloors ==
  ASSUME IInv, Running, IncrementalAllowed, NEW l \in Lous \ job.changed
  PROVE  /\ Refs(archive, l) \subseteq mapped \cup state.images
         /\ state.manifest # None => RowOK(archive, state.manifest, l, Refs(archive, l))
<1>1. /\ archive \in Archives /\ BaseOK
  BY DEF IInv, Types, Run
<1>2. /\ state.image # None /\ state.image = <<job.base.rev, Fingerprints(archive)>>
  BY <1>1 DEF BaseOK, IncrementalAllowed, ImageIsCurrent
<1>3. FloorImages(archive, state, mapped, l)
  BY <1>1, <1>2 DEF BaseOK
<1>4. Shown(archive, state.image[2], l) = Refs(archive, l)
  BY <1>1, <1>2, RefsAreShown
<1> QED  BY <1>3, <1>4 DEF FloorImages

LEMMA BootstrapPlanSound ==
  ASSUME IInv, Running, IncrementalAllowed, NEW uncached \in SUBSET Present(archive), NEW plan,
         plan = BootstrapPlan(uncached)
  PROVE  PlanSound(plan)
<1> DEFINE rows == RowsFor(Present(archive))
           retained == {u \in state.images : Count(rows, u) > 0}
           tasks == RefsIn(archive, job.changed \cup uncached) \cup retained
<1>1. /\ Types /\ state \in States /\ job \in Jobs /\ Present(archive) \in SUBSET Lous
  BY DEF IInv, Types, Present
<1>2. plan = [kind |-> "bootstrap", tasks |-> tasks, retained |-> retained, rows |-> rows,
              pending |-> {}]
  BY DEF BootstrapPlan, Plan
<1>3. /\ rows \in Rows
      /\ \A l \in Lous : rows[l] = IF l \in Present(archive) THEN Refs(archive, l) ELSE None
      /\ \A l \in Lous : Refs(archive, l) # None
  BY <1>1, RowsForFacts
<1>4. job.changed \cup uncached \in SUBSET Lous /\ state.images \in SUBSET Urls
  BY <1>1 DEF Jobs, States
<1>5. /\ RefsIn(archive, job.changed \cup uncached) \in SUBSET Urls
      /\ \A u \in RefsIn(archive, job.changed \cup uncached) :
           \E l \in job.changed \cup uncached : u \in Refs(archive, l)
      /\ \A l \in job.changed : Refs(archive, l) \subseteq RefsIn(archive, job.changed \cup uncached)
  BY <1>1, <1>4, RefsInFacts
<1>6. \A l \in Lous : Refs(archive, l) # {} => l \in Present(archive)
  BY <1>1, RefsInFacts
<1>7. \A u \in tasks : \E l \in Present(archive) : u \in Refs(archive, l)
  <2>1. ASSUME NEW u \in retained  PROVE \E l \in Present(archive) : u \in Refs(archive, l)
    <3>1. \E l \in Lous : rows[l] # None /\ u \in rows[l]
      BY CountFacts
    <3> QED  BY <1>3, <3>1
  <2> HIDE DEF retained
  <2> QED  BY <1>4, <1>5, <1>6, <2>1
<1>8. ASSUME NEW u \in RefsIn(archive, Lous)  PROVE u \in mapped \cup tasks
  <2>1. PICK l \in Lous : u \in Refs(archive, l)
    BY DEF RefsIn
  <2>2. CASE l \in job.changed
    BY <1>5, <2>1, <2>2
  <2>3. CASE l \notin job.changed
    <3>1. u \in mapped \cup state.images
      BY <2>1, <2>3, UnchangedFloors
    <3>2. rows[l] # None /\ u \in rows[l]
      BY <1>3, <1>6, <2>1
    <3>3. Count(rows, u) > 0
      BY <3>2, CountFacts
    <3> QED  BY <3>1, <3>3
  <2> QED  BY <2>2, <2>3
<1>9. /\ tasks \in SUBSET Urls /\ retained \in SUBSET Urls /\ retained \subseteq tasks
  BY <1>4, <1>5
<1> HIDE DEF rows, retained, tasks
<1>10. plan \in AllPlans
  BY <1>2, <1>3, <1>9 DEF AllPlans, Kinds
<1>11. ManifestIsExact(plan, tasks)
  <2>1. plan.kind \notin {"hit", "delta"} /\ plan.rows = RowsFor(Present(archive))
    BY <1>2 DEF rows
  <2> QED  BY <1>1, <1>7, <1>9, <2>1, WholeIsExact
<1> QED  BY <1>2, <1>8, <1>9, <1>10, <1>11 DEF PlanSound

LEMMA DeltaPlanSound ==
  ASSUME IInv, Running, IncrementalAllowed, state.manifest # None, DeltaApplies, NEW plan,
         plan = DeltaPlan
  PROVE  PlanSound(plan)
<1> DEFINE newly == {u \in Urls : Count(NewRows, u) > 0 /\ state.counts[u] = 0}
           retained == {u \in state.images : UpdatedCount(u) > 0}
           rows == [l \in Lous |-> IF l \in job.changed THEN NewRows[l]
                                   ELSE state.manifest.rows[l]]
<1>1. /\ Types /\ archive \in Archives /\ state \in States /\ job \in Jobs
      /\ job.changed \in SUBSET Lous /\ state.images \in SUBSET Urls /\ archive.rev \in Nat
      /\ state.manifest \in Manifests /\ state.counts \in [Urls -> Nat]
  BY DEF IInv, Types, Archives, States, Jobs
<1>2. /\ plan = [kind |-> "delta", tasks |-> newly \cup retained, retained |-> retained,
                 rows |-> NewRows, pending |-> {}]
  BY DEF DeltaPlan, Plan
<1>3. /\ NewRows \in Rows
      /\ \A l \in Lous : NewRows[l] = IF l \in job.changed THEN Refs(archive, l) ELSE None
      /\ \A l \in Lous : Refs(archive, l) \in SUBSET Urls /\ Refs(archive, l) # None
  BY <1>1, RowsForFacts DEF NewRows
<1>4. rows \in Rows
  BY <1>1, <1>3 DEF Manifests, Rows
<1>5. \A l \in Lous \ job.changed :
        /\ Refs(archive, l) \subseteq mapped \cup state.images
        /\ RowOK(archive, state.manifest, l, Refs(archive, l))
  BY UnchangedFloors
<1>6. /\ \A l \in Lous : archive.latest[l] # None => rows[l] # None
      /\ \A l \in Lous : rows[l] # None => rows[l] = Refs(archive, l)
  BY <1>3, <1>5 DEF RowOK
<1>7. /\ state.counts = Counts(state.manifest.rows)
      /\ \A u \in state.images : state.counts[u] > 0
      /\ \A l \in Lous : state.manifest.rows[l] # None =>
           state.manifest.rows[l] \subseteq mapped \cup state.images
  BY DEF IInv, Files, ManifestOK
<1>8. ASSUME NEW u \in Urls
      PROVE  /\ UpdatedCount(u) = Count(rows, u) /\ UpdatedCount(u) \in Nat
             /\ Count(NewRows, u) \in Nat /\ state.counts[u] \in Nat
             /\ Count(NewRows, u) > 0 => UpdatedCount(u) > 0
  <2>1. state.counts[u] = Count(state.manifest.rows, u)
    BY <1>7, CountsTyped
  <2>2. Count(rows, u) = Count(state.manifest.rows, u) - Count(OldRows, u) + Count(NewRows, u)
    BY <1>1, <1>3, CountsExchanged DEF OldRows
  <2>3. Count(OldRows, u) <= state.counts[u]
    BY DEF DeltaApplies
  <2>4. Count(OldRows, u) \in Nat /\ Count(NewRows, u) \in Nat /\ state.counts[u] \in Nat
    BY <1>1, CountFacts
  <2> QED  BY <2>1, <2>2, <2>3, <2>4 DEF UpdatedCount
<1>9. ASSUME NEW u \in newly \cup retained  PROVE UpdatedCount(u) > 0 /\ u \in Urls
  BY <1>1, <1>8
<1>10. ASSUME NEW u \in RefsIn(archive, Lous)  PROVE u \in mapped \cup newly \cup retained
  <2>1. PICK l \in Lous : u \in Refs(archive, l)
    BY DEF RefsIn
  <2>2. u \in Urls /\ l \in Present(archive)
    BY <1>1, <1>3, <2>1, RefsInFacts
  <2>3. rows[l] = Refs(archive, l) /\ rows[l] # None
    BY <1>6, <2>2 DEF Present
  <2>4. UpdatedCount(u) > 0
    <3>1. Count(rows, u) > 0
      BY <2>1, <2>3, CountFacts
    <3> QED  BY <1>8, <2>2, <3>1
  <2>5. CASE l \notin job.changed
    BY <1>5, <2>1, <2>4, <2>5
  <2>6. CASE l \in job.changed
    <3>1. Count(NewRows, u) > 0
      BY <1>3, <2>1, <2>6, CountFacts
    <3>2. CASE state.counts[u] = 0
      BY <2>2, <3>1, <3>2
    <3>3. CASE state.counts[u] # 0
      <4>1. Count(state.manifest.rows, u) > 0
        BY <1>7, <1>8, <2>2, <3>3, CountsTyped
      <4>2. u \in mapped \cup state.images
        BY <1>7, <4>1, CountFacts
      <4> QED  BY <2>4, <4>2
    <3> QED  BY <3>2, <3>3
  <2> QED  BY <2>5, <2>6
<1>11. /\ newly \in SUBSET Urls /\ retained \in SUBSET Urls /\ newly \cup retained \in SUBSET Urls
       /\ retained \subseteq newly \cup retained
  BY <1>1
<1> HIDE DEF newly, retained
<1>12. plan \in AllPlans
  BY <1>2, <1>3, <1>11 DEF AllPlans, Kinds
<1>13. /\ NewManifest(plan) = [rev |-> archive.rev, rows |-> rows]
       /\ NewCounts(plan) = [u \in Urls |-> UpdatedCount(u)]
  BY <1>2 DEF NewManifest, NewCounts
<1>14. NewCounts(plan) = Counts(rows) /\ NewCounts(plan) \in [Urls -> Nat]
  <2>1. [u \in Urls |-> UpdatedCount(u)] = [u \in Urls |-> Count(rows, u)]
    BY <1>8
  <2> QED  BY <1>13, <2>1, CountsTyped DEF Counts
<1> HIDE DEF rows
<1>15. ManifestIsExact(plan, newly \cup retained)
  <2>1. NewManifest(plan) \in Manifests
    BY <1>1, <1>4, <1>13 DEF Manifests
  <2>2. NewManifest(plan).rev = archive.rev /\ NewManifest(plan).rows = rows
    BY <1>13
  <2>3. \A u \in newly \cup retained : NewCounts(plan)[u] > 0
    BY <1>9, <1>13
  <2>4. \A l \in Lous : RowOK(archive, NewManifest(plan), l, Refs(archive, l))
    BY <1>6, <2>2 DEF RowOK
  <2> QED  BY <1>14, <2>1, <2>2, <2>3, <2>4 DEF ManifestIsExact
<1>16. RefsIn(archive, Lous) \subseteq mapped \cup (newly \cup retained)
  BY <1>10
<1> QED  BY <1>2, <1>11, <1>12, <1>15, <1>16 DEF PlanSound

LEMMA PlansAreSound ==
  ASSUME IInv, Running, NEW plan \in Plans
  PROVE  PlanSound(plan)
<1>1. /\ Types /\ Present(archive) \in SUBSET Lous
      /\ Present(archive) \cup Unresolved(archive, job.total) \in SUBSET Lous
  BY DEF IInv, Types, Present, Unresolved, Missing
<1>2. CASE plan = CompletePlan("full", Present(archive) \cup Unresolved(archive, job.total))
  BY <1>1, <1>2, CompletePlanSound
<1>3. CASE plan = HitPlan /\ ImageCurrent
  BY <1>3, HitPlanSound
<1>4. CASE IncrementalAllowed /\ \E uncached \in SUBSET Present(archive) :
                                    plan = BootstrapPlan(uncached)
  BY <1>4, BootstrapPlanSound
<1>5. CASE IncrementalAllowed /\ state.manifest # None /\ DeltaApplies /\ plan = DeltaPlan
  BY <1>5, DeltaPlanSound
<1>6. CASE plan = CompletePlan("rebuild", Present(archive))
  BY <1>1, <1>6, CompletePlanSound
<1> QED  BY <1>2, <1>3, <1>4, <1>5, <1>6 DEF Plans

-----------------------------------------------------------------------------
(* The images.                                                               *)

LEMMA DownloadImagesOK == IInv /\ DownloadImages => IInv'
<1> SUFFICES ASSUME IInv, DownloadImages  PROVE IInv'
  OBVIOUS
<1>1. /\ Types /\ Files /\ Run /\ pc = "images" /\ archive \in Archives /\ job \in Jobs
      /\ mapped \in SUBSET Urls /\ Running /\ UNCHANGED <<archive, state, runs, edits>>
      /\ pc' = IF ~job.full THEN "commitImages"
               ELSE IF job.cacheable THEN "commitFloor" ELSE "uncached"
  BY DEF IInv, Types, DownloadImages, Running, Goto
<1>2. PICK plan, due, failed :
        /\ plan \in Plans
        /\ due \in SUBSET plan.retained
        /\ failed \in SUBSET (((plan.tasks \ plan.retained) \cup due) \ mapped)
        /\ mapped' = mapped \cup (((plan.tasks \ plan.retained) \cup due) \ failed)
        /\ job' = [job EXCEPT !.plan = [plan EXCEPT
                     !.pending = (plan.retained \ due) \cup failed]]
  <2>1. PICK plan \in Plans : \E due \in SUBSET plan.retained :
          LET tried == (plan.tasks \ plan.retained) \cup due
          IN  \E failed \in SUBSET (tried \ mapped) :
                /\ mapped' = mapped \cup (tried \ failed)
                /\ job' = [job EXCEPT !.plan = [plan EXCEPT
                             !.pending = (plan.retained \ due) \cup failed]]
    BY DEF DownloadImages
  <2> QED  BY <2>1
<1>3. PICK pending : pending = (plan.retained \ due) \cup failed
  OBVIOUS
<1>4. /\ plan \in AllPlans /\ plan.retained \subseteq plan.tasks
      /\ plan.kind = "hit" => ImageCurrent
      /\ RefsIn(archive, Lous) \subseteq mapped \cup plan.tasks
      /\ ManifestIsExact(plan, plan.tasks)
  BY <1>1, <1>2, PlansAreSound DEF PlanSound
<1>5. /\ pending \in SUBSET plan.tasks /\ plan.tasks \in SUBSET Urls
      /\ mapped' \in SUBSET Urls /\ mapped \subseteq mapped'
      /\ mapped \cup plan.tasks \subseteq mapped' \cup pending
  BY <1>1, <1>2, <1>3, <1>4 DEF AllPlans
<1>6. PICK new : new = [plan EXCEPT !.pending = pending]
  OBVIOUS
<1>7. new \in AllPlans /\ new.kind = plan.kind /\ new.rows = plan.rows /\ new.pending = pending
  BY <1>4, <1>5, <1>6 DEF AllPlans
<1>8. job' = [job EXCEPT !.plan = new]
  BY <1>2, <1>3, <1>6
<1>9. /\ job' \in Jobs /\ job'.plan = new /\ job'.total = job.total /\ job'.base = job.base
      /\ job'.changed = job.changed /\ job'.full = job.full
  BY <1>1, <1>7, <1>8 DEF Jobs
<1>10. /\ state.pagination = job.total /\ job.total \in Totals /\ BaseOK
       /\ job.full /\ job.cacheable => /\ state.floors = Unresolved(archive, job.total)
                                       /\ archive.built = SignatureOf(archive, job.total)
       /\ ~job.full => FloorCurrent
  BY <1>1 DEF Run, TotalOK, BuildOK, BuildDone
<1>11. Types'
  BY <1>1, <1>5, <1>9 DEF Types, Pcs
<1>12. archive.rev <= archive.rev /\ archive.floorRev <= archive.floorRev /\ job.changed \in SUBSET Lous
  BY <1>1 DEF Archives, Jobs
<1>13. Files'
  BY <1>1, <1>5, <1>12, FilesMoved
<1>14. BaseOK'
  BY <1>1, <1>5, <1>9, <1>10, <1>12, BaseMoved
<1>15. TotalOK' /\ ShortOK'
  BY <1>1, <1>9, <1>10 DEF TotalOK, ShortOK
<1>16. BuildOK'
  <2>1. FloorCurrent => FloorCurrent'
    BY <1>1 DEF FloorCurrent, Revisions
  <2> QED  BY <1>1, <1>9, <1>10, <2>1 DEF BuildOK, BuildDone
<1>17. PlanOK'
  <2>1. ImageCurrent => ImageCurrent'
    BY <1>1 DEF ImageCurrent, ImageIsCurrent
  <2>2. RefsIn(archive', Lous) \subseteq mapped' \cup new.pending
    BY <1>1, <1>4, <1>5, <1>7
  <2>3. ManifestIsExact(new, pending)'
    <3>1. PICK us : us = plan.tasks
      OBVIOUS
    <3> QED  BY <1>1, <1>4, <1>5, <1>7, <1>9, <3>1, SameManifest
  <2>4. ManifestIsExact(new, new.pending)'
    BY <1>7, <2>3
  <2> QED  BY <1>4, <1>7, <1>9, <2>1, <2>2, <2>4 DEF PlanOK
<1> QED  BY <1>11, <1>13, <1>14, <1>15, <1>16, <1>17 DEF IInv, Run

\* The image commit: what the plan promised becomes what the state says.
LEMMA CommitImagesOK ==
  IInv /\ CommitImages => IInv' /\ (FloorCurrent /\ ImageCurrent)'
<1> SUFFICES ASSUME IInv, CommitImages  PROVE IInv' /\ FloorCurrent' /\ ImageCurrent'
  OBVIOUS
<1>1. /\ Types /\ Files /\ Run /\ pc = "commitImages" /\ archive \in Archives
      /\ state \in States /\ job \in Jobs /\ pc' = "idle" /\ job' = NoJob
      /\ UNCHANGED <<archive, mapped, runs, edits>>
  BY DEF IInv, Types, CommitImages, EndRun
<1>2. /\ job.plan.kind = "hit" => ImageCurrent
      /\ RefsIn(archive, Lous) \subseteq mapped \cup job.plan.pending
      /\ ManifestIsExact(job.plan, job.plan.pending) /\ FloorCurrent
  BY <1>1 DEF Run, PlanOK, BuildOK
<1>3. archive.rev \in Nat /\ Fingerprints(archive) \in Prints
  BY <1>1, RefsAreShown, FloorsAreNumbers DEF Archives
<1>4. PICK mark \in ImageMarks : mark = <<archive.rev, Fingerprints(archive)>>
  BY <1>3 DEF ImageMarks
<1>5. mark # None /\ mark[1] = archive.rev /\ mark[2] = Fingerprints(archive)
  BY <1>4, MarksAreNot
<1>6. PICK manifest \in Manifests \cup {None}, counts \in [Urls -> Nat], pending \in SUBSET Urls :
        /\ manifest = NewManifest(job.plan) /\ counts = NewCounts(job.plan)
        /\ pending = job.plan.pending
  <2>1. job.plan.pending \in SUBSET Urls
    BY <1>1 DEF Jobs, AllPlans
  <2> QED  BY <1>2, <2>1 DEF ManifestIsExact
<1>7. /\ RefsIn(archive, Lous) \subseteq mapped \cup pending
      /\ manifest # None =>
           /\ manifest.rev = archive.rev
           /\ \A l \in Lous : RowOK(archive, manifest, l, Refs(archive, l))
           /\ counts = Counts(manifest.rows) /\ \A u \in pending : counts[u] > 0
  BY <1>2, <1>6 DEF ManifestIsExact
<1>8. state' = [state EXCEPT !.images = pending, !.manifest = manifest, !.counts = counts,
                             !.image = mark]
  <2>1. job.plan.kind = "hit" => state.image = mark
    BY <1>2, <1>4 DEF ImageCurrent, ImageIsCurrent
  <2> QED  BY <1>1, <1>4, <1>6, <2>1 DEF CommitImages, States
<1>9. /\ state' \in States /\ state'.image = mark /\ state'.images = pending
      /\ state'.manifest = manifest /\ state'.counts = counts /\ state'.floor = state.floor
      /\ state'.floors = state.floors /\ state'.pagination = state.pagination
  <2>1. state' = [pagination |-> state.pagination, floor |-> state.floor,
                  floors |-> state.floors, image |-> mark, images |-> pending,
                  manifest |-> manifest, counts |-> counts]
    BY <1>1, <1>8 DEF States
  <2>2. /\ manifest \in Manifests \cup {None} /\ counts \in [Urls -> Nat]
        /\ pending \in SUBSET Urls /\ mark \in ImageMarks
    BY <1>4, <1>6
  <2>3. state' \in States
    BY <1>1, <2>1, <2>2 DEF States
  <2> QED  BY <2>1, <2>3
<1>10. Types'
  BY <1>1, <1>9, NoneTyped DEF Types, Pcs
<1>11. FloorOK(archive, state')
  BY <1>1, <1>9 DEF Files, FloorOK
<1>12. ImageOK(archive, state', mapped)
  <2>1. ASSUME NEW l \in Lous  PROVE FloorImages(archive, state', mapped, l)
    <3>1. Shown(archive, state'.image[2], l) = Refs(archive, l)
      BY <1>1, <1>5, <1>9, RefsAreShown
    <3>2. Refs(archive, l) \subseteq mapped \cup pending
      BY <1>7 DEF RefsIn
    <3> QED  BY <1>7, <1>9, <3>1, <3>2 DEF FloorImages
  <2>2. archive.rev <= archive.rev
    BY <1>3
  <2> QED  BY <1>5, <1>7, <1>9, <2>1, <2>2 DEF ImageOK
<1>13. ManifestOK(state', mapped)
  <2>1. ASSUME manifest # None, NEW l \in Lous, manifest.rows[l] # None
        PROVE  manifest.rows[l] \subseteq mapped \cup pending
    <3>1. manifest.rows[l] = Refs(archive, l)
      BY <1>7, <2>1 DEF RowOK
    <3> QED  BY <1>7, <3>1 DEF RefsIn
  <2> QED  BY <1>7, <1>9, <2>1 DEF ManifestOK
<1>14. Files'
  BY <1>1, <1>11, <1>12, <1>13 DEF Files
<1>15. Run'
  BY <1>1 DEF Run, TotalOK, ShortOK, BuildOK, BuildDone, BaseOK, PlanOK, Running
<1>16. FloorCurrent'
  BY <1>1, <1>2, <1>9 DEF FloorCurrent, Revisions
<1>17. ImageCurrent'
  <2>1. Fingerprints(archive)' = Fingerprints(archive)
    BY <1>1 DEF Fingerprints
  <2> QED  BY <1>1, <1>4, <1>9, <2>1 DEF ImageCurrent, ImageIsCurrent
<1> QED  BY <1>10, <1>14, <1>15, <1>16, <1>17 DEF IInv

-----------------------------------------------------------------------------
(* The theorems.                                                             *)

LEMMA StepOK == IInv /\ [Next]_vars => IInv'
<1> SUFFICES ASSUME IInv, [Next]_vars  PROVE IInv'
  OBVIOUS
<1>1. CASE UNCHANGED vars
  <2>1. UNCHANGED <<archive, state, mapped, pc, job, runs, edits>>
    BY <1>1 DEF vars
  <2>2. Types' /\ Files'
    BY <2>1 DEF IInv, Types, Files
  <2>3. TotalOK' /\ ShortOK' /\ BuildOK' /\ BaseOK'
    BY <2>1 DEF IInv, Run, TotalOK, ShortOK, BuildOK, BuildDone, BaseOK, Running, AsSnapped,
                Texted, FloorCurrent, Revisions
  <2>4. PlanOK'
    <3>1. PICK plan, us : plan = job.plan /\ us = job.plan.pending
      OBVIOUS
    <3>2. ManifestIsExact(plan, us) => ManifestIsExact(plan, us)'
      BY <2>1, SameManifest
    <3> QED  BY <2>1, <3>1, <3>2 DEF IInv, Run, PlanOK, ImageCurrent, ImageIsCurrent
  <2> QED  BY <2>2, <2>3, <2>4 DEF IInv, Run
<1>2. CASE BeginSync
  BY <1>2, BeginSyncOK
<1>3. CASE CommitPagination
  BY <1>3, CommitPaginationOK
<1>4. CASE BeginMaintain
  BY <1>4, BeginMaintainOK
<1>5. CASE Refuse \/ Refused \/ EndUncached \/ Crash
  BY <1>5, EndsOK
<1>6. CASE RepairRecovered
  BY <1>6, RepairRecoveredOK
<1>7. CASE ReuseFloorState
  BY <1>7, ReuseFloorStateOK
<1>8. CASE RecoverExactly
  BY <1>8, RecoverExactlyOK
<1>9. CASE MarkExact
  BY <1>9, MarkExactOK
<1>10. CASE StoreExactAttempt
  BY <1>10, StoreExactAttemptOK
<1>11. CASE BuildFloorMap
  BY <1>11, BuildFloorMapOK
<1>12. CASE UpsertRecovered
  BY <1>12, UpsertRecoveredOK
<1>13. CASE StoreFloors
  BY <1>13, StoreFloorsOK
<1>14. CASE CommitFloor
  BY <1>14, CommitFloorOK
<1>15. CASE DownloadImages
  BY <1>15, DownloadImagesOK
<1>16. CASE CommitImages
  BY <1>16, CommitImagesOK
<1>17. CASE SaveOverlay \/ ClearOverlay \/ SelectVersion \/ ClearSelection
  BY <1>17, WebEditsOK
<1> QED
  BY <1>1, <1>2, <1>3, <1>4, <1>5, <1>6, <1>7, <1>8, <1>9, <1>10, <1>11, <1>12, <1>13, <1>14,
     <1>15, <1>16, <1>17 DEF Next

LEMMA Accounted == IInv => DerivedIsAccounted
<1> SUFFICES ASSUME IInv  PROVE DerivedIsAccounted
  OBVIOUS
<1>1. Types /\ Files /\ archive \in Archives /\ state \in States /\ job \in Jobs
  BY DEF IInv, Types
<1>2. TypeOK
  BY <1>1 DEF Types, TypeOK, Archives, States, Jobs, Manifests, Rows, Texts
<1>3. ImageCurrent => PlanSound(HitPlan)
  BY HitPlanSound
<1>4. ImagesAccounted
  BY <1>3 DEF ImagesAccounted, PlanSound, HitPlan, Plan
<1>5. ManifestExact
  <2> SUFFICES ASSUME ImageCurrent, state.manifest # None
               PROVE  /\ state.manifest.rev = archive.rev
                      /\ \A l \in Present(archive) : state.manifest.rows[l] = Refs(archive, l)
                      /\ state.counts = Counts(state.manifest.rows)
                      /\ \A u \in state.images : state.counts[u] > 0
    BY DEF ManifestExact
  <2>1. ManifestIsExact(HitPlan, state.images)
    BY <1>3 DEF PlanSound, HitPlan, Plan
  <2>2. NewManifest(HitPlan) = state.manifest /\ NewCounts(HitPlan) = state.counts
    BY DEF HitPlan, Plan, NewManifest, NewCounts
  <2>3. \A l \in Lous : RowOK(archive, state.manifest, l, Refs(archive, l))
    BY <2>1, <2>2 DEF ManifestIsExact
  <2> QED  BY <2>1, <2>2, <2>3 DEF ManifestIsExact, RowOK, Present
<1>6. FloorsAccounted
  BY <1>1, FloorIsTrue DEF FloorsAccounted
<1> QED  BY <1>2, <1>4, <1>5, <1>6 DEF DerivedIsAccounted

\* What the archive and its derived state promise each other holds at every step of
\* every run: the inductive invariant (archive_processing.py, archive_state_store.py).
THEOREM Invariance == Spec => []IInv
<1>1. Init => IInv
  BY InitOK
<1>2. IInv /\ [Next]_vars => IInv'
  BY StepOK
<1> QED  BY <1>1, <1>2, PTL DEF Spec

\* Derived state that counts as current accounts for every image and every missing
\* floor of the archive, whichever shortcuts the runs took and wherever they died
\* (archive_image_processing.py, archive_floor_processing.py).
THEOREM DerivedStaysAccounted == Spec => []DerivedIsAccounted
BY Invariance, Accounted, PTL

\* A run that gets to its image commit leaves floors and images current
\* (archive_processing.py, commit_image_processing_state).
THEOREM CompletedRunsAreCurrent == Spec => CompletedRunIsCurrent
<1>1. IInv /\ [Next]_vars => [CommitImages => (FloorCurrent /\ ImageCurrent)']_vars
  BY CommitImagesOK
<1> QED  BY <1>1, Invariance, PTL DEF Spec, CompletedRunIsCurrent

-----------------------------------------------------------------------------
(* The floor map: what its builds rest on.                                   *)

(* A place of an author floor is the true one, where it has one; candidates  *)
(* include it, where there are any.                                          *)
TruePlaces(f) == \A l \in Floor!AuthorLous : f[l] \in {None, Floor!Orig(l)}
TrueOffers(f) == \A l \in Floor!AuthorLous : f[l] = {} \/ Floor!Orig(l) \in f[l]

Builds ==
  [missing : SUBSET Floor!AuthorLous, retry : SUBSET Floor!AuthorLous,
   at : [Floor!AuthorLous -> Floor!MaybeFloors], recovered : [Floor!AuthorLous -> Floor!MaybeFloors],
   seen : SUBSET Floor!Floors, old : [Floor!AuthorLous -> SUBSET Floor!Floors],
   cands : [Floor!AuthorLous -> SUBSET Floor!Floors],
   exact : [Floor!AuthorLous -> Floor!MaybeFloors],
   posts : [Floor!Floors -> {None, "named", "anon"}],
   scanned : SUBSET Int, range : SUBSET Int, left : SUBSET Floor!AuthorLous,
   empty : SUBSET Int, steady : SUBSET Floor!AuthorLous]

MapTyped ==
  /\ floor \in [Floor!Floors -> {"none", "named", "anon", "hidden"}]
  /\ refs \subseteq Floor!AuthorLous /\ 0 \in refs
  /\ total \in Nat
  /\ map \in [Floor!AuthorLous -> {None} \union Floor!Entries]
  /\ mapStep \in {"idle", "pending", "range", "infer"}
  /\ mapStep # "idle" => mapJob \in Builds
  /\ faults \in Nat

(* The thread grows at its end; the view has been seen up to a post of it;   *)
(* what is archived is not anonymous, what is missing cannot be fetched.     *)
ThreadTrue ==
  /\ Floor!Posted = 0..(Cardinality(Floor!Posted) - 1)
  /\ total <= Cardinality(Mine \intersect Floor!Posted)
  /\ \A l \in refs : floor[Floor!Orig(l)] \in {"named", "hidden"}
  /\ \A l \in Floor!Missing : floor[Floor!Orig(l)] \in {"anon", "hidden"}

(* A stored entry is true, and of a floor that is still archived or missing. *)
EntryTrue(l) ==
  LET e == map[l] IN
  /\ e.at \in {None, Floor!Orig(l)} /\ e.recovered \in {None, Floor!Orig(l)}
  /\ e.cands = {} \/ Floor!Orig(l) \in e.cands
  /\ e.known => l \in refs /\ e.recovered = None
  /\ ~e.known => l \in Floor!Missing /\ (e.at = None => Floor!Orig(l) \in e.cands)
MapTrue == \A l \in Floor!AuthorLous : map[l] # None => EntryTrue(l)

(* A build knows nothing false, and what is stored.                          *)
BuildTrue(j) ==
  /\ j.missing = Floor!Missing
  /\ TruePlaces(j.at) /\ TruePlaces(j.recovered) /\ TruePlaces(j.exact)
  /\ TrueOffers(j.old) /\ TrueOffers(j.cands)
  /\ j.left \subseteq Floor!Missing
  /\ \A l \in Floor!AuthorLous : j.cands[l] # {} => l \in Floor!Missing
  /\ \A o \in j.seen : \E r \in refs : o = Floor!Orig(r)
  /\ \A l \in Floor!Missing : j.posts[Floor!Orig(l)] \in {None, "anon"}
  /\ \A l \in Floor!AuthorLous : map[l] # None =>
       /\ j.recovered[l] = map[l].recovered
       /\ map[l].at # None => j.at[l] = map[l].at

(* Floors that stay where they are have a page that is still to be read,     *)
(* until they are located.                                                   *)
SteadyTrue(j) == \A l \in j.steady : l \in refs /\ floor[Floor!Orig(l)] = "named"
Ahead(j) ==
  \A l \in j.steady : j.at[l] = None => Floor!Page(Floor!Orig(l)) \in j.range \ j.scanned
AllFound(j) == \A l \in j.steady : j.at[l] # None
SearchTrue(j) ==
  j.empty = {} => /\ mapStep \in {"pending", "range"} => Ahead(j)
                  /\ mapStep = "infer" => AllFound(j)

FloorInv ==
  /\ MapTyped /\ ThreadTrue /\ MapTrue
  /\ mapStep # "idle" => BuildTrue(mapJob) /\ SteadyTrue(mapJob) /\ SearchTrue(mapJob)
-----------------------------------------------------------------------------
(* Numbers, and finite sets of them.                                         *)

(* The instance counts like the module it instances.                         *)
LEMMA SameCount ==
  ASSUME NEW S
  PROVE  Floor!Cardinality(S) = Cardinality(S)
BY DEF Floor!Cardinality, Cardinality

(* A bounded set of numbers has a least element, and a greatest.             *)
LEMMA LeastFloor ==
  ASSUME NEW S, S \subseteq Nat, S # {}
  PROVE  Floor!Min(S) \in S /\ \A y \in S : Floor!Min(S) <= y
<1>1. \E m \in S : \A y \in S : <<y, m>> \notin OpToRel(<, Nat)
  BY NatLessThanWellFounded, WFMin
<1>2. PICK m \in S : \A y \in S : ~(y < m)
  BY <1>1 DEF OpToRel
<1>3. \E x \in S : \A y \in S : x =< y
  BY <1>2
<1> QED  BY <1>3 DEF Floor!Min

LEMMA GreatestFloor ==
  ASSUME NEW n \in Nat, NEW S \in SUBSET (0..n), S # {}
  PROVE  Floor!Max(S) \in S /\ \A y \in S : y <= Floor!Max(S)
<1> DEFINE D == {n - x : x \in S}
<1>1. D \subseteq Nat /\ D # {}
  OBVIOUS
<1>2. \E d \in D : \A e \in D : <<e, d>> \notin OpToRel(<, Nat)
  <2> HIDE DEF D
  <2> QED  BY <1>1, NatLessThanWellFounded, WFMin
<1>3. PICK d \in D : \A e \in D : ~(e < d)
  BY <1>1, <1>2 DEF OpToRel
<1>4. PICK x \in S : d = n - x
  BY <1>3
<1>5. \A y \in S : ~(n - y < n - x)
  BY <1>3, <1>4
<1>6. \E z \in S : \A y \in S : z >= y
  BY <1>4, <1>5
<1> QED  BY <1>6 DEF Floor!Max

(* A smaller number has fewer of a finite set below it.                      *)
LEMMA FewerBelow ==
  ASSUME NEW S \in SUBSET Int, IsFiniteSet(S), NEW x \in S, NEW y \in Int, x < y
  PROVE  /\ Cardinality(Floor!Before(S, x)) \in Nat
         /\ Cardinality(Floor!Before(S, y)) \in Nat
         /\ Cardinality(Floor!Before(S, x)) < Cardinality(Floor!Before(S, y))
<1> DEFINE A == Floor!Before(S, x)
           B == Floor!Before(S, y)
<1>1. IsFiniteSet(A) /\ IsFiniteSet(B)
  BY FS_Subset DEF Floor!Before
<1>2. A \subseteq B /\ x \in B /\ x \notin A
  <2>1. \A k \in S : k < x => k < y
    <3> TAKE k \in S
    <3>1. k \in Int /\ x \in Int
      OBVIOUS
    <3> QED  BY <3>1
  <2>2. x \in Int /\ ~(x < x)
    OBVIOUS
  <2> QED  BY <2>1, <2>2 DEF Floor!Before
<1> HIDE DEF A, B
<1>3. Cardinality(A) \in Nat /\ Cardinality(B) \in Nat
  BY <1>1, FS_CardinalityType
<1>4. Cardinality(A) <= Cardinality(B) /\ Cardinality(A) # Cardinality(B)
  BY <1>1, <1>2, FS_Subset
<1>5. Cardinality(A) < Cardinality(B)
  BY <1>3, <1>4
<1> QED  BY <1>3, <1>5 DEF A, B

-----------------------------------------------------------------------------
(* The author's floors and their original places.                            *)

LEMMA MapBounds ==
  /\ LastLou \in Nat /\ PerPage \in Nat \ {0}
  /\ 0 \in Mine /\ Mine \subseteq Floor!Floors /\ Floor!Floors \subseteq Nat
  /\ None \notin Floor!Floors /\ None \notin Floor!Entries
  /\ IsFiniteSet(Mine) /\ Cardinality(Mine) \in Nat \ {0}
  /\ Floor!AuthorLous = 0..(Cardinality(Mine) - 1) /\ 0 \in Floor!AuthorLous
<1>1. /\ LastLou \in Nat /\ PerPage \in Nat \ {0}
      /\ 0 \in Mine /\ Mine \subseteq Floor!Floors
      /\ None \notin Floor!Floors /\ None \notin Floor!Entries
  BY FloorMapBounds DEF Floor!FloorMapAssumption
<1>2. Floor!Floors = 0..LastLou
  BY DEF Floor!Floors
<1>3. IsFiniteSet(Mine)
  <2>1. IsFiniteSet(0..LastLou)
    BY <1>1, FS_Interval
  <2> QED  BY <1>1, <1>2, <2>1, FS_Subset
<1>4. Cardinality(Mine) \in Nat /\ Cardinality(Mine) # 0
  BY <1>1, <1>3, FS_CardinalityType, FS_EmptySet
<1>5. Floor!AuthorLous = 0..(Cardinality(Mine) - 1)
  BY SameCount DEF Floor!AuthorLous
<1> QED  BY <1>1, <1>2, <1>3, <1>4, <1>5

(* The numbers of the author's view follow the places.                       *)
LEMMA Numbered ==
  ASSUME NEW o \in Mine
  PROVE  /\ Floor!AuthorLou(o) \in Floor!AuthorLous
         /\ \A q \in Mine : o < q => Floor!AuthorLou(o) < Floor!AuthorLou(q)
<1>1. \A q \in Int : Floor!AuthorLou(q) = Cardinality(Floor!Before(Mine, q))
  BY SameCount DEF Floor!AuthorLou, Floor!Before
<1>2. Mine \in SUBSET Int /\ IsFiniteSet(Mine) /\ o \in Int
  BY MapBounds
<1>3. ASSUME NEW q \in Mine, o < q
      PROVE  Floor!AuthorLou(o) < Floor!AuthorLou(q)
  BY <1>1, <1>2, <1>3, FewerBelow
<1>4. Floor!AuthorLou(o) \in Floor!AuthorLous
  <2> DEFINE B == Floor!Before(Mine, o)
  <2>1. IsFiniteSet(B) /\ B \subseteq Mine /\ o \notin B
    BY <1>2, FS_Subset DEF Floor!Before
  <2> HIDE DEF B
  <2>2. /\ Cardinality(B) \in Nat /\ Cardinality(B) <= Cardinality(Mine)
        /\ Cardinality(B) # Cardinality(Mine)
    BY <1>2, <2>1, FS_Subset, FS_CardinalityType
  <2>3. Cardinality(B) \in 0..(Cardinality(Mine) - 1)
    BY <2>2, MapBounds
  <2> QED  BY <1>1, <1>2, <2>3, MapBounds DEF B
<1> QED  BY <1>3, <1>4

(* Every number is that of one place.                                        *)
LEMMA EveryLou ==
  ASSUME NEW l \in Floor!AuthorLous
  PROVE  \E o \in Mine : Floor!AuthorLou(o) = l
<1> DEFINE f == [o \in Mine |-> Floor!AuthorLou(o)]
<1>1. \A o, q \in Mine : f[o] = f[q] => o = q
  <2> SUFFICES ASSUME NEW o \in Mine, NEW q \in Mine, f[o] = f[q], o # q PROVE FALSE
    OBVIOUS
  <2>1. o \in Int /\ q \in Int
    BY MapBounds
  <2>2. \A p \in Mine : Floor!AuthorLou(p) \in Int
    BY Numbered, MapBounds
  <2> QED  BY <2>1, <2>2, Numbered
<1>2. f \in Injection(Mine, Floor!AuthorLous)
  BY <1>1, Numbered DEF Injection, IsInjective
<1>3. IsFiniteSet(Floor!AuthorLous) /\ Cardinality(Floor!AuthorLous) = Cardinality(Mine)
  BY MapBounds, FS_Interval
<1>4. f \in Surjection(Mine, Floor!AuthorLous)
  <2> HIDE DEF f
  <2> QED  BY <1>2, <1>3, FS_Injection
<1> QED  BY <1>4 DEF Surjection

LEMMA OrigIs ==
  ASSUME NEW l \in Floor!AuthorLous
  PROVE  /\ Floor!Orig(l) \in Mine /\ Floor!Orig(l) \in Floor!Floors /\ Floor!Orig(l) \in Nat
         /\ Floor!Orig(l) # None
         /\ Floor!AuthorLou(Floor!Orig(l)) = l
         /\ l \in Nat
<1>1. Floor!Orig(l) \in Mine /\ Floor!AuthorLou(Floor!Orig(l)) = l
  BY EveryLou DEF Floor!Orig
<1>2. l \in Nat
  BY MapBounds
<1>3. Floor!Orig(l) \in Floor!Floors /\ Floor!Orig(l) \in Nat /\ Floor!Orig(l) # None
  BY <1>1, MapBounds
<1> QED  BY <1>1, <1>2, <1>3

LEMMA OrigRises ==
  ASSUME NEW k \in Floor!AuthorLous, NEW l \in Floor!AuthorLous
  PROVE  /\ k < l => Floor!Orig(k) < Floor!Orig(l)
         /\ k <= l => Floor!Orig(k) <= Floor!Orig(l)
         /\ Floor!Orig(k) = Floor!Orig(l) => k = l
<1>1. ASSUME k < l PROVE Floor!Orig(k) < Floor!Orig(l)
  <2> SUFFICES ASSUME ~(Floor!Orig(k) < Floor!Orig(l)) PROVE FALSE
    OBVIOUS
  <2>1. Floor!Orig(l) < Floor!Orig(k) \/ Floor!Orig(l) = Floor!Orig(k)
    BY OrigIs
  <2>2. CASE Floor!Orig(l) = Floor!Orig(k)
    BY <1>1, <2>2, OrigIs
  <2>3. CASE Floor!Orig(l) < Floor!Orig(k)
    <3>1. l < k
      BY <2>3, OrigIs, Numbered
    <3> QED  BY <1>1, <3>1, OrigIs
  <2> QED  BY <2>1, <2>2, <2>3
<1>2. Floor!Orig(k) = Floor!Orig(l) => k = l
  BY OrigIs
<1>3. k <= l => k < l \/ k = l
  BY OrigIs
<1>4. Floor!Orig(k) \in Nat /\ Floor!Orig(l) \in Nat
  BY OrigIs
<1> QED  BY <1>1, <1>2, <1>3, <1>4

LEMMA OrigOfAuthorLou ==
  ASSUME NEW o \in Mine
  PROVE  Floor!Orig(Floor!AuthorLou(o)) = o
<1>1. \A q \in Mine : q < o \/ o < q \/ q = o
  BY MapBounds
<1>2. \A q \in Mine : Floor!AuthorLou(q) \in Nat
  BY Numbered, MapBounds
<1>3. \A q \in Mine : Floor!AuthorLou(q) = Floor!AuthorLou(o) => q = o
  BY <1>1, <1>2, Numbered
<1> QED  BY <1>3, Numbered, OrigIs

LEMMA OrigFirst == Floor!Orig(0) = 0
<1>1. {m \in Mine : m < 0} = {}
  <2>1. \A m \in Mine : m \in Nat
    BY MapBounds
  <2>2. \A m \in Nat : ~(m < 0)
    OBVIOUS
  <2> QED  BY <2>1, <2>2
<1>2. Floor!AuthorLou(0) = 0
  BY <1>1, SameCount, FS_EmptySet DEF Floor!AuthorLou
<1> QED  BY <1>2, OrigOfAuthorLou, MapBounds

-----------------------------------------------------------------------------
(* Pages.                                                                    *)

LEMMA PageIs ==
  ASSUME NEW o \in Nat
  PROVE  /\ Floor!Page(o) = (o \div PerPage) + 1
         /\ Floor!Page(o) \in Nat \ {0}
<1> DEFINE q == o \div PerPage
<1>1. q \in Nat
  BY MapBounds
<1> HIDE DEF q
<1>2. Floor!Max({1, q + 1}) = q + 1
  <2>1. \A x \in {1, q + 1} : q + 1 >= x
    BY <1>1
  <2>2. \A x \in {1, q + 1} : (\A y \in {1, q + 1} : x >= y) => x = q + 1
    BY <1>1
  <2> QED  BY <2>1, <2>2 DEF Floor!Max
<1>3. Floor!Page(o) = q + 1
  BY <1>2 DEF Floor!Page, q
<1> QED  BY <1>1, <1>3 DEF q

LEMMA PageRises ==
  ASSUME NEW o \in Nat, NEW q \in Nat, o <= q
  PROVE  Floor!Page(o) <= Floor!Page(q)
<1>1. \A x, y \in Nat : \A p \in Nat \ {0} : x <= y => (x \div p) <= (y \div p)
  OBVIOUS
<1> DEFINE a == o \div PerPage
           b == q \div PerPage
<1>2. a \in Int /\ b \in Int /\ a <= b
  BY <1>1, MapBounds
<1>3. Floor!Page(o) = a + 1 /\ Floor!Page(q) = b + 1
  BY PageIs
<1> HIDE DEF a, b
<1> QED  BY <1>2, <1>3

-----------------------------------------------------------------------------
(* What a gap leaves over.                                                   *)

(* True places among as many possible ones are found by their order, and     *)
(* those among more by what is left on both sides.                           *)
LEMMA PlacesFound ==
  ASSUME NEW G \in SUBSET Floor!AuthorLous, NEW P \in SUBSET Floor!Floors,
         \A g \in G : Floor!Orig(g) \in P, NEW k \in G
  PROVE  /\ Floor!Orig(k) \in Floor!ByPosition(G, P, k)
         /\ Floor!Cardinality(P) = Floor!Cardinality(G) =>
              Floor!Nth(P, Floor!Cardinality(Floor!Before(G, k))) = Floor!Orig(k)
<1> DEFINE x == Floor!Orig(k)
           h == [g \in G |-> Floor!Orig(g)]
<1>1. IsFiniteSet(G) /\ IsFiniteSet(P) /\ P \in SUBSET Int /\ G \in SUBSET Int
  <2>1. IsFiniteSet(Floor!AuthorLous) /\ IsFiniteSet(Floor!Floors)
    BY MapBounds, FS_Interval DEF Floor!Floors
  <2>2. Floor!AuthorLous \subseteq Int /\ Floor!Floors \subseteq Int
    BY MapBounds
  <2>3. IsFiniteSet(G) /\ IsFiniteSet(P)
    BY <2>1, FS_Subset
  <2> QED  BY <2>2, <2>3
<1>2. \A g \in G : /\ Floor!Orig(g) \in P /\ Floor!Orig(g) \in Int /\ g \in Int
                   /\ (g < k <=> Floor!Orig(g) < x) /\ (g > k <=> Floor!Orig(g) > x)
  <2> TAKE g \in G
  <2>1. /\ g \in Nat /\ k \in Nat /\ Floor!Orig(g) \in Nat /\ x \in Nat
    BY OrigIs
  <2>2. /\ g < k => Floor!Orig(g) < x
        /\ k < g => x < Floor!Orig(g)
    BY OrigRises
  <2> QED  BY <2>1, <2>2
<1>3. \A g, i \in G : h[g] = h[i] => g = i
  BY OrigRises
<1>4. ASSUME NEW A \in SUBSET G, NEW B \in SUBSET P, \A g \in A : h[g] \in B
      PROVE  /\ IsFiniteSet(A) /\ IsFiniteSet(B)
             /\ Cardinality(A) \in Nat /\ Cardinality(B) \in Nat
             /\ Cardinality(A) <= Cardinality(B)
             /\ Cardinality(A) = Cardinality(B) <=> \A y \in B : \E g \in A : y = h[g]
  <2> DEFINE i == [g \in A |-> h[g]]
  <2>1. IsFiniteSet(A) /\ IsFiniteSet(B)
    BY <1>1, FS_Subset
  <2>2. i \in Injection(A, B)
    BY <1>3, <1>4 DEF Injection, IsInjective
  <2>3. i \in Surjection(A, B) <=> \A y \in B : \E g \in A : y = h[g]
    BY <1>4 DEF Surjection
  <2> HIDE DEF i, h
  <2>4. Cardinality(A) \in Nat /\ Cardinality(B) \in Nat
    BY <2>1, FS_CardinalityType
  <2>5. Cardinality(A) <= Cardinality(B) /\ (Cardinality(A) = Cardinality(B) <=> i \in Surjection(A, B))
    BY <2>1, <2>2, FS_Injection
  <2> QED  BY <2>1, <2>3, <2>4, <2>5
<1>5. /\ \A g \in Floor!Before(G, k) : h[g] \in Floor!Before(P, x)
      /\ \A g \in Floor!After(G, k) : h[g] \in Floor!After(P, x)
      /\ Floor!Before(G, k) \in SUBSET G /\ Floor!Before(P, x) \in SUBSET P
      /\ Floor!After(G, k) \in SUBSET G /\ Floor!After(P, x) \in SUBSET P
  BY <1>2 DEF Floor!Before, Floor!After
<1>6. /\ Cardinality(Floor!Before(G, k)) \in Nat /\ Cardinality(Floor!Before(P, x)) \in Nat
      /\ Cardinality(Floor!Before(G, k)) <= Cardinality(Floor!Before(P, x))
      /\ Cardinality(Floor!After(G, k)) \in Nat /\ Cardinality(Floor!After(P, x)) \in Nat
      /\ Cardinality(Floor!After(G, k)) <= Cardinality(Floor!After(P, x))
  BY <1>4, <1>5
<1>7. x \in Floor!ByPosition(G, P, k)
  BY <1>2, <1>6, SameCount DEF Floor!ByPosition
<1>8. ASSUME Floor!Cardinality(P) = Floor!Cardinality(G)
      PROVE  Floor!Nth(P, Floor!Cardinality(Floor!Before(G, k))) = x
  <2> DEFINE n == Cardinality(Floor!Before(G, k))
  <2>1. \A y \in P : \E g \in G : y = h[g]
    BY <1>2, <1>4, <1>8, SameCount
  <2>2. \A y \in Floor!Before(P, x) : \E g \in Floor!Before(G, k) : y = h[g]
    BY <1>2, <2>1 DEF Floor!Before
  <2>3. Cardinality(Floor!Before(P, x)) = n
    BY <1>4, <1>5, <2>2
  <2>4. ASSUME NEW y \in P, Cardinality(Floor!Before(P, y)) = n
        PROVE  y = x
    <3>1. y \in Int /\ x \in Int /\ x \in P
      BY <1>1, <1>2
    <3>2. CASE y < x
      BY <1>1, <2>3, <2>4, <3>1, <3>2, FewerBelow
    <3>3. CASE x < y
      BY <1>1, <2>3, <2>4, <3>1, <3>3, FewerBelow
    <3> QED  BY <3>1, <3>2, <3>3
  <2>5. x \in P /\ Floor!Cardinality(Floor!Before(P, x)) = n
    BY <1>2, <2>3, SameCount
  <2>6. \A y \in P : Floor!Cardinality(Floor!Before(P, y)) = n => y = x
    BY <2>4, SameCount
  <2> HIDE DEF n, x
  <2>7. Floor!Nth(P, n) = x
    BY <2>5, <2>6 DEF Floor!Nth
  <2> QED  BY <2>7, SameCount DEF n
<1> QED  BY <1>7, <1>8

-----------------------------------------------------------------------------
(* What the reading of pages changes in a build.                             *)

SameButRead(j, i) ==
  /\ j.missing = i.missing /\ j.retry = i.retry /\ j.recovered = i.recovered
  /\ j.seen = i.seen /\ j.old = i.old /\ j.cands = i.cands /\ j.exact = i.exact
  /\ j.range = i.range /\ j.left = i.left /\ j.steady = i.steady

(* A post that has been read is as it is on its page; a floor is located     *)
(* there, if it is asked for, and if its page has not come empty.            *)
Read(j, i, P, located) ==
  /\ j \in Builds /\ SameButRead(j, i)
  /\ j.scanned = i.scanned \union P
  /\ i.empty \subseteq j.empty
  /\ \A o \in Floor!Floors :
       j.posts[o] = i.posts[o] \/ (j.posts[o] = floor[o] /\ floor[o] \in {"named", "anon"})
  /\ \A l \in Floor!AuthorLous :
       j.at[l] = i.at[l] \/ (l \in located /\ j.at[l] = Floor!Orig(l))
  /\ j.empty = {} => \A l \in located \intersect Floor!AuthorLous :
       floor[Floor!Orig(l)] = "named" /\ Floor!Page(Floor!Orig(l)) \in P
         => j.at[l] = Floor!Orig(l)

LEMMA PagesRead ==
  ASSUME NEW i \in Builds, NEW P \in SUBSET Int, NEW located,
         floor \in [Floor!Floors -> {"none", "named", "anon", "hidden"}],
         NEW j \in Floor!Scans(i, P, located)
  PROVE  Read(j, i, P, located)
<1>1. PICK empty \in SUBSET P : j = Floor!Apply(i, P, empty, located)
  BY DEF Floor!Scans
<1> DEFINE R == {o \in Floor!Floors : Floor!Page(o) \in P \ empty /\ floor[o] \in {"named", "anon"}}
           posts == [o \in Floor!Floors |-> IF o \in R THEN floor[o] ELSE i.posts[o]]
           at == [l \in Floor!AuthorLous |-> IF l \in located /\ Floor!Orig(l) \in R
                                             THEN Floor!Orig(l) ELSE i.at[l]]
<1>2. j = [i EXCEPT !.scanned = i.scanned \union P, !.empty = i.empty \union empty,
                    !.posts = posts, !.at = at]
  BY <1>1 DEF Floor!Apply
<1>3. posts \in [Floor!Floors -> {None, "named", "anon"}]
  BY DEF Builds
<1>4. at \in [Floor!AuthorLous -> Floor!MaybeFloors]
  BY OrigIs DEF Builds, Floor!MaybeFloors
<1>5. \A l \in Floor!AuthorLous : Floor!Orig(l) \in Floor!Floors
  BY OrigIs
<1>6. \A o \in Floor!Floors :
        posts[o] = i.posts[o] \/ (posts[o] = floor[o] /\ floor[o] \in {"named", "anon"})
  OBVIOUS
<1>7. \A l \in Floor!AuthorLous :
        /\ at[l] = i.at[l] \/ (l \in located /\ at[l] = Floor!Orig(l))
        /\ l \in located /\ Floor!Orig(l) \in R => at[l] = Floor!Orig(l)
  OBVIOUS
<1>8. i.empty \union empty = {} => \A l \in located \intersect Floor!AuthorLous :
        floor[Floor!Orig(l)] = "named" /\ Floor!Page(Floor!Orig(l)) \in P
          => at[l] = Floor!Orig(l)
  BY <1>5, <1>7
<1> HIDE DEF posts, at
<1>9. /\ j.scanned = i.scanned \union P /\ j.empty = i.empty \union empty
      /\ j.posts = posts /\ j.at = at
      /\ SameButRead(j, i)
  BY <1>2 DEF Builds, SameButRead
<1>10. j \in Builds
  BY <1>2, <1>3, <1>4 DEF Builds
<1>11. i.empty \subseteq j.empty
  BY <1>9
<1> QED  BY <1>6, <1>7, <1>8, <1>9, <1>10, <1>11 DEF Read

(* Reading leaves a build true: what is missing is not shown under a name.   *)
LEMMA ReadIsTrue ==
  ASSUME MapTyped, ThreadTrue, NEW i \in Builds, BuildTrue(i),
         NEW P, NEW located, NEW j, Read(j, i, P, located)
  PROVE  BuildTrue(j)
<1>1. j \in Builds /\ SameButRead(j, i)
  BY DEF Read
<1>2. j.missing = Floor!Missing
  BY <1>1 DEF BuildTrue, SameButRead
<1>3. TruePlaces(j.at)
  BY DEF Read, BuildTrue, TruePlaces
<1>4. /\ TruePlaces(j.recovered) /\ TruePlaces(j.exact)
      /\ TrueOffers(j.old) /\ TrueOffers(j.cands)
      /\ j.left \subseteq Floor!Missing
      /\ \A l \in Floor!AuthorLous : j.cands[l] # {} => l \in Floor!Missing
      /\ \A o \in j.seen : \E r \in refs : o = Floor!Orig(r)
  BY <1>1 DEF BuildTrue, SameButRead
<1>5. ASSUME NEW l \in Floor!Missing PROVE j.posts[Floor!Orig(l)] \in {None, "anon"}
  <2>1. l \in Floor!AuthorLous
    BY DEF Floor!Missing
  <2>2. Floor!Orig(l) \in Floor!Floors
    BY <2>1, OrigIs
  <2>3. floor[Floor!Orig(l)] \in {"anon", "hidden"} /\ i.posts[Floor!Orig(l)] \in {None, "anon"}
    BY DEF ThreadTrue, BuildTrue
  <2> QED  BY <2>2, <2>3 DEF Read
<1>6. ASSUME NEW l \in Floor!AuthorLous, map[l] # None
      PROVE  /\ j.recovered[l] = map[l].recovered
             /\ map[l].at # None => j.at[l] = map[l].at
  <2>1. /\ i.recovered[l] = map[l].recovered
        /\ map[l].at # None => i.at[l] = map[l].at
        /\ i.at[l] \in {None, Floor!Orig(l)}
    BY <1>6 DEF BuildTrue, TruePlaces
  <2>2. j.at[l] = i.at[l] \/ j.at[l] = Floor!Orig(l)
    BY DEF Read
  <2> QED  BY <1>1, <2>1, <2>2 DEF SameButRead
<1> QED  BY <1>2, <1>3, <1>4, <1>5, <1>6 DEF BuildTrue

-----------------------------------------------------------------------------
(* The thread and the author's view.                                         *)

LEMMA FloorsFinite ==
  /\ IsFiniteSet(Floor!Floors) /\ IsFiniteSet(Floor!AuthorLous)
  /\ Floor!Posted \subseteq Floor!Floors
<1>1. IsFiniteSet(0..LastLou) /\ IsFiniteSet(0..(Cardinality(Mine) - 1))
  BY MapBounds, FS_Interval
<1>2. IsFiniteSet(Floor!Floors) /\ IsFiniteSet(Floor!AuthorLous)
  BY <1>1, MapBounds DEF Floor!Floors
<1> QED  BY <1>2 DEF Floor!Posted

(* Floors are posted one after the other.                                    *)
LEMMA PostedFirst ==
  ASSUME MapTyped, ThreadTrue, NEW l \in Floor!AuthorLous
  PROVE  /\ floor[Floor!Orig(l)] # "none" <=> Floor!Orig(l) \in Floor!Posted
         /\ l < Cardinality(Mine \intersect Floor!Posted) => Floor!Orig(l) \in Floor!Posted
         /\ \A k \in Floor!AuthorLous :
              k < l /\ Floor!Orig(l) \in Floor!Posted => Floor!Orig(k) \in Floor!Posted
<1> DEFINE n == Cardinality(Floor!Posted)
           x == Floor!Orig(l)
<1>1. x \in Nat /\ x \in Floor!Floors /\ x \in Mine /\ l \in Nat
  BY OrigIs
<1>2. floor[x] # "none" <=> x \in Floor!Posted
  BY <1>1 DEF Floor!Posted
<1>3. Floor!Posted \subseteq Floor!Floors /\ IsFiniteSet(Floor!Floors)
  BY FloorsFinite
<1>4. IsFiniteSet(Floor!Posted) /\ n \in Nat /\ Floor!Posted = 0..(n - 1)
  BY <1>3, FS_Subset, FS_CardinalityType DEF ThreadTrue
<1> HIDE DEF n
<1>5. ASSUME l < Cardinality(Mine \intersect Floor!Posted), x \notin Floor!Posted
      PROVE  FALSE
  <2>1. Mine \intersect Floor!Posted \subseteq Floor!Before(Mine, x)
    <3>1. x >= n
      BY <1>1, <1>4, <1>5
    <3>2. \A m \in 0..(n - 1) : m < x
      BY <1>1, <1>4, <3>1
    <3> QED  BY <1>4, <3>2 DEF Floor!Before
  <2>2. Cardinality(Floor!Before(Mine, x)) = l
    BY <1>1, OrigIs, SameCount DEF Floor!Before, Floor!AuthorLou
  <2>3. IsFiniteSet(Floor!Before(Mine, x))
    BY MapBounds, FS_Subset DEF Floor!Before
  <2>4. Cardinality(Mine \intersect Floor!Posted) <= l
    BY <2>1, <2>2, <2>3, FS_Subset
  <2>5. Cardinality(Mine \intersect Floor!Posted) \in Nat
    BY <2>1, <2>3, FS_Subset, FS_CardinalityType
  <2> QED  BY <1>1, <1>5, <2>4, <2>5
<1>6. ASSUME NEW k \in Floor!AuthorLous, k < l, x \in Floor!Posted
      PROVE  Floor!Orig(k) \in Floor!Posted
  <2>1. Floor!Orig(k) \in Nat /\ Floor!Orig(k) < x
    BY <1>6, OrigIs, OrigRises
  <2> QED  BY <1>1, <1>4, <1>6, <2>1
<1> QED  BY <1>2, <1>5, <1>6

LEMMA PostedCounted ==
  ASSUME MapTyped, ThreadTrue
  PROVE  /\ IsFiniteSet(Floor!Posted) /\ IsFiniteSet(Mine \intersect Floor!Posted)
         /\ Cardinality(Floor!Posted) \in Nat /\ Cardinality(Mine \intersect Floor!Posted) \in Nat
<1>1. Floor!Posted \subseteq Floor!Floors /\ IsFiniteSet(Floor!Floors)
  BY FloorsFinite
<1>2. IsFiniteSet(Floor!Posted) /\ IsFiniteSet(Mine \intersect Floor!Posted)
  BY <1>1, MapBounds, FS_Subset
<1> QED  BY <1>2, FS_CardinalityType

(* What a step of the thread leaves true of the map and of a build.          *)
LEMMA ArchiveRests ==
  ASSUME MapTyped, MapTrue, UNCHANGED <<refs, total, map, built, mapStep, faults>>,
         floor' \in [Floor!Floors -> {"none", "named", "anon", "hidden"}],
         mapStep # "idle" => mapJob' \in Builds
  PROVE  MapTyped' /\ MapTrue' /\ Floor!Missing' = Floor!Missing
<1>1. Floor!Missing' = Floor!Missing
  BY DEF Floor!Missing
<1>2. MapTyped'
  BY DEF MapTyped
<1>3. MapTrue'
  BY <1>1 DEF MapTrue, EntryTrue
<1> QED  BY <1>1, <1>2, <1>3

LEMMA JobRests ==
  ASSUME UNCHANGED <<refs, map, mapJob, mapStep>>, Floor!Missing' = Floor!Missing,
         BuildTrue(mapJob), SearchTrue(mapJob)
  PROVE  BuildTrue(mapJob)' /\ SearchTrue(mapJob)'
<1>1. BuildTrue(mapJob)'
  BY DEF BuildTrue, TruePlaces, TrueOffers
<1>2. SearchTrue(mapJob)'
  BY DEF SearchTrue, Ahead, AllFound
<1> QED  BY <1>1, <1>2

LEMMA PostOK ==
  ASSUME FloorInv, NEW how \in {"named", "anon"}, Floor!Post(how)
  PROVE  FloorInv'
<1> DEFINE n == Cardinality(Floor!Posted)
<1>1. MapTyped /\ ThreadTrue /\ MapTrue
  BY DEF FloorInv
<1>2. /\ n <= LastLou
      /\ floor' = [floor EXCEPT ![n] = how]
      /\ UNCHANGED <<changes, refs, total, map, built, mapStep, mapJob, faults>>
  BY SameCount DEF Floor!Post, Floor!archive, Floor!stored
<1>3. n \in Nat /\ IsFiniteSet(Floor!Posted) /\ Floor!Posted = 0..(n - 1)
  BY <1>1, PostedCounted DEF ThreadTrue
<1> HIDE DEF n
<1>4. n \in Floor!Floors /\ n \notin Floor!Posted
  BY <1>2, <1>3, MapBounds DEF Floor!Floors
<1>5. floor[n] = "none"
  BY <1>4 DEF Floor!Posted
<1>6. \A o \in Floor!Floors : floor'[o] = IF o = n THEN how ELSE floor[o]
  BY <1>1, <1>2 DEF MapTyped
<1>7. floor' \in [Floor!Floors -> {"none", "named", "anon", "hidden"}]
  BY <1>1, <1>2 DEF MapTyped
<1>8. MapTyped' /\ MapTrue' /\ Floor!Missing' = Floor!Missing
  BY <1>1, <1>2, <1>7, ArchiveRests DEF MapTyped
<1>9. Floor!Posted' = Floor!Posted \union {n}
  BY <1>4, <1>6 DEF Floor!Posted
<1>10. Cardinality(Floor!Posted') = n + 1
  BY <1>3, <1>4, <1>9, FS_AddElement DEF n
<1>11. Floor!Posted' = 0..(Cardinality(Floor!Posted') - 1)
  <2>1. 0..n = 0..(n - 1) \union {n}
    BY <1>3
  <2> QED  BY <1>3, <1>9, <1>10, <2>1
<1>12. total <= Cardinality(Mine \intersect Floor!Posted')
  <2>1. /\ IsFiniteSet(Mine \intersect Floor!Posted')
        /\ Mine \intersect Floor!Posted \subseteq Mine \intersect Floor!Posted'
    BY <1>9, MapBounds, FS_Subset
  <2>2. Cardinality(Mine \intersect Floor!Posted) <= Cardinality(Mine \intersect Floor!Posted')
    BY <2>1, FS_Subset
  <2>3. Cardinality(Mine \intersect Floor!Posted) \in Nat /\ Cardinality(Mine \intersect Floor!Posted') \in Nat
    BY <2>1, FS_Subset, FS_CardinalityType
  <2> QED  BY <1>1, <2>2, <2>3 DEF ThreadTrue, MapTyped
<1>13. \A l \in Floor!AuthorLous : floor[Floor!Orig(l)] # "none" =>
         floor'[Floor!Orig(l)] = floor[Floor!Orig(l)]
  BY <1>5, <1>6, OrigIs
<1>14. /\ \A l \in refs : floor'[Floor!Orig(l)] \in {"named", "hidden"}
       /\ \A l \in Floor!Missing : floor'[Floor!Orig(l)] \in {"anon", "hidden"}
  <2>1. refs \subseteq Floor!AuthorLous /\ Floor!Missing \subseteq Floor!AuthorLous
    BY <1>1 DEF MapTyped, Floor!Missing
  <2> QED  BY <1>1, <1>13, <2>1 DEF ThreadTrue
<1>15. ThreadTrue'
  BY <1>2, <1>8, <1>11, <1>12, <1>14 DEF ThreadTrue
<1>16. ASSUME mapStep' # "idle"
       PROVE  (BuildTrue(mapJob) /\ SteadyTrue(mapJob) /\ SearchTrue(mapJob))'
  <2>1. BuildTrue(mapJob) /\ SteadyTrue(mapJob) /\ SearchTrue(mapJob)
    BY <1>2, <1>16 DEF FloorInv
  <2>2. SteadyTrue(mapJob)'
    BY <1>1, <1>2, <1>13, <2>1 DEF SteadyTrue, MapTyped
  <2> QED  BY <1>2, <1>8, <2>1, <2>2, JobRests
<1> QED  BY <1>8, <1>15, <1>16 DEF FloorInv

LEMMA HideOK ==
  ASSUME FloorInv, NEW o \in Floor!Floors, Floor!Hide(o)
  PROVE  FloorInv'
<1>1. MapTyped /\ ThreadTrue /\ MapTrue
  BY DEF FloorInv
<1>2. /\ o # 0 /\ floor[o] \in {"named", "anon"}
      /\ floor' = [floor EXCEPT ![o] = "hidden"]
      /\ mapJob' = IF mapStep = "idle" \/ o \notin Mine THEN mapJob
                   ELSE [mapJob EXCEPT !.steady = mapJob.steady \ {Floor!AuthorLou(o)}]
      /\ UNCHANGED <<refs, total, map, built, mapStep, faults>>
  BY DEF Floor!Hide, Floor!archive, Floor!stored
<1>3. \A q \in Floor!Floors : floor'[q] = IF q = o THEN "hidden" ELSE floor[q]
  BY <1>1, <1>2 DEF MapTyped
<1>4. floor' \in [Floor!Floors -> {"none", "named", "anon", "hidden"}]
  BY <1>1, <1>2 DEF MapTyped
<1>5. ASSUME mapStep # "idle"
      PROVE  /\ mapJob \in Builds /\ mapJob' \in Builds
             /\ SameButRead([mapJob' EXCEPT !.steady = mapJob.steady], mapJob)
             /\ mapJob'.at = mapJob.at /\ mapJob'.posts = mapJob.posts
             /\ mapJob'.scanned = mapJob.scanned /\ mapJob'.empty = mapJob.empty
             /\ mapJob'.steady \subseteq mapJob.steady
             /\ o \in Mine => Floor!AuthorLou(o) \notin mapJob'.steady
  <2>1. mapJob \in Builds
    BY <1>1, <1>5 DEF MapTyped
  <2>2. CASE o \notin Mine
    BY <1>2, <2>1, <2>2 DEF Builds, SameButRead
  <2>3. CASE o \in Mine
    <3>1. mapJob' = [mapJob EXCEPT !.steady = mapJob.steady \ {Floor!AuthorLou(o)}]
      BY <1>2, <1>5, <2>3
    <3>2. mapJob' \in Builds
      BY <2>1, <3>1 DEF Builds
    <3> QED  BY <2>1, <3>1, <3>2 DEF Builds, SameButRead
  <2> QED  BY <2>2, <2>3
<1>6. MapTyped' /\ MapTrue' /\ Floor!Missing' = Floor!Missing
  BY <1>1, <1>2, <1>4, <1>5, ArchiveRests
<1>7. Floor!Posted' = Floor!Posted
  <2>1. \A q \in Floor!Floors : floor'[q] # "none" <=> floor[q] # "none"
    BY <1>2, <1>3
  <2> QED  BY <2>1 DEF Floor!Posted
<1>8. /\ \A l \in refs : floor'[Floor!Orig(l)] \in {"named", "hidden"}
      /\ \A l \in Floor!Missing : floor'[Floor!Orig(l)] \in {"anon", "hidden"}
  <2>1. refs \subseteq Floor!AuthorLous /\ Floor!Missing \subseteq Floor!AuthorLous
    BY <1>1 DEF MapTyped, Floor!Missing
  <2> QED  BY <1>1, <1>3, <2>1, OrigIs DEF ThreadTrue
<1>9. ThreadTrue'
  BY <1>1, <1>2, <1>6, <1>7, <1>8 DEF ThreadTrue
<1>10. ASSUME mapStep' # "idle"
       PROVE  (BuildTrue(mapJob) /\ SteadyTrue(mapJob) /\ SearchTrue(mapJob))'
  <2>1. BuildTrue(mapJob) /\ SteadyTrue(mapJob) /\ SearchTrue(mapJob) /\ mapStep # "idle"
    BY <1>2, <1>10 DEF FloorInv
  <2>2. /\ mapJob'.missing = mapJob.missing /\ mapJob'.recovered = mapJob.recovered
        /\ mapJob'.seen = mapJob.seen /\ mapJob'.old = mapJob.old
        /\ mapJob'.cands = mapJob.cands /\ mapJob'.exact = mapJob.exact
        /\ mapJob'.range = mapJob.range /\ mapJob'.left = mapJob.left
    BY <1>5, <2>1 DEF SameButRead, Builds
  <2>3. BuildTrue(mapJob)'
    BY <1>2, <1>5, <1>6, <2>1, <2>2 DEF BuildTrue, TruePlaces, TrueOffers
  <2>4. SteadyTrue(mapJob)'
    <3> SUFFICES ASSUME NEW l \in mapJob'.steady
                 PROVE  l \in refs /\ floor'[Floor!Orig(l)] = "named"
      BY <1>2 DEF SteadyTrue
    <3>1. l \in mapJob.steady /\ l \in refs /\ floor[Floor!Orig(l)] = "named"
      BY <1>5, <2>1 DEF SteadyTrue
    <3>2. l \in Floor!AuthorLous
      BY <1>1, <3>1 DEF MapTyped
    <3>3. Floor!Orig(l) # o
      BY <1>5, <2>1, <3>2, OrigIs
    <3> QED  BY <1>3, <3>1, <3>2, <3>3, OrigIs
  <2>5. SearchTrue(mapJob)'
    BY <1>2, <1>5, <2>1, <2>2 DEF SearchTrue, Ahead, AllFound
  <2> QED  BY <2>3, <2>4, <2>5
<1> QED  BY <1>6, <1>9, <1>10 DEF FloorInv

LEMMA ShowAgainOK ==
  ASSUME FloorInv, NEW o \in Floor!Floors, Floor!ShowAgain(o)
  PROVE  FloorInv'
<1>1. MapTyped /\ ThreadTrue /\ MapTrue
  BY DEF FloorInv
<1>2. /\ floor[o] = "hidden" /\ (o \in Mine => Floor!AuthorLou(o) \in refs)
      /\ floor' = [floor EXCEPT ![o] = "named"]
      /\ UNCHANGED <<refs, total, map, built, mapStep, mapJob, faults>>
  BY DEF Floor!ShowAgain, Floor!archive, Floor!stored
<1>3. \A q \in Floor!Floors : floor'[q] = IF q = o THEN "named" ELSE floor[q]
  BY <1>1, <1>2 DEF MapTyped
<1>4. floor' \in [Floor!Floors -> {"none", "named", "anon", "hidden"}]
  BY <1>1, <1>2 DEF MapTyped
<1>5. MapTyped' /\ MapTrue' /\ Floor!Missing' = Floor!Missing
  BY <1>1, <1>2, <1>4, ArchiveRests DEF MapTyped
<1>6. Floor!Posted' = Floor!Posted
  <2>1. \A q \in Floor!Floors : floor'[q] # "none" <=> floor[q] # "none"
    BY <1>2, <1>3
  <2> QED  BY <2>1 DEF Floor!Posted
<1>7. /\ \A l \in refs : floor'[Floor!Orig(l)] \in {"named", "hidden"}
      /\ \A l \in Floor!Missing : floor'[Floor!Orig(l)] \in {"anon", "hidden"}
  <2>1. refs \subseteq Floor!AuthorLous /\ Floor!Missing \subseteq Floor!AuthorLous \ refs
    BY <1>1 DEF MapTyped, Floor!Missing
  <2>2. \A l \in Floor!Missing : Floor!Orig(l) # o
    BY <1>2, <2>1, OrigIs
  <2> QED  BY <1>1, <1>3, <2>1, <2>2, OrigIs DEF ThreadTrue
<1>8. ThreadTrue'
  BY <1>1, <1>2, <1>5, <1>6, <1>7 DEF ThreadTrue
<1>9. ASSUME mapStep' # "idle"
      PROVE  (BuildTrue(mapJob) /\ SteadyTrue(mapJob) /\ SearchTrue(mapJob))'
  <2>1. BuildTrue(mapJob) /\ SteadyTrue(mapJob) /\ SearchTrue(mapJob)
    BY <1>2, <1>9 DEF FloorInv
  <2>2. SteadyTrue(mapJob)'
    BY <1>1, <1>2, <1>3, <2>1, OrigIs DEF SteadyTrue, MapTyped
  <2> QED  BY <1>2, <1>5, <2>1, <2>2, JobRests
<1> QED  BY <1>5, <1>8, <1>9 DEF FloorInv

(* What is missing cannot be fetched, and stays missing.                     *)
LEMMA FetchOK ==
  ASSUME FloorInv, Floor!Fetch
  PROVE  FloorInv'
<1>1. MapTyped /\ ThreadTrue /\ MapTrue
  BY DEF FloorInv
<1>2. /\ mapStep = "idle"
      /\ refs' = refs \union {l \in Floor!AuthorLous : floor[Floor!Orig(l)] = "named"}
      /\ total' = Cardinality(Mine \intersect Floor!Posted)
      /\ UNCHANGED <<floor, map, built, mapStep, mapJob, faults>>
  BY SameCount DEF Floor!Fetch, Floor!thread, Floor!stored
<1>3. refs' \subseteq Floor!AuthorLous /\ 0 \in refs' /\ refs \subseteq refs'
  BY <1>1, <1>2 DEF MapTyped
<1>4. total' \in Nat /\ total <= total' /\ total \in Nat
  BY <1>1, <1>2, PostedCounted DEF ThreadTrue, MapTyped
<1>5. Floor!Posted' = Floor!Posted
  BY <1>2 DEF Floor!Posted
<1>6. \A l \in refs' : floor[Floor!Orig(l)] \in {"named", "hidden"}
  BY <1>1, <1>2 DEF ThreadTrue
<1>7. Floor!Missing \subseteq Floor!Missing'
  <2> SUFFICES ASSUME NEW l \in Floor!Missing PROVE l \in Floor!Missing'
    OBVIOUS
  <2>1. l \in Floor!AuthorLous /\ l # 0 /\ l \notin refs /\ (l < total \/ \E r \in refs : l < r)
    BY DEF Floor!Missing
  <2>2. floor[Floor!Orig(l)] \in {"anon", "hidden"}
    BY <1>1 DEF ThreadTrue
  <2>3. l \notin refs'
    BY <1>2, <2>1, <2>2
  <2>4. l < total' \/ \E r \in refs' : l < r
    <3>1. CASE l < total
      BY <1>4, <2>1, <3>1, OrigIs
    <3>2. CASE \E r \in refs : l < r
      BY <1>3, <3>2
    <3> QED  BY <2>1, <3>1, <3>2
  <2> QED  BY <2>1, <2>3, <2>4 DEF Floor!Missing
<1>8. ASSUME NEW l \in Floor!Missing' PROVE floor[Floor!Orig(l)] \in {"anon", "hidden"}
  <2>1. /\ l \in Floor!AuthorLous /\ l \notin refs'
        /\ l < Cardinality(Mine \intersect Floor!Posted) \/ \E r \in refs' : l < r
    BY <1>2 DEF Floor!Missing
  <2>2. floor[Floor!Orig(l)] # "none"
    <3>1. CASE l < Cardinality(Mine \intersect Floor!Posted)
      BY <1>1, <2>1, <3>1, PostedFirst
    <3>2. ASSUME NEW r \in refs', l < r PROVE floor[Floor!Orig(l)] # "none"
      <4>1. r \in Floor!AuthorLous /\ floor[Floor!Orig(r)] # "none"
        BY <1>3, <1>6
      <4> QED  BY <1>1, <2>1, <3>2, <4>1, PostedFirst
    <3> QED  BY <2>1, <3>1, <3>2
  <2>3. floor[Floor!Orig(l)] # "named"
    BY <1>2, <2>1
  <2> QED  BY <1>1, <2>1, <2>2, <2>3, OrigIs DEF MapTyped
<1>9. MapTyped'
  BY <1>1, <1>2, <1>3, <1>4 DEF MapTyped
<1>10. ThreadTrue'
  BY <1>1, <1>2, <1>4, <1>5, <1>6, <1>8 DEF ThreadTrue
<1>11. MapTrue'
  BY <1>1, <1>2, <1>3, <1>7 DEF MapTrue, EntryTrue
<1> QED  BY <1>2, <1>9, <1>10, <1>11 DEF FloorInv

-----------------------------------------------------------------------------
(* The pages between located neighbours.                                     *)

LEMMA GapBounded ==
  ASSUME NEW S \in SUBSET Floor!AuthorLous, NEW G \in Floor!Schedule!Gaps(S), NEW l \in G
  PROVE  /\ G \in SUBSET S
         /\ Floor!Min(G) \in G /\ Floor!Min(G) <= l
         /\ Floor!Max(G) \in G /\ l <= Floor!Max(G)
<1>1. G \in SUBSET S
  BY DEF Floor!Schedule!Gaps
<1>2. Cardinality(Mine) - 1 \in Nat
  BY MapBounds
<1>3. G \in SUBSET (0..(Cardinality(Mine) - 1)) /\ G \subseteq Nat /\ G # {}
  BY <1>1, <1>2, MapBounds
<1> QED  BY <1>1, <1>2, <1>3, LeastFloor, GreatestFloor

(* Every element of a set of floors is in a gap of it.                       *)
LEMMA InSomeGap ==
  ASSUME NEW S \in SUBSET Floor!AuthorLous, NEW l \in S
  PROVE  \E G \in Floor!Schedule!Gaps(S) : l \in G
<1> DEFINE n == Cardinality(Mine) - 1
           A == {k \in S : k <= l /\ k..l \subseteq S}
           B == {k \in S : l <= k /\ l..k \subseteq S}
<1>1. n \in Nat /\ S \subseteq 0..n /\ l \in Nat
  BY MapBounds
<1> HIDE DEF n
<1>2. S \subseteq Nat
  BY <1>1
<1>3. l \in A /\ l \in B
  <2>1. l..l = {l}
    BY <1>1
  <2> QED  BY <1>1, <2>1
<1>4. PICK a \in A : \A k \in A : a <= k
  <2> HIDE DEF A
  <2>1. A \subseteq Nat
    BY <1>2 DEF A
  <2> QED  BY <1>3, <2>1, LeastFloor
<1>5. PICK b \in B : \A k \in B : k <= b
  <2> HIDE DEF B
  <2>1. B \in SUBSET (0..n)
    BY <1>1 DEF B
  <2> QED  BY <1>1, <1>3, <2>1, GreatestFloor
<1>6. /\ a \in S /\ b \in S /\ a \in Nat /\ b \in Nat /\ a <= l /\ l <= b
      /\ a..l \subseteq S /\ l..b \subseteq S
  BY <1>2
<1>7. a - 1 \notin S
  <2> SUFFICES ASSUME a - 1 \in S PROVE FALSE
    OBVIOUS
  <2>1. (a - 1)..l = {a - 1} \union a..l
    BY <1>1, <1>6
  <2>2. a - 1 <= l /\ (a - 1)..l \subseteq S
    BY <1>1, <1>6, <2>1
  <2>3. a - 1 \in A
    BY <2>2
  <2> HIDE DEF A
  <2>4. a <= a - 1
    BY <1>4, <2>3
  <2> QED  BY <1>6, <2>4
<1>8. b + 1 \notin S
  <2> SUFFICES ASSUME b + 1 \in S PROVE FALSE
    OBVIOUS
  <2>1. l..(b + 1) = {b + 1} \union l..b
    BY <1>1, <1>6
  <2>2. l <= b + 1 /\ l..(b + 1) \subseteq S
    BY <1>1, <1>6, <2>1
  <2>3. b + 1 \in B
    BY <2>2
  <2> HIDE DEF B
  <2>4. b + 1 <= b
    BY <1>5, <2>3
  <2> QED  BY <1>6, <2>4
<1>9. a..b = a..l \union l..b
  BY <1>1, <1>6
<1>10. a..b \in SUBSET S /\ l \in a..b /\ a <= b
  BY <1>1, <1>6, <1>9
<1>11. a..b \in Floor!Schedule!Gaps(S)
  BY <1>6, <1>7, <1>8, <1>10 DEF Floor!Schedule!Gaps
<1> QED  BY <1>10, <1>11

(* The page of a floor that is to be located is never ruled out by those     *)
(* already located.                                                          *)
LEMMA PageIsAhead ==
  ASSUME MapTyped, ThreadTrue, NEW j, TruePlaces(j.at), NEW l \in Floor!Pending(j)
  PROVE  Floor!Page(Floor!Orig(l)) \in Floor!PagesForPending(j)
<1> DEFINE S == Floor!Pending(j)
           M == Floor!MappedIn(j)
           x == Floor!Orig(l)
           n == Cardinality(Mine) - 1
<1>1. S \in SUBSET Floor!AuthorLous /\ l \in S /\ l \in refs /\ l \in Floor!AuthorLous
  BY DEF Floor!Pending, MapTyped
<1>2. n \in Nat /\ Floor!AuthorLous = 0..n
  BY MapBounds
<1> HIDE DEF n
<1>3. PICK G \in Floor!Schedule!Gaps(S) : l \in G
  BY <1>1, InSomeGap
<1>4. /\ G \in SUBSET S
      /\ Floor!Min(G) \in G /\ Floor!Min(G) <= l
      /\ Floor!Max(G) \in G /\ l <= Floor!Max(G)
  BY <1>1, <1>3, GapBounded
<1>5. x \in Nat /\ Floor!Page(x) \in Nat \ {0}
  BY <1>1, OrigIs, PageIs
<1>6. \A k \in M : k \in Floor!AuthorLous /\ j.at[k] = Floor!Orig(k)
  BY DEF Floor!MappedIn, TruePlaces
<1>7. /\ Floor!Max(Floor!Posted) \in Nat /\ x <= Floor!Max(Floor!Posted)
      /\ Floor!Page(x) <= Floor!PageCount /\ Floor!PageCount \in Nat
  <2>1. x \in Floor!Posted
    <3>1. floor[x] \in {"named", "hidden"}
      BY <1>1 DEF ThreadTrue
    <3> QED  BY <1>1, <3>1, OrigIs DEF Floor!Posted
  <2>2. Floor!Posted \in SUBSET (0..LastLou) /\ LastLou \in Nat
    BY MapBounds, FloorsFinite DEF Floor!Floors
  <2>3. Floor!Max(Floor!Posted) \in Floor!Posted /\ x <= Floor!Max(Floor!Posted)
    BY <2>1, <2>2, GreatestFloor
  <2>4. Floor!Max(Floor!Posted) \in Nat
    BY <2>3, MapBounds, FloorsFinite
  <2> QED  BY <1>5, <2>3, <2>4, PageIs, PageRises DEF Floor!PageCount
<1> DEFINE first == Floor!Before(M, Floor!Min(G))
           last == Floor!After(M, Floor!Max(G))
<1>8. Floor!Min(G) \in Nat /\ Floor!Max(G) \in Nat /\ l \in Nat
  <2>1. G \subseteq Floor!AuthorLous
    BY <1>1, <1>4
  <2> QED  BY <1>1, <1>4, <2>1, OrigIs
<1>9. ASSUME first # {}
      PROVE  /\ Floor!Page(j.at[Floor!Max(first)]) \in Nat
             /\ Floor!Page(j.at[Floor!Max(first)]) <= Floor!Page(x)
  <2>1. first \in SUBSET (0..n)
    BY <1>2, <1>6 DEF Floor!Before
  <2> DEFINE k == Floor!Max(first)
  <2>2. k \in first
    BY <1>2, <1>9, <2>1, GreatestFloor
  <2>3. k \in Floor!AuthorLous /\ k \in Nat /\ k < Floor!Min(G) /\ j.at[k] = Floor!Orig(k)
    BY <1>2, <1>6, <2>2 DEF Floor!Before
  <2> HIDE DEF k, first
  <2>4. k < l
    BY <1>4, <1>8, <2>3
  <2>5. Floor!Orig(k) <= x /\ Floor!Orig(k) \in Nat
    BY <1>1, <1>5, <2>3, <2>4, OrigIs, OrigRises
  <2>6. Floor!Page(Floor!Orig(k)) \in Nat /\ Floor!Page(Floor!Orig(k)) <= Floor!Page(x)
    BY <1>5, <2>5, PageIs, PageRises
  <2> QED  BY <2>3, <2>6 DEF k
<1>10. ASSUME last # {}
       PROVE  /\ Floor!Page(j.at[Floor!Min(last)]) \in Nat
              /\ Floor!Page(x) <= Floor!Page(j.at[Floor!Min(last)])
  <2>1. last \subseteq Nat
    BY <1>2, <1>6 DEF Floor!After
  <2> DEFINE k == Floor!Min(last)
  <2>2. k \in last
    BY <1>10, <2>1, LeastFloor
  <2>3. k \in Floor!AuthorLous /\ k \in Nat /\ k > Floor!Max(G) /\ j.at[k] = Floor!Orig(k)
    BY <1>2, <1>6, <2>2 DEF Floor!After
  <2> HIDE DEF k, last
  <2>4. l < k
    BY <1>4, <1>8, <2>3
  <2>5. x <= Floor!Orig(k) /\ Floor!Orig(k) \in Nat
    BY <1>1, <1>5, <2>3, <2>4, OrigIs, OrigRises
  <2>6. Floor!Page(Floor!Orig(k)) \in Nat /\ Floor!Page(x) <= Floor!Page(Floor!Orig(k))
    BY <1>5, <2>5, PageIs, PageRises
  <2> QED  BY <2>3, <2>6 DEF k
<1>11. Floor!Page(x) \in Floor!PagesOfChunk(j, G)
  <2> DEFINE lo == IF first = {} THEN 1 ELSE Floor!Page(j.at[Floor!Max(first)])
             hi == IF last = {} THEN Floor!PageCount ELSE Floor!Page(j.at[Floor!Min(last)])
  <2>1. lo \in Nat /\ lo <= Floor!Page(x)
    BY <1>5, <1>9
  <2>2. hi \in Nat /\ Floor!Page(x) <= hi
    BY <1>7, <1>10
  <2>3. Floor!PagesOfChunk(j, G) = lo..hi
    BY DEF Floor!PagesOfChunk
  <2> HIDE DEF lo, hi
  <2> QED  BY <1>5, <2>1, <2>2, <2>3
<1>12. Floor!Page(x) \in 1..Floor!PageCount
  BY <1>5, <1>7
<1>13. Floor!Page(x) \in UNION {Floor!PagesOfChunk(j, H) : H \in Floor!Schedule!Gaps(Floor!Pending(j))}
  BY <1>3, <1>11
<1> HIDE DEF x
<1>14. Floor!Page(x) \in Floor!PagesForPending(j)
  BY <1>12, <1>13 DEF Floor!PagesForPending
<1> QED  BY <1>14 DEF x

-----------------------------------------------------------------------------
(* The steps of a build.                                                     *)

(* A build that begins takes over every entry that is stored.                *)
LEMMA EntriesReused ==
  ASSUME MapTyped, MapTrue, NEW l \in Floor!AuthorLous
  PROVE  /\ Floor!Reused[l] \in Floor!Entries
         /\ map[l] # None => Floor!Reused[l] = map[l]
         /\ Floor!Reused[l].at \in {None, Floor!Orig(l)}
         /\ Floor!Reused[l].recovered \in {None, Floor!Orig(l)}
         /\ Floor!Reused[l].cands = {} \/ Floor!Orig(l) \in Floor!Reused[l].cands
<1>1. /\ Floor!NoEntry \in Floor!Entries
      /\ Floor!NoEntry.at = None /\ Floor!NoEntry.recovered = None /\ Floor!NoEntry.cands = {}
  BY DEF Floor!NoEntry, Floor!Entry, Floor!Entries, Floor!MaybeFloors
<1>2. Floor!Reused[l] = IF Floor!IsReused(l) THEN map[l] ELSE Floor!NoEntry
  BY DEF Floor!Reused
<1>3. CASE map[l] = None
  BY <1>1, <1>2, <1>3 DEF Floor!IsReused
<1>4. CASE map[l] # None
  <2>1. map[l] \in Floor!Entries /\ EntryTrue(l)
    BY <1>4 DEF MapTyped, MapTrue
  <2>2. map[l].known \in BOOLEAN
    BY <2>1 DEF Floor!Entries
  <2>3. Floor!IsReused(l)
    BY <1>4, <2>1, <2>2 DEF Floor!IsReused, EntryTrue, Floor!Missing
  <2> QED  BY <1>2, <2>1, <2>3 DEF EntryTrue
<1> QED  BY <1>3, <1>4

LEMMA MapRests ==
  ASSUME MapTyped, ThreadTrue, MapTrue,
         UNCHANGED <<floor, refs, total, map>>, faults' \in Nat,
         mapStep' \in {"idle", "pending", "range", "infer"},
         mapStep' # "idle" => mapJob' \in Builds
  PROVE  MapTyped' /\ ThreadTrue' /\ MapTrue' /\ Floor!Missing' = Floor!Missing
<1>1. Floor!Missing' = Floor!Missing /\ Floor!Posted' = Floor!Posted
  BY DEF Floor!Missing, Floor!Posted
<1>2. MapTyped'
  BY DEF MapTyped
<1>3. ThreadTrue'
  BY <1>1 DEF ThreadTrue
<1>4. MapTrue'
  BY <1>1 DEF MapTrue, EntryTrue
<1> QED  BY <1>1, <1>2, <1>3, <1>4

LEMMA BeginOK ==
  ASSUME FloorInv, Floor!Begin
  PROVE  FloorInv'
<1>1. MapTyped /\ ThreadTrue /\ MapTrue
  BY DEF FloorInv
<1>2. PICK due \in SUBSET Floor!Schedule!Gaps(Floor!Missing) :
        LET old == Floor!Reused
            j == [missing |-> Floor!Missing, retry |-> UNION due,
                  at |-> [l \in Floor!AuthorLous |-> IF l = 0 /\ 0 \in refs THEN 0 ELSE old[l].at],
                  recovered |-> [l \in Floor!AuthorLous |-> old[l].recovered],
                  seen |-> ({old[l].at : l \in refs} \ {None}) \union {0},
                  old |-> [l \in Floor!AuthorLous |-> old[l].cands],
                  cands |-> [l \in Floor!AuthorLous |-> {}], exact |-> [l \in Floor!AuthorLous |-> None],
                  posts |-> [o \in Floor!Floors |-> None], scanned |-> {}, range |-> {},
                  left |-> {}, empty |-> {},
                  steady |-> {l \in refs : floor[Floor!Orig(l)] = "named"}]
        IN  mapJob' = [j EXCEPT !.range = Floor!PagesForPending(j)]
  BY DEF Floor!Begin
<1> DEFINE old == Floor!Reused
           at == [l \in Floor!AuthorLous |-> IF l = 0 /\ 0 \in refs THEN 0 ELSE old[l].at]
           recovered == [l \in Floor!AuthorLous |-> old[l].recovered]
           seen == ({old[l].at : l \in refs} \ {None}) \union {0}
           cands == [l \in Floor!AuthorLous |-> old[l].cands]
           steady == {l \in refs : floor[Floor!Orig(l)] = "named"}
           i == [missing |-> Floor!Missing, retry |-> UNION due, at |-> at,
                 recovered |-> recovered, seen |-> seen, old |-> cands,
                 cands |-> [l \in Floor!AuthorLous |-> {}],
                 exact |-> [l \in Floor!AuthorLous |-> None],
                 posts |-> [o \in Floor!Floors |-> None], scanned |-> {}, range |-> {},
                 left |-> {}, empty |-> {}, steady |-> steady]
<1>3. mapJob' = [i EXCEPT !.range = Floor!PagesForPending(i)]
  BY <1>2
<1>4. mapStep' = "pending" /\ UNCHANGED <<floor, refs, total, map, built, faults>>
  BY DEF Floor!Begin, Floor!Goto, Floor!thread, Floor!archive, Floor!stored
<1>5. refs \subseteq Floor!AuthorLous /\ 0 \in refs /\ 0 \in Floor!Floors /\ Floor!Orig(0) = 0
  BY <1>1, OrigFirst, MapBounds DEF MapTyped
<1>6. \A l \in Floor!AuthorLous :
        /\ old[l] \in Floor!Entries
        /\ map[l] # None => old[l] = map[l]
        /\ old[l].at \in {None, Floor!Orig(l)} /\ old[l].recovered \in {None, Floor!Orig(l)}
        /\ old[l].cands = {} \/ Floor!Orig(l) \in old[l].cands
        /\ Floor!Orig(l) \in Floor!Floors
  BY <1>1, EntriesReused, OrigIs
<1>7. \A l \in Floor!AuthorLous : old[l].cands \in SUBSET Floor!Floors
  BY <1>6 DEF Floor!Entries
<1> HIDE DEF old
<1>8. /\ at \in [Floor!AuthorLous -> Floor!MaybeFloors] /\ TruePlaces(at)
      /\ recovered \in [Floor!AuthorLous -> Floor!MaybeFloors] /\ TruePlaces(recovered)
      /\ cands \in [Floor!AuthorLous -> SUBSET Floor!Floors] /\ TrueOffers(cands)
  BY <1>5, <1>6, <1>7 DEF TruePlaces, TrueOffers, Floor!MaybeFloors
<1>9. \A l \in Floor!AuthorLous : map[l] # None =>
        /\ recovered[l] = map[l].recovered
        /\ map[l].at # None => at[l] = map[l].at
  BY <1>5, <1>6
<1>10. seen \in SUBSET Floor!Floors /\ \A o \in seen : \E r \in refs : o = Floor!Orig(r)
  BY <1>5, <1>6
<1>11. steady \in SUBSET Floor!AuthorLous /\ Floor!Missing \in SUBSET Floor!AuthorLous
  BY <1>5 DEF Floor!Missing
<1>12. UNION due \in SUBSET Floor!AuthorLous
  BY <1>11 DEF Floor!Schedule!Gaps
<1>13. Floor!PagesForPending(i) \in SUBSET Int
  BY DEF Floor!PagesForPending
<1> HIDE DEF at, recovered, cands, seen
<1>14. i.at = at
  OBVIOUS
<1>15. \A l \in Floor!Pending(i) : Floor!Page(Floor!Orig(l)) \in Floor!PagesForPending(i)
  <2> HIDE DEF i
  <2> QED  BY <1>1, <1>8, <1>14, PageIsAhead
<1>16. \A l \in steady : at[l] = None => l \in Floor!Pending(i)
  BY <1>14 DEF Floor!Pending
<1> DEFINE range == Floor!PagesForPending(i)
<1> HIDE DEF range
<1>17. mapJob' = [missing |-> Floor!Missing, retry |-> UNION due, at |-> at,
                  recovered |-> recovered, seen |-> seen, old |-> cands,
                  cands |-> [l \in Floor!AuthorLous |-> {}],
                  exact |-> [l \in Floor!AuthorLous |-> None],
                  posts |-> [o \in Floor!Floors |-> None], scanned |-> {}, range |-> range,
                  left |-> {}, empty |-> {}, steady |-> steady]
  BY <1>3 DEF range
<1>18. \A l \in steady : at[l] = None => Floor!Page(Floor!Orig(l)) \in range
  BY <1>15, <1>16 DEF range
<1> HIDE DEF i
<1>19. range \in SUBSET Int
  BY <1>13 DEF range
<1>20. \A l \in steady : l \in refs /\ floor[Floor!Orig(l)] = "named"
  OBVIOUS
<1> HIDE DEF steady
<1>21. mapJob' \in Builds
  <2>1. [l \in Floor!AuthorLous |-> None] \in [Floor!AuthorLous -> Floor!MaybeFloors]
    BY DEF Floor!MaybeFloors
  <2> QED  BY <1>8, <1>10, <1>11, <1>12, <1>17, <1>19, <2>1 DEF Builds
<1>22. MapTyped' /\ ThreadTrue' /\ MapTrue' /\ Floor!Missing' = Floor!Missing
  BY <1>1, <1>4, <1>21, MapRests DEF MapTyped
<1>23. BuildTrue(mapJob)'
  <2>1. \A l \in Floor!Missing : Floor!Orig(l) \in Floor!Floors
    BY <1>6, <1>11
  <2> QED  BY <1>4, <1>8, <1>9, <1>10, <1>17, <1>22, <2>1 DEF BuildTrue, TruePlaces, TrueOffers
<1>24. SteadyTrue(mapJob)'
  BY <1>4, <1>17, <1>20 DEF SteadyTrue
<1>25. SearchTrue(mapJob)'
  BY <1>4, <1>17, <1>18 DEF SearchTrue, Ahead
<1> QED  BY <1>22, <1>23, <1>24, <1>25 DEF FloorInv

LEMMA BuildMoves ==
  ASSUME MapTyped, ThreadTrue, MapTrue,
         UNCHANGED <<floor, refs, total, map>>, faults' \in Nat,
         mapStep' \in {"pending", "range", "infer"},
         NEW j, mapJob' = j, j \in Builds, BuildTrue(j), SteadyTrue(j),
         j.empty = {} => IF mapStep' = "infer" THEN AllFound(j) ELSE Ahead(j)
  PROVE  FloorInv'
<1>1. MapTyped' /\ ThreadTrue' /\ MapTrue' /\ Floor!Missing' = Floor!Missing
  BY MapRests
<1>2. BuildTrue(mapJob)'
  BY <1>1 DEF BuildTrue, TruePlaces, TrueOffers
<1>3. SteadyTrue(mapJob)' /\ SearchTrue(mapJob)'
  BY DEF SteadyTrue, SearchTrue, Ahead, AllFound
<1> QED  BY <1>1, <1>2, <1>3 DEF FloorInv

LEMMA InferenceBegins ==
  ASSUME MapTyped, ThreadTrue, MapTrue,
         UNCHANGED <<floor, refs, total, map>>, faults' \in Nat,
         NEW j, j \in Builds, BuildTrue(j), SteadyTrue(j), j.empty = {} => AllFound(j),
         Floor!ToInfer(j)
  PROVE  FloorInv'
<1> DEFINE left == {l \in j.missing : j.at[l] = None}
           i == [j EXCEPT !.left = left]
<1>1. mapJob' = i /\ mapStep' = "infer"
  BY DEF Floor!ToInfer, Floor!Goto
<1>2. left \in SUBSET Floor!AuthorLous /\ left \subseteq Floor!Missing
  BY DEF Builds, BuildTrue
<1> HIDE DEF left
<1>3. i \in Builds
  BY <1>2 DEF Builds
<1>4. /\ i.missing = j.missing /\ i.recovered = j.recovered /\ i.at = j.at
      /\ i.seen = j.seen /\ i.old = j.old /\ i.cands = j.cands /\ i.exact = j.exact
      /\ i.posts = j.posts /\ i.empty = j.empty /\ i.steady = j.steady
      /\ i.left = left
  BY DEF Builds
<1> HIDE DEF i
<1>5. BuildTrue(i) /\ SteadyTrue(i) /\ (i.empty = {} => AllFound(i))
  BY <1>2, <1>4 DEF BuildTrue, SteadyTrue, AllFound
<1> QED  BY <1>1, <1>3, <1>5, BuildMoves

LEMMA CountTyped ==
  ASSUME MapTyped, NEW j, Floor!Count(j)
  PROVE  faults' \in Nat /\ (j.empty = mapJob.empty => faults' = faults)
BY DEF Floor!Count, MapTyped

LEMMA NothingPendingOK ==
  ASSUME FloorInv, Floor!NothingPending
  PROVE  FloorInv'
<1>1. /\ mapStep = "pending" /\ Floor!Pending(mapJob) = {} /\ Floor!ToInfer(mapJob)
      /\ UNCHANGED <<floor, refs, total, map, faults>>
  BY DEF Floor!NothingPending, Floor!thread, Floor!archive, Floor!stored
<1>2. /\ MapTyped /\ ThreadTrue /\ MapTrue /\ mapJob \in Builds /\ faults \in Nat
      /\ BuildTrue(mapJob) /\ SteadyTrue(mapJob)
  BY <1>1 DEF FloorInv, MapTyped
<1>3. AllFound(mapJob)
  BY <1>1, <1>2 DEF SteadyTrue, AllFound, Floor!Pending
<1> QED  BY <1>1, <1>2, <1>3, InferenceBegins

(* What has been read is no longer ahead, what is on it has been located.    *)
LEMMA SearchGoesOn ==
  ASSUME MapTyped, ThreadTrue, MapTrue, mapStep \in {"pending", "range"},
         mapJob \in Builds, BuildTrue(mapJob), SteadyTrue(mapJob), SearchTrue(mapJob),
         NEW P \in SUBSET Int, NEW j \in Floor!Scans(mapJob, P, Floor!Pending(mapJob))
  PROVE  /\ j \in Builds /\ BuildTrue(j) /\ SteadyTrue(j)
         /\ j.empty = {} => Ahead(j)
         /\ j.empty = {} /\ P = mapJob.range \ mapJob.scanned => AllFound(j)
<1>1. Read(j, mapJob, P, Floor!Pending(mapJob))
  BY PagesRead DEF MapTyped
<1>2. j \in Builds /\ BuildTrue(j)
  BY <1>1, ReadIsTrue DEF Read
<1>3. /\ j.steady = mapJob.steady /\ j.range = mapJob.range
      /\ j.scanned = mapJob.scanned \union P /\ mapJob.empty \subseteq j.empty
  BY <1>1 DEF Read, SameButRead
<1>4. SteadyTrue(j)
  BY <1>3 DEF SteadyTrue
<1>5. ASSUME j.empty = {}, NEW l \in j.steady, j.at[l] = None
      PROVE  /\ Floor!Page(Floor!Orig(l)) \in mapJob.range \ mapJob.scanned
             /\ Floor!Page(Floor!Orig(l)) \notin P
  <2>1. l \in refs /\ l \in Floor!AuthorLous /\ floor[Floor!Orig(l)] = "named"
    BY <1>3, <1>5 DEF SteadyTrue, MapTyped
  <2>2. j.at[l] = mapJob.at[l] \/ j.at[l] = Floor!Orig(l)
    BY <1>1, <2>1 DEF Read
  <2>3. mapJob.at[l] = None /\ l \in Floor!Pending(mapJob)
    BY <1>5, <2>1, <2>2, OrigIs DEF Floor!Pending
  <2>4. Floor!Page(Floor!Orig(l)) \in mapJob.range \ mapJob.scanned
    BY <1>3, <1>5, <2>3 DEF SearchTrue, Ahead
  <2>5. Floor!Page(Floor!Orig(l)) \in P => j.at[l] = Floor!Orig(l)
    BY <1>1, <1>5, <2>1, <2>3 DEF Read
  <2> QED  BY <1>5, <2>1, <2>4, <2>5, OrigIs
<1>6. j.empty = {} => Ahead(j)
  BY <1>3, <1>5 DEF Ahead
<1>7. j.empty = {} /\ P = mapJob.range \ mapJob.scanned => AllFound(j)
  BY <1>5 DEF AllFound
<1> QED  BY <1>2, <1>4, <1>6, <1>7

LEMMA ScanTargetsOK ==
  ASSUME FloorInv, Floor!ScanTargets
  PROVE  FloorInv'
<1>1. mapStep = "pending" /\ UNCHANGED <<floor, refs, total, map>>
  BY DEF Floor!ScanTargets, Floor!thread, Floor!archive, Floor!stored
<1>2. /\ MapTyped /\ ThreadTrue /\ MapTrue /\ mapJob \in Builds
      /\ BuildTrue(mapJob) /\ SteadyTrue(mapJob) /\ SearchTrue(mapJob)
  BY <1>1 DEF FloorInv, MapTyped
<1>3. PICK asked \in (SUBSET Floor!Pending(mapJob)) \ {{}} :
        /\ Floor!Usable(asked)
        /\ \E j \in Floor!Scans(mapJob, {Floor!Page(Floor!Orig(l)) : l \in asked}, Floor!Pending(mapJob)) :
             /\ Floor!Count(j)
             /\ IF Floor!Pending(j) = {} THEN Floor!ToInfer(j)
                ELSE /\ mapJob' = j
                     /\ Floor!Goto(IF asked \intersect Floor!Pending(j) = {} THEN "pending" ELSE "range")
  BY DEF Floor!ScanTargets
<1> DEFINE P == {Floor!Page(Floor!Orig(l)) : l \in asked}
<1>4. P \in SUBSET Int
  BY <1>2, <1>3 DEF Floor!Usable, Builds
<1>5. PICK j \in Floor!Scans(mapJob, P, Floor!Pending(mapJob)) :
        /\ Floor!Count(j)
        /\ IF Floor!Pending(j) = {} THEN Floor!ToInfer(j)
           ELSE /\ mapJob' = j
                /\ Floor!Goto(IF asked \intersect Floor!Pending(j) = {} THEN "pending" ELSE "range")
  BY <1>3
<1> HIDE DEF P
<1>6. /\ j \in Builds /\ BuildTrue(j) /\ SteadyTrue(j) /\ (j.empty = {} => Ahead(j))
  BY <1>1, <1>2, <1>4, SearchGoesOn
<1>7. faults' \in Nat
  BY <1>2, <1>5, CountTyped
<1>8. CASE Floor!Pending(j) = {}
  <2>1. AllFound(j)
    BY <1>6, <1>8 DEF SteadyTrue, AllFound, Floor!Pending
  <2> QED  BY <1>1, <1>2, <1>5, <1>6, <1>7, <1>8, <2>1, InferenceBegins
<1>9. CASE Floor!Pending(j) # {}
  <2>1. mapJob' = j /\ mapStep' \in {"pending", "range"}
    BY <1>5, <1>9 DEF Floor!Goto
  <2> QED  BY <1>1, <1>2, <1>6, <1>7, <2>1, BuildMoves
<1> QED  BY <1>8, <1>9

LEMMA ScanRangeOK ==
  ASSUME FloorInv, Floor!ScanRange
  PROVE  FloorInv'
<1>1. mapStep \in {"pending", "range"} /\ UNCHANGED <<floor, refs, total, map>>
  BY DEF Floor!ScanRange, Floor!thread, Floor!archive, Floor!stored
<1>2. /\ MapTyped /\ ThreadTrue /\ MapTrue /\ mapJob \in Builds
      /\ BuildTrue(mapJob) /\ SteadyTrue(mapJob) /\ SearchTrue(mapJob)
  BY <1>1 DEF FloorInv, MapTyped
<1> DEFINE P == mapJob.range \ mapJob.scanned
<1>3. P \in SUBSET Int
  BY <1>2 DEF Builds
<1>4. PICK j \in Floor!Scans(mapJob, P, Floor!Pending(mapJob)) : Floor!Count(j) /\ Floor!ToInfer(j)
  BY DEF Floor!ScanRange
<1>5. /\ j \in Builds /\ BuildTrue(j) /\ SteadyTrue(j) /\ (j.empty = {} => AllFound(j))
  BY <1>1, <1>2, <1>3, SearchGoesOn
<1>6. faults' \in Nat
  BY <1>2, <1>4, CountTyped
<1> QED  BY <1>1, <1>2, <1>4, <1>5, <1>6, InferenceBegins

(* The true places of the floors of a gap are between those of its           *)
(* neighbours, and possible there.                                           *)
LEMMA GapIsTrue ==
  ASSUME MapTyped, mapJob \in Builds, BuildTrue(mapJob), NEW l \in Floor!AuthorLous,
         NEW before, before = Floor!Before(Floor!MappedIn(mapJob), l), before # {},
         NEW after, after = Floor!After(Floor!MappedIn(mapJob), l), after # {},
         NEW a, a = mapJob.at[Floor!Max(before)], NEW b, b = mapJob.at[Floor!Min(after)],
         NEW j, j \in Builds, BuildTrue(j)
  PROVE  /\ Floor!Possible(j, a, b) \in SUBSET Floor!Floors
         /\ Floor!Gap(l) \in SUBSET Floor!AuthorLous
         /\ \A k \in Floor!Gap(l) : Floor!Orig(k) \in Floor!Possible(j, a, b)
<1> DEFINE M == Floor!MappedIn(mapJob)
           m == Floor!Max(before)
           n == Floor!Min(after)
<1>1. \A k \in M : k \in Floor!AuthorLous /\ k \in Nat /\ mapJob.at[k] = Floor!Orig(k)
  BY OrigIs DEF Floor!MappedIn, BuildTrue, TruePlaces
<1>2. before \subseteq Floor!AuthorLous /\ after \subseteq Nat
  BY <1>1 DEF Floor!Before, Floor!After
<1>3. m \in before
  <2>1. Cardinality(Mine) - 1 \in Nat /\ before \in SUBSET (0..(Cardinality(Mine) - 1))
    BY <1>2, MapBounds
  <2> QED  BY <2>1, GreatestFloor
<1>4. n \in after
  BY <1>2, LeastFloor
<1>5. /\ m \in Floor!AuthorLous /\ m \in Nat /\ a = Floor!Orig(m) /\ m \in M /\ m < l
      /\ n \in Floor!AuthorLous /\ n \in Nat /\ b = Floor!Orig(n) /\ n \in M /\ n > l
  BY <1>1, <1>3, <1>4 DEF Floor!Before, Floor!After
<1>6. a \in Nat /\ b \in Nat /\ a \in Floor!Floors /\ b \in Floor!Floors
  BY <1>5, OrigIs
<1> HIDE DEF m, n
<1>7. Floor!Possible(j, a, b) \in SUBSET Floor!Floors
  <2>1. (a + 1)..(b - 1) \subseteq Floor!Floors
    BY <1>6, MapBounds, SMTT(20) DEF Floor!Floors
  <2> QED  BY <2>1 DEF Floor!Possible
<1>8. Floor!Gap(l) \in SUBSET Floor!AuthorLous
  BY DEF Floor!Gap, Builds
<1>9. ASSUME NEW k \in Floor!Gap(l)
      PROVE  Floor!Orig(k) \in Floor!Possible(j, a, b)
  <2>1. /\ k \in mapJob.missing /\ mapJob.at[k] = None /\ k \in Floor!AuthorLous
        /\ Floor!Before(M, k) = Floor!Before(M, l)
    BY <1>8 DEF Floor!Gap
  <2>2. k \in Nat /\ l \in Nat /\ k \notin M
    BY <2>1, OrigIs DEF Floor!MappedIn
  <2>3. m < k
    BY <1>3, <2>1 DEF Floor!Before
  <2>4. k < n
    <3>1. n \notin Floor!Before(M, k)
      BY <1>5, <2>1, <2>2 DEF Floor!Before
    <3>2. ~(n < k) /\ n # k
      BY <1>5, <2>2, <3>1 DEF Floor!Before
    <3> QED  BY <1>5, <2>2, <3>2
  <2>5. Floor!Orig(k) \in Nat /\ a < Floor!Orig(k) /\ Floor!Orig(k) < b
    BY <1>5, <2>1, <2>3, <2>4, OrigIs, OrigRises
  <2>6. Floor!Orig(k) \in (a + 1)..(b - 1)
    BY <1>6, <2>5
  <2>7. k \in Floor!Missing /\ k \notin refs
    BY <2>1 DEF BuildTrue, Floor!Missing
  <2>8. Floor!Orig(k) \notin j.seen
    <3> SUFFICES ASSUME Floor!Orig(k) \in j.seen PROVE FALSE
      OBVIOUS
    <3>1. PICK r \in refs : Floor!Orig(k) = Floor!Orig(r)
      BY DEF BuildTrue
    <3>2. r \in Floor!AuthorLous
      BY DEF MapTyped
    <3> QED  BY <2>1, <2>7, <3>1, <3>2, OrigRises
  <2>9. Floor!Orig(k) \notin Floor!Seen(j) \/ j.posts[Floor!Orig(k)] = "anon"
    BY <2>7, <2>8 DEF BuildTrue, Floor!Seen
  <2> QED  BY <2>6, <2>9 DEF Floor!Possible
<1> QED  BY <1>7, <1>8, <1>9

(* Inference changes what a build says of a gap, and what is left to infer.  *)
LEMMA Inferred ==
  ASSUME MapTyped, ThreadTrue, MapTrue,
         UNCHANGED <<floor, refs, total, map>>, faults' \in Nat,
         mapStep = "infer", mapStep' = mapStep,
         NEW j, j \in Builds, BuildTrue(j), SteadyTrue(j), j.empty = {} => AllFound(j),
         NEW left \in SUBSET Floor!AuthorLous, left \subseteq Floor!Missing,
         NEW exact \in [Floor!AuthorLous -> Floor!MaybeFloors], TruePlaces(exact),
         NEW cands \in [Floor!AuthorLous -> SUBSET Floor!Floors], TrueOffers(cands),
         \A l \in Floor!AuthorLous : cands[l] # {} => l \in Floor!Missing,
         mapJob' = [j EXCEPT !.left = left, !.exact = exact, !.cands = cands]
  PROVE  FloorInv'
<1> DEFINE i == [j EXCEPT !.left = left, !.exact = exact, !.cands = cands]
<1>1. i \in Builds
  BY DEF Builds
<1>2. /\ i.missing = j.missing /\ i.recovered = j.recovered /\ i.at = j.at
      /\ i.seen = j.seen /\ i.old = j.old /\ i.cands = cands /\ i.exact = exact
      /\ i.posts = j.posts /\ i.empty = j.empty /\ i.steady = j.steady /\ i.left = left
  BY DEF Builds
<1>3. mapJob' = i
  OBVIOUS
<1> HIDE DEF i
<1>4. BuildTrue(i) /\ SteadyTrue(i) /\ (i.empty = {} => AllFound(i))
  BY <1>2 DEF BuildTrue, SteadyTrue, AllFound
<1> QED  BY <1>1, <1>3, <1>4, BuildMoves

LEMMA InferGapOK ==
  ASSUME FloorInv, Floor!InferGap
  PROVE  FloorInv'
<1> DEFINE urgent == mapJob.left \intersect mapJob.retry
           l == IF urgent # {} THEN Floor!Min(urgent) ELSE Floor!Min(mapJob.left)
           G == Floor!Gap(l)
           before == Floor!Before(Floor!MappedIn(mapJob), l)
           after == Floor!After(Floor!MappedIn(mapJob), l)
           a == mapJob.at[Floor!Max(before)]
           b == mapJob.at[Floor!Min(after)]
           pages == Floor!Interval(a, b) \ mapJob.scanned
<1>1. /\ mapStep = "infer" /\ mapJob.left # {}
      /\ UNCHANGED <<floor, refs, total, map, mapStep>>
  BY DEF Floor!InferGap, Floor!thread, Floor!archive, Floor!stored
<1>2. /\ MapTyped /\ ThreadTrue /\ MapTrue /\ mapJob \in Builds /\ faults \in Nat
      /\ BuildTrue(mapJob) /\ SteadyTrue(mapJob) /\ (mapJob.empty = {} => AllFound(mapJob))
  BY <1>1 DEF FloorInv, MapTyped, SearchTrue
<1>3. \/ /\ before = {} \/ after = {}
         /\ mapJob' = [mapJob EXCEPT !.left = mapJob.left \ {l}, !.cands[l] = mapJob.old[l]]
         /\ UNCHANGED faults
      \/ /\ mapJob' = [mapJob EXCEPT !.left = mapJob.left \ G,
              !.cands = [k \in Floor!AuthorLous |-> IF k \in G THEN mapJob.old[k] ELSE mapJob.cands[k]]]
         /\ UNCHANGED faults
      \/ /\ before # {} /\ after # {}
         /\ \E j \in Floor!Scans(mapJob, pages, {}) :
              LET P == Floor!Possible(j, a, b)
                  same == Floor!Cardinality(P) = Floor!Cardinality(G) IN
              /\ mapJob' = [j EXCEPT !.left = j.left \ G,
                   !.exact = [k \in Floor!AuthorLous |-> IF same /\ k \in G
                                THEN Floor!Nth(P, Floor!Cardinality(Floor!Before(G, k)))
                                ELSE j.exact[k]],
                   !.cands = [k \in Floor!AuthorLous |-> IF ~same /\ k \in G
                                THEN Floor!ByPosition(G, P, k) ELSE j.cands[k]]]
              /\ Floor!Count(j)
  BY DEF Floor!InferGap
<1>4. l \in Floor!AuthorLous /\ l \in Floor!Missing
  <2>1. mapJob.left \subseteq Floor!AuthorLous /\ mapJob.left \subseteq Nat
    BY <1>2, MapBounds DEF Builds
  <2>2. urgent \subseteq Nat /\ urgent \subseteq mapJob.left
    BY <2>1
  <2>3. mapJob.left \subseteq Floor!Missing
    BY <1>2 DEF BuildTrue
  <2> HIDE DEF urgent
  <2> QED  BY <1>1, <2>1, <2>2, <2>3, LeastFloor
<1>9. G \subseteq Floor!Missing
  BY <1>2 DEF Floor!Gap, BuildTrue
<1> HIDE DEF l, G
<1>5. mapJob.exact \in [Floor!AuthorLous -> Floor!MaybeFloors] /\ TruePlaces(mapJob.exact)
  BY <1>2 DEF Builds, BuildTrue
<1>6. CASE /\ mapJob' = [mapJob EXCEPT !.left = mapJob.left \ {l}, !.cands[l] = mapJob.old[l]]
           /\ UNCHANGED faults
  <2> DEFINE cands == [mapJob.cands EXCEPT ![l] = mapJob.old[l]]
  <2>1. /\ mapJob.left \ {l} \in SUBSET Floor!AuthorLous
        /\ cands \in [Floor!AuthorLous -> SUBSET Floor!Floors]
        /\ mapJob' = [mapJob EXCEPT !.left = mapJob.left \ {l}, !.exact = mapJob.exact, !.cands = cands]
    BY <1>2, <1>4, <1>6 DEF Builds
  <2>2. /\ TrueOffers(cands) /\ mapJob.left \ {l} \subseteq Floor!Missing
        /\ \A k \in Floor!AuthorLous : cands[k] # {} => k \in Floor!Missing
    BY <1>2, <1>4 DEF Builds, BuildTrue, TrueOffers
  <2>3. faults' \in Nat
    BY <1>2, <1>6
  <2> HIDE DEF cands
  <2> QED  BY <1>1, <1>2, <1>5, <2>1, <2>2, <2>3, Inferred
<1>7. CASE /\ mapJob' = [mapJob EXCEPT !.left = mapJob.left \ G,
                !.cands = [k \in Floor!AuthorLous |-> IF k \in G THEN mapJob.old[k] ELSE mapJob.cands[k]]]
           /\ UNCHANGED faults
  <2> DEFINE cands == [k \in Floor!AuthorLous |-> IF k \in G THEN mapJob.old[k] ELSE mapJob.cands[k]]
  <2>1. /\ mapJob.left \ G \in SUBSET Floor!AuthorLous
        /\ cands \in [Floor!AuthorLous -> SUBSET Floor!Floors]
        /\ TrueOffers(cands) /\ mapJob.left \ G \subseteq Floor!Missing
        /\ \A k \in Floor!AuthorLous : cands[k] # {} => k \in Floor!Missing
    BY <1>2, <1>9 DEF Builds, BuildTrue, TrueOffers
  <2>2. mapJob' = [mapJob EXCEPT !.left = mapJob.left \ G, !.exact = mapJob.exact, !.cands = cands]
    BY <1>2, <1>7 DEF Builds
  <2>3. faults' \in Nat
    BY <1>2, <1>7
  <2> HIDE DEF cands
  <2> QED  BY <1>1, <1>2, <1>5, <2>1, <2>2, <2>3, Inferred
<1>8. ASSUME before # {}, after # {},
             NEW j \in Floor!Scans(mapJob, pages, {}),
             LET P == Floor!Possible(j, a, b)
                 same == Floor!Cardinality(P) = Floor!Cardinality(G) IN
             /\ mapJob' = [j EXCEPT !.left = j.left \ G,
                  !.exact = [k \in Floor!AuthorLous |-> IF same /\ k \in G
                               THEN Floor!Nth(P, Floor!Cardinality(Floor!Before(G, k)))
                               ELSE j.exact[k]],
                  !.cands = [k \in Floor!AuthorLous |-> IF ~same /\ k \in G
                               THEN Floor!ByPosition(G, P, k) ELSE j.cands[k]]]
             /\ Floor!Count(j)
      PROVE  FloorInv'
  <2> DEFINE P == Floor!Possible(j, a, b)
             same == Floor!Cardinality(P) = Floor!Cardinality(G)
             exact == [k \in Floor!AuthorLous |-> IF same /\ k \in G
                         THEN Floor!Nth(P, Floor!Cardinality(Floor!Before(G, k))) ELSE j.exact[k]]
             cands == [k \in Floor!AuthorLous |-> IF ~same /\ k \in G
                         THEN Floor!ByPosition(G, P, k) ELSE j.cands[k]]
  <2>1. mapJob' = [j EXCEPT !.left = j.left \ G, !.exact = exact, !.cands = cands] /\ Floor!Count(j)
    BY <1>8
  <2>2. pages \in SUBSET Int
    BY DEF Floor!Interval
  <2> HIDE DEF pages
  <2>3. Read(j, mapJob, pages, {})
    BY <1>2, <1>8, <2>2, PagesRead DEF MapTyped
  <2>4. /\ j \in Builds /\ BuildTrue(j) /\ j.steady = mapJob.steady
        /\ mapJob.empty \subseteq j.empty
        /\ \A k \in Floor!AuthorLous : j.at[k] = mapJob.at[k]
    <3>1. j \in Builds /\ SameButRead(j, mapJob) /\ mapJob.empty \subseteq j.empty
      BY <2>3 DEF Read
    <3>2. \A k \in Floor!AuthorLous : j.at[k] = mapJob.at[k]
      BY <2>3 DEF Read
    <3>3. BuildTrue(j)
      BY <1>2, <2>3, ReadIsTrue
    <3> QED  BY <3>1, <3>2, <3>3 DEF SameButRead
  <2>5. SteadyTrue(j) /\ (j.empty = {} => AllFound(j))
    BY <1>2, <2>4 DEF SteadyTrue, AllFound, Builds
  <2>6. /\ P \in SUBSET Floor!Floors /\ G \in SUBSET Floor!AuthorLous
        /\ \A k \in G : Floor!Orig(k) \in P
    BY <1>2, <1>4, <1>8, <2>4, GapIsTrue DEF G
  <2> HIDE DEF P, a, b, before, after
  <2>7. \A k \in G : /\ Floor!Orig(k) \in Floor!ByPosition(G, P, k)
                     /\ same => Floor!Nth(P, Floor!Cardinality(Floor!Before(G, k))) = Floor!Orig(k)
    BY <2>6, PlacesFound
  <2>8. \A k \in Floor!AuthorLous : Floor!ByPosition(G, P, k) \in SUBSET Floor!Floors
    BY <2>6 DEF Floor!ByPosition
  <2> HIDE DEF same
  <2>9. exact \in [Floor!AuthorLous -> Floor!MaybeFloors] /\ TruePlaces(exact)
    <3>1. \A k \in Floor!AuthorLous : exact[k] \in {None, Floor!Orig(k)} /\ Floor!Orig(k) \in Floor!Floors
      BY <2>4, <2>7, OrigIs DEF BuildTrue, TruePlaces
    <3> QED  BY <3>1 DEF TruePlaces, Floor!MaybeFloors
  <2>10. /\ cands \in [Floor!AuthorLous -> SUBSET Floor!Floors] /\ TrueOffers(cands)
         /\ \A k \in Floor!AuthorLous : cands[k] # {} => k \in Floor!Missing
    BY <1>9, <2>4, <2>7, <2>8 DEF Builds, BuildTrue, TrueOffers
  <2>11. j.left \ G \in SUBSET Floor!AuthorLous /\ j.left \ G \subseteq Floor!Missing
    BY <2>4 DEF Builds, BuildTrue
  <2>12. faults' \in Nat
    BY <1>2, <2>1, CountTyped
  <2> HIDE DEF exact, cands
  <2> QED  BY <1>1, <1>2, <2>1, <2>4, <2>5, <2>9, <2>10, <2>11, <2>12, Inferred
<1> QED  BY <1>3, <1>6, <1>7, <1>8

(* The entry of an archived floor, and that of a missing one.                *)
KnownEntryIs(e, at) ==
  e \in Floor!Entries /\ e # None /\
  e.known = TRUE /\ e.at = at /\ e.cands = {} /\ e.recovered = None

LEMMA KnownEntry ==
  ASSUME NEW at \in Floor!MaybeFloors
  PROVE  KnownEntryIs(Floor!Entry(TRUE, at, {}, None), at)
<1> DEFINE e == Floor!Entry(TRUE, at, {}, None)
<1>1. e \in Floor!Entries
  BY DEF Floor!Entry, Floor!Entries, Floor!MaybeFloors
<1>2. e.known = TRUE /\ e.at = at /\ e.cands = {} /\ e.recovered = None
  BY DEF Floor!Entry
<1> HIDE DEF e
<1>3. KnownEntryIs(e, at)
  BY <1>1, <1>2, MapBounds DEF KnownEntryIs
<1> QED  BY <1>3 DEF e

MissingEntryIs(e, at, cands, recovered) ==
  e \in Floor!Entries /\ e # None /\
  e.known = FALSE /\ e.at = at /\ e.cands = cands /\ e.recovered = recovered

LEMMA MissingEntry ==
  ASSUME NEW at \in Floor!MaybeFloors, NEW cands \in SUBSET Floor!Floors,
         NEW recovered \in Floor!MaybeFloors
  PROVE  MissingEntryIs(Floor!Entry(FALSE, at, cands, recovered), at, cands, recovered)
<1> DEFINE e == Floor!Entry(FALSE, at, cands, recovered)
<1>1. e \in Floor!Entries
  BY DEF Floor!Entry, Floor!Entries
<1>2. e.known = FALSE /\ e.at = at /\ e.cands = cands /\ e.recovered = recovered
  BY DEF Floor!Entry
<1> HIDE DEF e
<1>3. MissingEntryIs(e, at, cands, recovered)
  BY <1>1, <1>2, MapBounds DEF MissingEntryIs
<1> QED  BY <1>3 DEF e

(* The map that a build writes.                                              *)
LEMMA WrittenMap ==
  ASSUME MapTyped, ThreadTrue, MapTrue, mapJob \in Builds, BuildTrue(mapJob), Floor!Finish
  PROVE  /\ map' \in [Floor!AuthorLous -> {None} \union Floor!Entries]
         /\ \A l \in Floor!AuthorLous :
              /\ l \in refs => map'[l] = Floor!Entry(TRUE, mapJob.at[l], {}, None)
              /\ l \in Floor!Missing /\ mapJob.at[l] # None =>
                   /\ map'[l] # None /\ map'[l].known = FALSE /\ map'[l].at = mapJob.at[l]
                   /\ map'[l].recovered \in {mapJob.recovered[l], Floor!Orig(l)}
              /\ l \notin refs /\ map'[l] # None =>
                   /\ l \in Floor!Missing /\ map'[l].known = FALSE
                   /\ map'[l].at \in {None, Floor!Orig(l)}
                   /\ map'[l].at = None => Floor!Orig(l) \in map'[l].cands
                   /\ map'[l].cands = {} \/ Floor!Orig(l) \in map'[l].cands
                   /\ map'[l].recovered \in {None, Floor!Orig(l)}
<1> DEFINE at == [l \in Floor!AuthorLous |-> IF mapJob.at[l] # None THEN mapJob.at[l] ELSE mapJob.exact[l]]
           exact == {l \in mapJob.missing : at[l] # None}
           look == {l \in exact : l \in mapJob.retry \/ Floor!Page(at[l]) \in mapJob.scanned}
           pages == {Floor!Page(at[l]) : l \in look} \ mapJob.scanned
<1>1. PICK j \in Floor!Scans(mapJob, pages, {}) :
        map' = [l \in Floor!AuthorLous |->
                 CASE l \in refs -> Floor!Entry(TRUE, mapJob.at[l], {}, None)
                   [] l \in exact ->
                        Floor!Entry(FALSE, at[l], {},
                              IF l \in look /\ j.posts[at[l]] = "anon" THEN at[l]
                              ELSE mapJob.recovered[l])
                   [] l \notin refs \union exact /\ mapJob.cands[l] # {} ->
                        Floor!Entry(FALSE, None, mapJob.cands[l], None)
                   [] OTHER -> None]
  BY DEF Floor!Finish
<1> DEFINE found(l) == IF l \in look /\ j.posts[at[l]] = "anon" THEN at[l] ELSE mapJob.recovered[l]
<1>2. \A l \in Floor!AuthorLous :
        /\ at[l] \in {None, Floor!Orig(l)} /\ (mapJob.at[l] # None => at[l] = mapJob.at[l])
        /\ mapJob.at[l] \in Floor!MaybeFloors /\ at[l] \in Floor!MaybeFloors
        /\ mapJob.recovered[l] \in Floor!MaybeFloors
        /\ mapJob.recovered[l] \in {None, Floor!Orig(l)}
        /\ mapJob.cands[l] \in SUBSET Floor!Floors
        /\ mapJob.cands[l] = {} \/ (Floor!Orig(l) \in mapJob.cands[l] /\ l \in Floor!Missing)
  BY DEF Builds, BuildTrue, TruePlaces, TrueOffers
<1>3. exact \subseteq Floor!Missing /\ Floor!Missing \intersect refs = {}
      /\ \A l \in Floor!Missing : at[l] # None => l \in exact
  BY DEF BuildTrue, Floor!Missing
<1> HIDE DEF at, look, exact
<1>4. \A l \in exact : at[l] # None
  BY DEF exact
<1>5. \A l \in Floor!AuthorLous :
        /\ found(l) \in {mapJob.recovered[l], at[l]} /\ found(l) \in Floor!MaybeFloors
  BY <1>2
<1> HIDE DEF found
<1>6. \A l \in Floor!AuthorLous :
        map'[l] = CASE l \in refs -> Floor!Entry(TRUE, mapJob.at[l], {}, None)
                    [] l \in exact -> Floor!Entry(FALSE, at[l], {}, found(l))
                    [] l \notin refs \union exact /\ mapJob.cands[l] # {} ->
                         Floor!Entry(FALSE, None, mapJob.cands[l], None)
                    [] OTHER -> None
  BY <1>1 DEF found
<1>7. \A l \in Floor!AuthorLous :
        /\ l \in refs => map'[l] = Floor!Entry(TRUE, mapJob.at[l], {}, None)
        /\ l \in exact => map'[l] = Floor!Entry(FALSE, at[l], {}, found(l))
        /\ l \notin refs \union exact /\ mapJob.cands[l] # {} =>
             map'[l] = Floor!Entry(FALSE, None, mapJob.cands[l], None)
        /\ l \notin refs \union exact /\ mapJob.cands[l] = {} => map'[l] = None
  BY <1>3, <1>6
<1>8. map' \in [Floor!AuthorLous -> {None} \union Floor!Entries]
  <2>1. \A l \in Floor!AuthorLous : map'[l] \in {None} \union Floor!Entries
    <3> TAKE l \in Floor!AuthorLous
    <3>1. None \in Floor!MaybeFloors /\ {} \in SUBSET Floor!Floors
      BY DEF Floor!MaybeFloors
    <3>2. CASE l \in refs
      <4>1. mapJob.at[l] \in Floor!MaybeFloors /\ map'[l] = Floor!Entry(TRUE, mapJob.at[l], {}, None)
        BY <1>2, <1>7, <3>2
      <4>2. KnownEntryIs(Floor!Entry(TRUE, mapJob.at[l], {}, None), mapJob.at[l])
        BY <4>1, KnownEntry
      <4> QED  BY <4>1, <4>2 DEF KnownEntryIs
    <3>3. CASE l \in exact
      <4>1. /\ at[l] \in Floor!MaybeFloors /\ found(l) \in Floor!MaybeFloors
            /\ map'[l] = Floor!Entry(FALSE, at[l], {}, found(l))
        BY <1>2, <1>5, <1>7, <3>3
      <4>2. MissingEntryIs(Floor!Entry(FALSE, at[l], {}, found(l)), at[l], {}, found(l))
        BY <3>1, <4>1, MissingEntry
      <4> QED  BY <4>1, <4>2 DEF MissingEntryIs
    <3>4. CASE l \notin refs \union exact /\ mapJob.cands[l] # {}
      <4>1. /\ mapJob.cands[l] \in SUBSET Floor!Floors
            /\ map'[l] = Floor!Entry(FALSE, None, mapJob.cands[l], None)
        BY <1>2, <1>7, <3>4
      <4>2. MissingEntryIs(Floor!Entry(FALSE, None, mapJob.cands[l], None), None, mapJob.cands[l], None)
        BY <3>1, <4>1, MissingEntry
      <4> QED  BY <4>1, <4>2 DEF MissingEntryIs
    <3>5. CASE l \notin refs \union exact /\ mapJob.cands[l] = {}
      BY <1>7, <3>5
    <3> QED  BY <3>2, <3>3, <3>4, <3>5
  <2>2. \E f : map' = [l \in Floor!AuthorLous |-> f[l]]
    <3> DEFINE f == [l \in Floor!AuthorLous |->
                 CASE l \in refs -> Floor!Entry(TRUE, mapJob.at[l], {}, None)
                   [] l \in exact ->
                        Floor!Entry(FALSE, at[l], {},
                              IF l \in look /\ j.posts[at[l]] = "anon" THEN at[l]
                              ELSE mapJob.recovered[l])
                   [] l \notin refs \union exact /\ mapJob.cands[l] # {} ->
                        Floor!Entry(FALSE, None, mapJob.cands[l], None)
                   [] OTHER -> None]
    <3>1. map' = f
      BY <1>1
    <3>2. f = [l \in Floor!AuthorLous |-> f[l]]
      OBVIOUS
    <3> HIDE DEF f
    <3> QED  BY <3>1, <3>2
  <2> QED  BY <2>1, <2>2
<1>9. ASSUME NEW l \in Floor!AuthorLous, l \in Floor!Missing, mapJob.at[l] # None
      PROVE  /\ map'[l] # None /\ map'[l].known = FALSE /\ map'[l].at = mapJob.at[l]
             /\ map'[l].recovered \in {mapJob.recovered[l], Floor!Orig(l)}
  <2>1. l \in exact /\ at[l] = mapJob.at[l] /\ at[l] = Floor!Orig(l)
    BY <1>2, <1>3, <1>9
  <2>2. /\ at[l] \in Floor!MaybeFloors /\ found(l) \in Floor!MaybeFloors
        /\ map'[l] = Floor!Entry(FALSE, at[l], {}, found(l))
        /\ found(l) \in {mapJob.recovered[l], at[l]}
    BY <1>2, <1>5, <1>7, <2>1
  <2>3. map'[l] # None /\ map'[l].known = FALSE /\ map'[l].at = at[l] /\ map'[l].recovered = found(l)
    <3>1. MissingEntryIs(Floor!Entry(FALSE, at[l], {}, found(l)), at[l], {}, found(l))
      BY <2>2, MissingEntry
    <3> QED  BY <2>2, <3>1 DEF MissingEntryIs
  <2> QED  BY <2>1, <2>2, <2>3
<1>10. ASSUME NEW l \in Floor!AuthorLous, l \notin refs, map'[l] # None
       PROVE  /\ l \in Floor!Missing /\ map'[l].known = FALSE
              /\ map'[l].at \in {None, Floor!Orig(l)}
              /\ map'[l].at = None => Floor!Orig(l) \in map'[l].cands
              /\ map'[l].cands = {} \/ Floor!Orig(l) \in map'[l].cands
              /\ map'[l].recovered \in {None, Floor!Orig(l)}
  <2>1. CASE l \in exact
    <3>1. /\ at[l] \in Floor!MaybeFloors /\ found(l) \in Floor!MaybeFloors
          /\ map'[l] = Floor!Entry(FALSE, at[l], {}, found(l))
          /\ found(l) \in {mapJob.recovered[l], at[l]}
          /\ at[l] = Floor!Orig(l) /\ at[l] # None
          /\ mapJob.recovered[l] \in {None, Floor!Orig(l)}
      BY <1>2, <1>4, <1>5, <1>7, <2>1
    <3>2. /\ map'[l].known = FALSE /\ map'[l].at = at[l] /\ map'[l].recovered = found(l)
          /\ map'[l].cands = {}
      <4>1. MissingEntryIs(Floor!Entry(FALSE, at[l], {}, found(l)), at[l], {}, found(l))
        BY <3>1, MissingEntry
      <4> QED  BY <3>1, <4>1 DEF MissingEntryIs
    <3>3. l \in Floor!Missing
      BY <1>3, <2>1
    <3> QED  BY <3>1, <3>2, <3>3
  <2>2. CASE l \notin exact
    <3>1. /\ mapJob.cands[l] # {} /\ mapJob.cands[l] \in SUBSET Floor!Floors
          /\ map'[l] = Floor!Entry(FALSE, None, mapJob.cands[l], None)
      BY <1>2, <1>7, <1>10, <2>2
    <3>2. Floor!Orig(l) \in mapJob.cands[l] /\ l \in Floor!Missing
      BY <1>2, <3>1
    <3>3. /\ map'[l].known = FALSE /\ map'[l].at = None /\ map'[l].recovered = None
          /\ map'[l].cands = mapJob.cands[l]
      <4>1. None \in Floor!MaybeFloors
        BY DEF Floor!MaybeFloors
      <4>2. MissingEntryIs(Floor!Entry(FALSE, None, mapJob.cands[l], None), None, mapJob.cands[l], None)
        BY <3>1, <4>1, MissingEntry
      <4> QED  BY <3>1, <4>2 DEF MissingEntryIs
    <3> QED  BY <3>2, <3>3
  <2> QED  BY <2>1, <2>2
<1> QED  BY <1>7, <1>8, <1>9, <1>10

LEMMA FinishOK ==
  ASSUME FloorInv, Floor!Finish
  PROVE  FloorInv'
<1>1. /\ mapStep = "infer" /\ mapStep' = "idle"
      /\ UNCHANGED <<floor, refs, total>>
  BY DEF Floor!Finish, Floor!Goto, Floor!thread, Floor!archive
<1>2. MapTyped /\ ThreadTrue /\ MapTrue /\ mapJob \in Builds /\ BuildTrue(mapJob)
  BY <1>1 DEF FloorInv, MapTyped
<1>3. faults' \in Nat
  <2>1. \E j : Floor!Count(j)
    BY DEF Floor!Finish
  <2> QED  BY <1>2, <2>1, CountTyped
<1>4. Floor!Missing' = Floor!Missing /\ Floor!Posted' = Floor!Posted
  BY <1>1 DEF Floor!Missing, Floor!Posted
<1>5. map' \in [Floor!AuthorLous -> {None} \union Floor!Entries]
  BY <1>2, WrittenMap
<1>6. MapTyped' /\ ThreadTrue'
  BY <1>1, <1>2, <1>3, <1>4, <1>5 DEF MapTyped, ThreadTrue
<1>7. ASSUME NEW l \in Floor!AuthorLous, map'[l] # None
      PROVE  EntryTrue(l)'
  <2>1. CASE l \in refs
    <3>1. /\ map'[l] = Floor!Entry(TRUE, mapJob.at[l], {}, None)
          /\ mapJob.at[l] \in Floor!MaybeFloors /\ mapJob.at[l] \in {None, Floor!Orig(l)}
      BY <1>2, <2>1, WrittenMap DEF Builds, BuildTrue, TruePlaces
    <3>2. /\ map'[l].known = TRUE /\ map'[l].at = mapJob.at[l] /\ map'[l].recovered = None
          /\ map'[l].cands = {}
      <4>1. KnownEntryIs(Floor!Entry(TRUE, mapJob.at[l], {}, None), mapJob.at[l])
        BY <3>1, KnownEntry
      <4> QED  BY <3>1, <4>1 DEF KnownEntryIs
    <3> QED  BY <1>1, <2>1, <3>1, <3>2 DEF EntryTrue
  <2>2. CASE l \notin refs
    <3>1. /\ l \in Floor!Missing /\ map'[l].known = FALSE
          /\ map'[l].at \in {None, Floor!Orig(l)}
          /\ map'[l].at = None => Floor!Orig(l) \in map'[l].cands
          /\ map'[l].cands = {} \/ Floor!Orig(l) \in map'[l].cands
          /\ map'[l].recovered \in {None, Floor!Orig(l)}
      BY <1>2, <1>7, <2>2, WrittenMap
    <3> QED  BY <1>1, <1>4, <3>1 DEF EntryTrue
  <2> QED  BY <2>1, <2>2
<1>8. MapTrue'
  BY <1>7 DEF MapTrue
<1> QED  BY <1>1, <1>6, <1>8 DEF FloorInv

LEMMA FailOK ==
  ASSUME FloorInv, Floor!Fail
  PROVE  FloorInv'
<1>1. mapStep' = "idle" /\ faults' = faults + 1 /\ UNCHANGED <<floor, refs, total, map>>
  BY DEF Floor!Fail, Floor!Goto, Floor!thread, Floor!archive, Floor!stored
<1>2. MapTyped /\ ThreadTrue /\ MapTrue /\ faults \in Nat
  BY DEF FloorInv, MapTyped
<1>3. MapTyped' /\ ThreadTrue' /\ MapTrue'
  BY <1>1, <1>2, MapRests
<1> QED  BY <1>1, <1>3 DEF FloorInv

LEMMA RecoveredFacts ==
  ASSUME MapTyped, MapTrue, NEW l \in Floor!AuthorLous, Floor!RecoverExactly(l)
  PROVE  /\ mapStep = "idle" /\ UNCHANGED <<floor, refs, total, built, mapStep, mapJob, faults>>
         /\ l \in Floor!Missing /\ map[l] # None /\ map[l] \in Floor!Entries /\ EntryTrue(l)
         /\ map[l].at = Floor!Orig(l) /\ map[l].recovered = None
         /\ map'[l] = [map[l] EXCEPT !.recovered = Floor!Orig(l)]
         /\ \A k \in Floor!AuthorLous : k # l => map'[k] = map[k]
         /\ map' \in [Floor!AuthorLous -> {None} \union Floor!Entries]
<1>1. /\ mapStep = "idle" /\ UNCHANGED <<floor, refs, total, built, mapStep, mapJob, faults>>
      /\ l \in Floor!Missing /\ map[l] # None /\ map[l].at # None /\ map[l].recovered = None
      /\ map' = [map EXCEPT ![l].recovered = map[l].at]
  BY DEF Floor!RecoverExactly, Floor!thread, Floor!archive
<1>2. /\ map \in [Floor!AuthorLous -> {None} \union Floor!Entries]
      /\ map[l] \in Floor!Entries /\ EntryTrue(l) /\ map[l].at = Floor!Orig(l)
  BY <1>1 DEF MapTyped, MapTrue, EntryTrue
<1>3. map' = [map EXCEPT ![l] = [map[l] EXCEPT !.recovered = Floor!Orig(l)]]
  BY <1>1, <1>2
<1>4. [map[l] EXCEPT !.recovered = Floor!Orig(l)] \in Floor!Entries
  BY <1>2, OrigIs DEF Floor!Entries, Floor!MaybeFloors
<1> QED  BY <1>1, <1>2, <1>3, <1>4

LEMMA RecoverOK ==
  ASSUME FloorInv, NEW l \in Floor!AuthorLous, Floor!RecoverExactly(l)
  PROVE  FloorInv'
<1>1. MapTyped /\ ThreadTrue /\ MapTrue
  BY DEF FloorInv
<1>2. /\ mapStep = "idle" /\ UNCHANGED <<floor, refs, total, built, mapStep, mapJob, faults>>
      /\ l \in Floor!Missing /\ map[l] # None /\ map[l] \in Floor!Entries /\ EntryTrue(l)
      /\ map[l].at = Floor!Orig(l) /\ map[l].recovered = None
      /\ map'[l] = [map[l] EXCEPT !.recovered = Floor!Orig(l)]
      /\ \A k \in Floor!AuthorLous : k # l => map'[k] = map[k]
      /\ map' \in [Floor!AuthorLous -> {None} \union Floor!Entries]
  BY <1>1, RecoveredFacts
<1>3. Floor!Missing' = Floor!Missing /\ Floor!Posted' = Floor!Posted
  BY <1>2 DEF Floor!Missing, Floor!Posted
<1>4. MapTyped' /\ ThreadTrue'
  BY <1>1, <1>2, <1>3 DEF MapTyped, ThreadTrue
<1>5. /\ map'[l].known = map[l].known /\ map'[l].at = map[l].at /\ map'[l].cands = map[l].cands
      /\ map'[l].recovered = Floor!Orig(l)
  BY <1>2 DEF Floor!Entries
<1>6. ~map[l].known
  BY <1>2 DEF Floor!Missing, EntryTrue
<1>7. EntryTrue(l)'
  BY <1>2, <1>3, <1>5, <1>6 DEF EntryTrue
<1>8. ASSUME NEW k \in Floor!AuthorLous, k # l, map'[k] # None
      PROVE  EntryTrue(k)'
  <2>1. map'[k] = map[k] /\ EntryTrue(k)
    BY <1>1, <1>2, <1>8 DEF MapTrue
  <2> QED  BY <1>2, <1>3, <2>1 DEF EntryTrue
<1>9. MapTrue'
  BY <1>7, <1>8 DEF MapTrue
<1> QED  BY <1>2, <1>4, <1>9 DEF FloorInv

LEMMA FirstMapOK ==
  ASSUME Floor!Init
  PROVE  FloorInv
<1>1. /\ floor = [o \in Floor!Floors |-> IF o = 0 THEN "named" ELSE "none"]
      /\ refs = {0} /\ total = 1 /\ map = [l \in Floor!AuthorLous |-> None]
      /\ mapStep = "idle" /\ faults = 0
  BY DEF Floor!Init
<1>2. 0 \in Floor!Floors /\ 0 \in Floor!AuthorLous /\ 0 \in Mine
  BY MapBounds
<1>3. MapTyped
  BY <1>1, <1>2 DEF MapTyped
<1>4. Floor!Posted = {0} /\ Cardinality(Floor!Posted) = 1
  <2>1. Floor!Posted = {0}
    BY <1>1, <1>2 DEF Floor!Posted
  <2> QED  BY <2>1, FS_Singleton
<1>5. Floor!Posted = 0..(Cardinality(Floor!Posted) - 1) /\ Mine \intersect Floor!Posted = {0}
  BY <1>2, <1>4
<1>6. total <= Cardinality(Mine \intersect Floor!Posted)
  BY <1>1, <1>4, <1>5
<1>7. Floor!Missing = {}
  <2>1. \A l \in Floor!AuthorLous : l \in Nat
    BY OrigIs
  <2> QED  BY <1>1, <2>1 DEF Floor!Missing
<1>8. ThreadTrue
  BY <1>1, <1>2, <1>5, <1>6, <1>7, OrigFirst DEF ThreadTrue
<1>9. MapTrue
  BY <1>1 DEF MapTrue
<1> QED  BY <1>1, <1>3, <1>8, <1>9 DEF FloorInv

(* Nothing but the floor map's own steps moves it.                           *)
LEMMA MapMoves ==
  ASSUME [PartsNext]_<<part, vars, mapVars>>
  PROVE  Floor!Next \/ UNCHANGED mapVars
BY DEF PartsNext, ProcessingMoves, FloorMapMoves

LEMMA MapRestsAll == FloorInv /\ UNCHANGED mapVars => FloorInv'
<1> SUFFICES ASSUME FloorInv, UNCHANGED mapVars PROVE FloorInv'
  OBVIOUS
<1>1. UNCHANGED <<floor, refs, total, map, built, mapStep, mapJob, changes, faults>>
  BY DEF mapVars
<1>2. Floor!Missing' = Floor!Missing /\ Floor!Posted' = Floor!Posted
  BY <1>1 DEF Floor!Missing, Floor!Posted
<1>3. MapTyped' /\ ThreadTrue' /\ MapTrue'
  BY <1>1, <1>2 DEF FloorInv, MapTyped, ThreadTrue, MapTrue, EntryTrue
<1>4. ASSUME mapStep' # "idle"
      PROVE  (BuildTrue(mapJob) /\ SteadyTrue(mapJob) /\ SearchTrue(mapJob))'
  <2>1. BuildTrue(mapJob) /\ SteadyTrue(mapJob) /\ SearchTrue(mapJob)
    BY <1>1, <1>4 DEF FloorInv
  <2>2. SteadyTrue(mapJob)'
    BY <1>1, <2>1 DEF SteadyTrue
  <2> QED  BY <1>1, <1>2, <2>1, <2>2, JobRests
<1> QED  BY <1>3, <1>4 DEF FloorInv

LEMMA FloorInvKept == FloorInv /\ [PartsNext]_<<part, vars, mapVars>> => FloorInv'
<1> SUFFICES ASSUME FloorInv, [PartsNext]_<<part, vars, mapVars>> PROVE FloorInv'
  OBVIOUS
<1>1. CASE UNCHANGED mapVars
  BY <1>1, MapRestsAll
<1>2. CASE Floor!Next
  <2>1. ASSUME NEW how \in {"named", "anon"}, Floor!Post(how) PROVE FloorInv'
    BY <2>1, PostOK
  <2>2. ASSUME NEW o \in Floor!Floors, Floor!Hide(o) \/ Floor!ShowAgain(o) PROVE FloorInv'
    BY <2>2, HideOK, ShowAgainOK
  <2>3. ASSUME Floor!Fetch PROVE FloorInv'
    BY <2>3, FetchOK
  <2>4. ASSUME Floor!Begin PROVE FloorInv'
    BY <2>4, BeginOK
  <2>5. ASSUME Floor!NothingPending \/ Floor!ScanTargets \/ Floor!ScanRange PROVE FloorInv'
    BY <2>5, NothingPendingOK, ScanTargetsOK, ScanRangeOK
  <2>6. ASSUME Floor!InferGap \/ Floor!Finish \/ Floor!Fail PROVE FloorInv'
    BY <2>6, InferGapOK, FinishOK, FailOK
  <2>7. ASSUME NEW l \in Floor!AuthorLous, Floor!RecoverExactly(l) PROVE FloorInv'
    BY <2>7, RecoverOK
  <2> QED  BY <1>2, <2>1, <2>2, <2>3, <2>4, <2>5, <2>6, <2>7 DEF Floor!Next
<1> QED  BY <1>1, <1>2, MapMoves

-----------------------------------------------------------------------------

(* The steps that change the map: a build that ends, and a post recovered.   *)
LEMMA MapChanges ==
  ASSUME Floor!Next, map' # map
  PROVE  Floor!Finish \/ \E l \in Floor!AuthorLous : Floor!RecoverExactly(l)
BY DEF Floor!Next, Floor!Post, Floor!Hide, Floor!ShowAgain, Floor!Fetch, Floor!Begin,
       Floor!NothingPending, Floor!ScanTargets, Floor!ScanRange, Floor!InferGap, Floor!Fail,
       Floor!stored

LEMMA EntryStays ==
  ASSUME FloorInv, Floor!Next, NEW l \in Floor!AuthorLous, map[l] # None, map[l].at # None
  PROVE  /\ map'[l] # None /\ map'[l].at = map[l].at
         /\ map[l].recovered # None => map'[l].recovered = map[l].recovered
<1>1. MapTyped /\ ThreadTrue /\ MapTrue /\ EntryTrue(l) /\ map[l] \in Floor!Entries
  BY DEF FloorInv, MapTyped, MapTrue
<1>2. map[l].at = Floor!Orig(l) /\ map[l].recovered \in {None, Floor!Orig(l)}
  BY <1>1 DEF EntryTrue
<1>3. CASE Floor!Finish
  <2>1. mapStep = "infer"
    BY <1>3 DEF Floor!Finish
  <2>2. mapJob \in Builds /\ BuildTrue(mapJob)
    BY <1>1, <2>1 DEF FloorInv, MapTyped
  <2>3. mapJob.at[l] = map[l].at /\ mapJob.recovered[l] = map[l].recovered
    BY <2>2 DEF BuildTrue
  <2>4. CASE map[l].known
    <3>1. l \in refs /\ map[l].recovered = None
      BY <1>1, <2>4 DEF EntryTrue
    <3>2. map'[l] = Floor!Entry(TRUE, mapJob.at[l], {}, None) /\ mapJob.at[l] \in Floor!MaybeFloors
      BY <1>1, <1>3, <2>2, <3>1, WrittenMap DEF Builds
    <3>3. KnownEntryIs(Floor!Entry(TRUE, mapJob.at[l], {}, None), mapJob.at[l])
      BY <3>2, KnownEntry
    <3> QED  BY <2>3, <3>1, <3>2, <3>3 DEF KnownEntryIs
  <2>5. CASE ~map[l].known
    <3>1. l \in Floor!Missing /\ l \notin refs
      BY <1>1, <2>5 DEF EntryTrue, Floor!Missing
    <3>2. map'[l].at = mapJob.at[l] /\ map'[l].recovered \in {mapJob.recovered[l], Floor!Orig(l)}
      BY <1>1, <1>3, <2>2, <2>3, <3>1, WrittenMap
    <3>3. map'[l] # None
      BY <1>1, <1>3, <2>2, <2>3, <3>1, WrittenMap
    <3> QED  BY <1>2, <2>3, <3>2, <3>3
  <2> QED  BY <2>4, <2>5
<1>4. ASSUME NEW k \in Floor!AuthorLous, Floor!RecoverExactly(k)
      PROVE  /\ map'[l] # None /\ map'[l].at = map[l].at
             /\ map[l].recovered # None => map'[l].recovered = map[l].recovered
  <2>1. /\ map'[k] = [map[k] EXCEPT !.recovered = Floor!Orig(k)] /\ map[k] \in Floor!Entries
        /\ map[k].recovered = None /\ map' \in [Floor!AuthorLous -> {None} \union Floor!Entries]
        /\ \A i \in Floor!AuthorLous : i # k => map'[i] = map[i]
    BY <1>1, <1>4, RecoveredFacts
  <2>2. CASE l = k
    <3>1. map'[l] \in Floor!Entries /\ map'[l].at = map[l].at
      BY <2>1, <2>2, OrigIs DEF Floor!Entries, Floor!MaybeFloors
    <3> QED  BY <2>1, <2>2, <3>1, MapBounds
  <2>3. CASE l # k
    BY <2>1, <2>3
  <2> QED  BY <2>2, <2>3
<1>5. CASE map' = map
  BY <1>5
<1> QED  BY <1>3, <1>4, <1>5, MapChanges

LEMMA BuildFinds ==
  ASSUME FloorInv, Floor!Next, mapStep = "infer", mapStep' = "idle", faults' = faults,
         mapJob.empty = {}, NEW l \in mapJob.steady, map'[l] # None
  PROVE  map'[l].at = Floor!Orig(l)
<1>1. /\ MapTyped /\ ThreadTrue /\ MapTrue /\ mapJob \in Builds /\ faults \in Nat
      /\ BuildTrue(mapJob) /\ SteadyTrue(mapJob) /\ AllFound(mapJob)
  BY DEF FloorInv, MapTyped, SearchTrue
<1>2. Floor!Finish
  <2>1. ~Floor!Fail
    BY <1>1 DEF Floor!Fail
  <2> QED  BY <2>1 DEF Floor!Next, Floor!Post, Floor!Hide, Floor!ShowAgain, Floor!Fetch,
              Floor!Begin, Floor!NothingPending, Floor!ScanTargets, Floor!ScanRange,
              Floor!InferGap, Floor!RecoverExactly
<1>3. l \in Floor!AuthorLous /\ l \in refs /\ mapJob.at[l] = Floor!Orig(l)
  BY <1>1 DEF MapTyped, SteadyTrue, AllFound, BuildTrue, TruePlaces
<1>4. map'[l] = Floor!Entry(TRUE, mapJob.at[l], {}, None) /\ mapJob.at[l] \in Floor!MaybeFloors
  BY <1>1, <1>2, <1>3, WrittenMap DEF Builds
<1>5. KnownEntryIs(Floor!Entry(TRUE, mapJob.at[l], {}, None), mapJob.at[l])
  BY <1>4, KnownEntry
<1> QED  BY <1>3, <1>4, <1>5 DEF KnownEntryIs

LEMMA MapRestsWith == UNCHANGED mapVars => UNCHANGED Floor!vars
BY DEF mapVars, Floor!vars, Floor!thread, Floor!archive, Floor!stored

(* What the map and a build know of the thread is true at every step: the    *)
(* inductive invariant (floor_map.py).                                       *)
THEOREM MapInvariance == PartsSpec => []FloorInv
<1>1. PartsInit => FloorInv
  BY FirstMapOK DEF PartsInit
<1> QED  BY <1>1, FloorInvKept, PTL DEF PartsSpec

(* Whatever is hidden, shown again or anonymous, and however builds fail or  *)
(* pages come empty: the map's places of missing floors are the true ones,   *)
(* their candidates include the true one, and what is recovered is the       *)
(* author's own (_infer_missing_original_lous, _finalize_floor_map).         *)
THEOREM MissingStayTrue == PartsSpec => []MissingAreTrue
<1>1. FloorInv => MissingAreTrue
  BY DEF FloorInv, MapTrue, EntryTrue, MissingAreTrue, Floor!MissingAreTrue
<1> QED  BY <1>1, MapInvariance, PTL

(* Places that have been located, and posts that have been recovered, are    *)
(* kept by every later build (_load_reusable_floor_map).                     *)
THEOREM LocatedAreKept == PartsSpec => LocatedStays
<1>1. FloorInv /\ [PartsNext]_<<part, vars, mapVars>> =>
        [\A l \in Floor!AuthorLous : map[l] # None /\ map[l].at # None =>
           /\ map'[l] # None /\ map'[l].at = map[l].at
           /\ map[l].recovered # None => map'[l].recovered = map[l].recovered]_Floor!vars
  BY MapMoves, MapRestsWith, EntryStays
<1> QED  BY <1>1, MapInvariance, PTL DEF PartsSpec, LocatedStays, Floor!LocatedStays

(* A build that ends without a page that came empty has located every floor  *)
(* that was there all the time, although it reads no page that the floors    *)
(* located before rule out (_PendingAuthorPageScanner).                      *)
THEOREM KnownFloorsAreFound == PartsSpec => KnownAreFound
<1>1. FloorInv /\ [PartsNext]_<<part, vars, mapVars>> =>
        [mapStep = "infer" /\ mapStep' = "idle" /\ faults' = faults /\ mapJob.empty = {} =>
           \A l \in mapJob.steady : map'[l] # None => map'[l].at = Floor!Orig(l)]_Floor!vars
  BY MapMoves, MapRestsWith, BuildFinds
<1> QED  BY <1>1, MapInvariance, PTL DEF PartsSpec, KnownAreFound, Floor!KnownAreFound
=============================================================================
