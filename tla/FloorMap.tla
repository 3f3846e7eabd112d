------------------------------- MODULE FloorMap -------------------------------
(***************************************************************************)
(* Where the floors of the author's view are in the original thread:       *)
(* nga_tools/backup/floor_map.py.                                          *)
(*                                                                         *)
(* The author's view numbers the author's own posts.  It leaves out those  *)
(* that are hidden or anonymous, but not their numbers.  A build of the    *)
(* map locates the floors of the archive by their posts, reading pages of  *)
(* the original thread, and infers the missing ones from what is left      *)
(* over between their neighbours.                                          *)
(*                                                                         *)
(* A post of the author is anonymous from the start, and stays hidden once *)
(* it is hidden before the archive has it.  The archive is locked during   *)
(* a build, the thread goes on.                                            *)
(***************************************************************************)
EXTENDS Integers, FiniteSets, FiniteSetsExt

CONSTANTS LastLou,      \* bound: the thread's last original floor
          Mine,         \* the author's floors among 0 .. LastLou
          PerPage,      \* ORIGINAL_POSTS_PER_PAGE
          MaxChanges,   \* bound: posts hidden or shown again
          MaxFaults,    \* bound: builds that fail and pages that come empty
          None

Schedule == INSTANCE RetrySchedule WITH Scale <- 1

Floors == 0..LastLou
MaybeFloors == Floors \union {None}
Entries == [known : BOOLEAN, at : MaybeFloors, cands : SUBSET Floors, recovered : MaybeFloors]

FloorMapAssumption ==
  /\ LastLou \in Nat /\ PerPage \in Nat \ {0} /\ MaxChanges \in Nat /\ MaxFaults \in Nat
  /\ 0 \in Mine /\ Mine \subseteq Floors
  /\ None \notin Floors \union Entries

AuthorLou(o) == Cardinality({m \in Mine : m < o})
AuthorLous == 0..(Cardinality(Mine) - 1)
Orig(l) == CHOOSE o \in Mine : AuthorLou(o) = l

VARIABLES
  floor,    \* original floor -> "none", "named", "anon" or "hidden"
  refs,     \* the author's floors archived under his name
  total,    \* vrows of the author's view
  map,      \* the floor map: author floor -> entry or None
  built,    \* the input signature of the map
  pc, job,  \* a build and its locals
  changes, faults

thread == <<floor, changes>>
archive == <<refs, total>>
stored == <<map, built>>
vars == <<thread, archive, stored, pc, job, faults>>

Missing ==
  {l \in AuthorLous \ ({0} \union refs) : l < total \/ \E r \in refs : l < r}

\* An entry of a floor without pid has its place, or candidates, or neither;
\* recovered is the pid of the anonymous post found there (original_pid).
Entry(known, at, cands, recovered) ==
  [known |-> known, at |-> at, cands |-> cands, recovered |-> recovered]

NoJob == [missing |-> {}]

Init ==
  /\ floor = [o \in Floors |-> IF o = 0 THEN "named" ELSE "none"]
  /\ refs = {0} /\ total = 1
  /\ map = [l \in AuthorLous |-> None] /\ built = None
  /\ pc = "idle" /\ job = NoJob
  /\ changes = 0 /\ faults = 0

-----------------------------------------------------------------------------
(* The thread and the author's view.                                       *)

Posted == {o \in Floors : floor[o] # "none"}

Post(how) ==
  LET o == Cardinality(Posted) IN
  /\ o <= LastLou
  /\ floor' = [floor EXCEPT ![o] = how]
  /\ UNCHANGED <<changes, archive, stored, pc, job, faults>>

Hide(o) ==
  /\ changes < MaxChanges /\ changes' = changes + 1
  /\ o # 0 /\ floor[o] \in {"named", "anon"}
  /\ floor' = [floor EXCEPT ![o] = "hidden"]
  /\ job' = IF pc = "idle" \/ o \notin Mine THEN job
            ELSE [job EXCEPT !.steady = @ \ {AuthorLou(o)}]
  /\ UNCHANGED <<archive, stored, pc, faults>>

ShowAgain(o) ==
  /\ changes < MaxChanges /\ changes' = changes + 1
  /\ floor[o] = "hidden" /\ (o \in Mine => AuthorLou(o) \in refs)
  /\ floor' = [floor EXCEPT ![o] = "named"]
  /\ UNCHANGED <<archive, stored, pc, job, faults>>

Fetch ==
  /\ pc = "idle"
  /\ refs' = refs \union {l \in AuthorLous : floor[Orig(l)] = "named"}
  /\ total' = Cardinality(Mine \intersect Posted)
  /\ UNCHANGED <<thread, stored, pc, job, faults>>

-----------------------------------------------------------------------------
(* Pages.                                                                  *)

\* _original_page_for_lou
Page(o) == Max({1, (o \div PerPage) + 1})
PageCount == Page(Max(Posted))
Interval(a, b) == Page(a)..Page(b)

MappedIn(j) == {l \in AuthorLous : j.at[l] # None}
Pending(j) == {l \in refs : j.at[l] = None}

Before(S, l) == {k \in S : k < l}
After(S, l) == {k \in S : k > l}

\* Mutant: nothing is read past the page of the floor before.
PagesUpToPrevious(j, G) ==
  LET first == Before(MappedIn(j), Min(G)) IN
  (IF first = {} THEN 1 ELSE Page(j.at[Max(first)]))..
  (IF first = {} THEN PageCount ELSE Page(j.at[Max(first)]))
\* For neighbours that are to be located: from the floor before to the one after.
PagesOfChunk(j, G) ==
  LET first == Before(MappedIn(j), Min(G))  last == After(MappedIn(j), Max(G)) IN
  (IF first = {} THEN 1 ELSE Page(j.at[Max(first)]))..
  (IF last = {} THEN PageCount ELSE Page(j.at[Min(last)]))

PagesForPending(j) ==
  (1..PageCount) \intersect UNION {PagesOfChunk(j, G) : G \in Schedule!Gaps(Pending(j))}

\* _apply_original_page for the pages of P but those that come without posts.
Apply(j, P, empty, located) ==
  LET read == {o \in Floors : Page(o) \in P \ empty /\ floor[o] \in {"named", "anon"}} IN
  [j EXCEPT !.scanned = @ \union P,
            !.empty = @ \union empty,
            !.posts = [o \in Floors |-> IF o \in read THEN floor[o] ELSE @[o]],
            !.at = [l \in AuthorLous |-> IF l \in located /\ Orig(l) \in read
                                   THEN Orig(l) ELSE @[l]]]

\* The pages of P are read, and some of them may come without posts.
Scans(j, P, located) ==
  {Apply(j, P, empty, located) :
     empty \in {E \in SUBSET P : E = {} \/ faults < MaxFaults}}

-----------------------------------------------------------------------------
(* A build.                                                                *)

Goto(l) == pc' = l

\* load_floor_map_build_result_if_current, which is asked only when no floor is missing.
TakenAsIs == Missing = {} /\ built = <<refs, Missing>>

IsReused(l) ==
  map[l] # None /\ (IF l \in refs THEN map[l].known ELSE l \in Missing /\ ~map[l].known)
NoEntry == Entry(FALSE, None, {}, None)
\* Mutant: the map's recovered posts are forgotten.
ReusedWithoutPids ==
  [l \in AuthorLous |-> IF IsReused(l) THEN [map[l] EXCEPT !.recovered = None] ELSE NoEntry]
\* What is known of the floors that are still present, or still missing.
Reused == [l \in AuthorLous |-> IF IsReused(l) THEN map[l] ELSE NoEntry]

\* build_and_save_floor_map, up to the first request.
Begin ==
  /\ pc = "idle" /\ ~TakenAsIs
  /\ \E due \in SUBSET Schedule!Gaps(Missing) :
       LET old == Reused
           j == [missing |-> Missing, retry |-> UNION due,
                 at |-> [l \in AuthorLous |-> IF l = 0 /\ 0 \in refs THEN 0 ELSE old[l].at],
                 recovered |-> [l \in AuthorLous |-> old[l].recovered],
                 seen |-> ({old[l].at : l \in refs} \ {None}) \union {0},
                 old |-> [l \in AuthorLous |-> old[l].cands],
                 cands |-> [l \in AuthorLous |-> {}], exact |-> [l \in AuthorLous |-> None],
                 posts |-> [o \in Floors |-> None], scanned |-> {}, range |-> {},
                 left |-> {}, empty |-> {},
                 steady |-> {l \in refs : floor[Orig(l)] = "named"}]
       IN  job' = [j EXCEPT !.range = PagesForPending(j)]
  /\ Goto("pending")
  /\ UNCHANGED <<thread, archive, stored, faults>>

\* Requests that fail end the build; nothing of it is kept.
Fail ==
  /\ pc # "idle" /\ faults < MaxFaults /\ faults' = faults + 1
  /\ Goto("idle") /\ job' = NoJob
  /\ UNCHANGED <<thread, archive, stored>>

Count(j) == faults' = faults + IF j.empty = job.empty THEN 0 ELSE 1

\* All floors are located, or given up: what is missing is next.
ToInfer(j) ==
  /\ job' = [j EXCEPT !.left = {l \in j.missing : j.at[l] = None}]
  /\ Goto("infer")

NothingPending ==
  /\ pc = "pending" /\ Pending(job) = {}
  /\ ToInfer(job)
  /\ UNCHANGED <<thread, archive, stored, faults>>

\* _redirect_target_pages: every post asked for is there, on a page to be read.
Usable(asked) ==
  /\ \A l \in asked : floor[Orig(l)] # "hidden"
  /\ {Page(Orig(l)) : l \in asked} \subseteq job.range \ job.scanned

\* _scan_by_pid_targets: some floors are asked for by their posts, and the pages
\* they turn out to be on are read.  One that is not found there ends this.
ScanTargets ==
  /\ pc = "pending" /\ Pending(job) # {}
  /\ Cardinality(Pending(job)) < Cardinality(job.range) \/ job.scanned # {}
  /\ \E asked \in (SUBSET Pending(job)) \ {{}} :
       /\ Usable(asked)
       /\ \E j \in Scans(job, {Page(Orig(l)) : l \in asked}, Pending(job)) :
            /\ Count(j)
            /\ IF Pending(j) = {} THEN ToInfer(j)
               ELSE /\ job' = j
                    /\ Goto(IF asked \intersect Pending(j) = {} THEN "pending" ELSE "range")
  /\ UNCHANGED <<thread, archive, stored>>

\* _scan_range_fallback: too few pages to ask, a post that is nowhere or not
\* where it should be, a failed request, or asking costs more than reading.
ScanRange ==
  /\ pc \in {"pending", "range"} /\ Pending(job) # {}
  /\ \E j \in Scans(job, job.range \ job.scanned, Pending(job)) :
       Count(j) /\ ToInfer(j)
  /\ UNCHANGED <<thread, archive, stored>>

\* The floors missing between the same two located ones.
Gap(l) ==
  {k \in job.missing : /\ job.at[k] = None
                       /\ Before(MappedIn(job), k) = Before(MappedIn(job), l)}

Seen(j) == j.seen \union {o \in Floors : j.posts[o] # None}
\* What may be a missing floor between a and b: not seen, or anonymous.
Possible(j, a, b) ==
  {o \in (a + 1)..(b - 1) : o \notin Seen(j) \/ j.posts[o] = "anon"}

\* The element of S with n others below.
Nth(S, n) == CHOOSE x \in S : Cardinality(Before(S, x)) = n
\* Mutant: the last place that leaves room for the floors behind is left out.
ByPositionShort(G, S, l) ==
  {o \in S : /\ Cardinality(Before(S, o)) >= Cardinality(Before(G, l))
             /\ Cardinality(After(S, o)) > Cardinality(After(G, l))}
\* _possible_candidates_by_position
ByPosition(G, S, l) ==
  {o \in S : /\ Cardinality(Before(S, o)) >= Cardinality(Before(G, l))
             /\ Cardinality(After(S, o)) >= Cardinality(After(G, l))}

\* _infer_missing_original_lous, one gap: those with a floor to retry come first.
InferGap ==
  /\ pc = "infer" /\ job.left # {}
  /\ LET urgent == job.left \intersect job.retry
         l == IF urgent # {} THEN Min(urgent) ELSE Min(job.left)
         G == Gap(l)
         before == Before(MappedIn(job), l)  after == After(MappedIn(job), l)
         a == job.at[Max(before)]  b == job.at[Min(after)]
         pages == Interval(a, b) \ job.scanned
     IN  IF before = {} \/ after = {}
         THEN /\ job' = [job EXCEPT !.left = @ \ {l}, !.cands[l] = job.old[l]]
              /\ UNCHANGED faults
         ELSE IF pages # {} /\ G \intersect job.retry = {}
         THEN /\ job' = [job EXCEPT !.left = @ \ G,
                           !.cands = [k \in AuthorLous |-> IF k \in G THEN job.old[k] ELSE @[k]]]
              /\ UNCHANGED faults
         ELSE \E j \in Scans(job, pages, {}) :
                LET P == Possible(j, a, b)  same == Cardinality(P) = Cardinality(G) IN
                /\ job' = [j EXCEPT !.left = @ \ G,
                     !.exact = [k \in AuthorLous |-> IF same /\ k \in G
                                  THEN Nth(P, Cardinality(Before(G, k))) ELSE @[k]],
                     !.cands = [k \in AuthorLous |-> IF ~same /\ k \in G
                                  THEN ByPosition(G, P, k) ELSE @[k]]]
                /\ Count(j)
  /\ UNCHANGED <<thread, archive, stored, pc>>

\* _finalize_floor_map and _write_floor_map: the located missing floors that are
\* to be retried, or whose page has been read anyway, are looked at.
Finish ==
  /\ pc = "infer" /\ job.left = {}
  /\ LET at == [l \in AuthorLous |-> IF job.at[l] # None THEN job.at[l] ELSE job.exact[l]]
         exact == {l \in job.missing : at[l] # None}
         look == {l \in exact : l \in job.retry \/ Page(at[l]) \in job.scanned}
         pages == {Page(at[l]) : l \in look} \ job.scanned
     IN  \E j \in Scans(job, pages, {}) :
           /\ map' = [l \in AuthorLous |->
                CASE l \in refs -> Entry(TRUE, job.at[l], {}, None)
                  [] l \in exact ->
                       Entry(FALSE, at[l], {},
                             IF l \in look /\ j.posts[at[l]] = "anon" THEN at[l]
                             ELSE job.recovered[l])
                  [] l \notin refs \union exact /\ job.cands[l] # {} ->
                       Entry(FALSE, None, job.cands[l], None)
                  [] OTHER -> None]
           /\ Count(j)
  /\ built' = <<refs, job.missing>>
  /\ Goto("idle") /\ job' = NoJob
  /\ UNCHANGED <<thread, archive>>

\* recover_exact_missing_posts_from_original_pages, and the mark its caller sets.
RecoverExactly(l) ==
  /\ pc = "idle" /\ l \in Missing
  /\ map[l] # None /\ ~map[l].known /\ map[l].at # None /\ map[l].recovered = None
  /\ floor[map[l].at] = "anon"
  /\ map' = [map EXCEPT ![l].recovered = map[l].at]
  /\ UNCHANGED <<thread, archive, built, pc, job, faults>>

Next ==
  \/ \E how \in {"named", "anon"} : Post(how)
  \/ \E o \in Floors : Hide(o) \/ ShowAgain(o)
  \/ Fetch
  \/ Begin \/ NothingPending \/ ScanTargets \/ ScanRange \/ InferGap \/ Finish \/ Fail
  \/ \E l \in AuthorLous : RecoverExactly(l)

Spec == Init /\ [][Next]_vars

-----------------------------------------------------------------------------

\* An inferred place is the true one, candidates include the true one, and a
\* recovered post is the author's own: although other posts are hidden, shown
\* again or anonymous too, while and between builds, pages come empty, and what
\* one build infers the next ones take as given.
\* (_infer_missing_original_lous, _finalize_floor_map, floor_map.py.)
MissingAreTrue ==
  \A l \in AuthorLous : map[l] # None /\ ~map[l].known =>
    /\ map[l].at # None => map[l].at = Orig(l)
    /\ map[l].at = None => Orig(l) \in map[l].cands
    /\ map[l].recovered \in {None, Orig(l)}

\* A build that ends locates every archived floor whose post was there all the
\* time, unless a page came empty, whichever posts it asked for first, and
\* although it reads no page that the floors already located rule out.
\* (_PendingAuthorPageScanner, _pages_for_pending_author_lous, floor_map.py.)
KnownAreFound ==
  [][pc = "infer" /\ pc' = "idle" /\ faults' = faults /\ job.empty = {} =>
       \A l \in job.steady : map'[l] # None => map'[l].at = Orig(l)]_vars

\* What a build has located, and the post it has recovered, later builds keep.
\* (_load_reusable_floor_map, floor_map.py.)
LocatedStays ==
  [][\A l \in AuthorLous : map[l] # None /\ map[l].at # None =>
       /\ map'[l] # None /\ map'[l].at = map[l].at
       /\ map[l].recovered # None => map'[l].recovered = map[l].recovered]_vars

\* The map that a run takes over as it is locates every archived floor that can
\* be located.  "Refresh the backup with backup sub --force-processing" is the
\* advice of validate_floor_labels when one is not (floor_map.py), but a forced
\* run asks load_floor_map_build_result_if_current first, like any other.
TakenMapsAreFull ==
  pc = "idle" /\ TakenAsIs =>
    \A l \in refs : floor[Orig(l)] = "named" => map[l].at # None
=============================================================================
