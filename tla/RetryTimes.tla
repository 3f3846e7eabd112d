------------------------------ MODULE RetryTimes ------------------------------
(***************************************************************************)
(* The schedule of missing floors over time: backups come at irregular     *)
(* times, and each looks for the floors whose gap is due (RetrySchedule).  *)
(* Floors are posted one after the other; some are hidden from the view of *)
(* the author, and are missed once a later one is seen.                    *)
(***************************************************************************)
EXTENDS RetrySchedule

CONSTANTS MaxPosted,             \* bound: floors
          MaxNow,                \* bound: the clock
          Window, MaxInterval    \* the immediate window and the longest interval

ASSUME RetryAssumption ==
  /\ MaxPosted \in Nat /\ MaxNow \in Nat /\ Window \in Nat
  /\ MaxInterval \in Nat \ {0}

Posted == 0..(MaxPosted - 1)

VARIABLES
  now, ticket,  \* the clock; the ticket of the thread
  posted,       \* floor -> time of its post, or -1
  hidden,       \* the floors hidden from the author's view, and not yet found
  attempts,     \* pending_missing_floor_retries: floor -> time, or -1
  tried,        \* history: floor -> when it was last looked for, or -1
  justRan       \* history: the last step was a backup

retryVars == <<now, ticket, posted, hidden, attempts, tried, justRan>>

RetryInit ==
  /\ now = 0 /\ ticket \in Tickets
  /\ posted = [l \in Posted |-> -1] /\ hidden = {}
  /\ attempts = posted /\ tried = posted /\ justRan = FALSE

MissingNow == {l \in hidden : \E k \in Posted \ hidden : k > l /\ posted[k] # -1}

\* next_postdates_by_gap_end: the floor behind a gap is in the archive.
MissingSince(G) == posted[1 + CHOOSE l \in G : \A k \in G : k <= l]

Tick ==
  /\ now < MaxNow /\ now' = now + 1 /\ justRan' = FALSE
  /\ UNCHANGED <<ticket, posted, hidden, attempts, tried>>

Post(l, hides) ==
  /\ posted[l] = -1 /\ \A k \in 0..(l - 1) : posted[k] # -1
  /\ posted' = [posted EXCEPT ![l] = now]
  /\ hidden' = IF hides THEN hidden \union {l} ELSE hidden
  /\ justRan' = FALSE
  /\ UNCHANGED <<now, ticket, attempts, tried>>

\* A hidden floor comes back to the author's view.
Reveal(l) ==
  /\ l \in hidden /\ hidden' = hidden \ {l}
  /\ justRan' = FALSE
  /\ UNCHANGED <<now, ticket, posted, attempts, tried>>

\* Mutant: a floor put off counts as looked for.
AttemptsOfAll(unresolved, attempted) == AttemptsAfter(attempts, unresolved, unresolved, now)
NewAttempts(unresolved, attempted) == AttemptsAfter(attempts, unresolved, attempted, now)

Backup(force) ==
  LET missing == MissingNow
      due == UNION {G \in Gaps(missing) :
                 GapIsDue(G, attempts, MissingSince(G), now, ticket, Window, MaxInterval, force)}
  IN
  \E found \in SUBSET due :
    /\ hidden' = hidden \ found
    /\ attempts' = NewAttempts(missing \ found, due)
    /\ tried' = [l \in Posted |-> IF l \in found \/ l \notin missing THEN -1
                                  ELSE IF l \in due THEN now ELSE tried[l]]
    /\ justRan' = TRUE
    /\ UNCHANGED <<now, ticket, posted>>

RetryNext ==
  \/ Tick
  \/ \E l \in Posted : Reveal(l) \/ \E hides \in BOOLEAN : Post(l, hides)
  \/ \E force \in BOOLEAN : Backup(force)

RetrySpec == RetryInit /\ [][RetryNext]_retryVars

-----------------------------------------------------------------------------

\* After a backup, every floor that is still missing has been looked for within
\* the longest interval, however gaps fall apart and whatever the ticket; the
\* younger its gap, the sooner.
\* (select_missing_floor_retries, pending_missing_floor_retries_after_attempt,
\* missing_floor_retry.py; retry_schedule_decision_for_ticket, retry_schedule.py.)
NotPutOffForEver ==
  justRan => \A G \in Gaps(MissingNow) : \A l \in G :
    /\ tried[l] # -1
    /\ now - tried[l] < MaxInterval
    /\ tried[l] = now \/ now - tried[l] < now - MissingSince(G) - Window
=============================================================================
