---------------------------- MODULE RetrySchedule ----------------------------
(***************************************************************************)
(* When something that failed is tried again: nga_tools/core/              *)
(* retry_schedule.py, and its use for media (backup/media_retry.py) and    *)
(* for the missing floors of a thread (backup/missing_floor_retry.py).     *)
(*                                                                         *)
(* Times are whole numbers.  The probability (elapsed / interval)^3 is     *)
(* compared with a ticket, a fraction of Scale that stays the same until   *)
(* the next attempt, by multiplying out.                                   *)
(***************************************************************************)
EXTENDS Integers

CONSTANT Scale  \* the number of tickets

ASSUME ScaleAssumption == Scale \in Nat \ {0}

Tickets == 0..(Scale - 1)
Least(a, b) == IF a <= b THEN a ELSE b

\* retry_schedule_decision_for_ticket: last is -1 when nothing is recorded.
ShouldRun(ticket, last, now, interval) ==
  LET elapsed == now - last  progress == Least(IF elapsed < 0 THEN 0 ELSE elapsed, interval) IN
  \/ last = -1
  \/ elapsed >= interval
  \/ ticket * interval^3 < Scale * progress^3

\* uses_probabilistic_backoff: redirects and client errors but "too many requests".
UsesBackoff(failure) ==
  /\ failure.status # -1
  /\ \/ failure.kind = "http_3xx"
     \/ failure.kind = "http_4xx" /\ failure.status # 429

-----------------------------------------------------------------------------
(* Missing floors: a gap of consecutive floors is tried as a whole.        *)

\* consecutive_missing_floor_groups, as a set of sets.
Gaps(missing) ==
  {G \in SUBSET missing :
     \E a, b \in missing :
       G = a..b /\ a <= b /\ a - 1 \notin missing /\ b + 1 \notin missing}

\* The oldest attempt, when every floor of the gap has been tried.
LastAttempt(G, attempts) ==
  IF \A l \in G : attempts[l] # -1
  THEN CHOOSE t \in {attempts[l] : l \in G} : \A l \in G : t <= attempts[l]
  ELSE -1

\* select_missing_floor_retries for one gap, missing since `since`.
GapIsDue(G, attempts, since, now, ticket, window, interval, force) ==
  LET age == IF now < since THEN 0 ELSE now - since IN
  \/ force
  \/ age <= window
  \/ ShouldRun(ticket, LastAttempt(G, attempts), now, Least(age - window, interval))

\* pending_missing_floor_retries_after_attempt: -1 for a floor without entry.
AttemptsAfter(attempts, unresolved, attempted, now) ==
  [l \in DOMAIN attempts |->
    IF l \notin unresolved THEN -1
    ELSE IF l \in attempted THEN now ELSE attempts[l]]
=============================================================================
