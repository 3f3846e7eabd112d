--------------------------- MODULE DownloadAttempt ---------------------------
(***************************************************************************)
(* One file of a download: nga_tools/core/image_download_runtime.py, from  *)
(* the answers of the servers to the file on disk and to the failure that  *)
(* is reported; DownloadRuntime schedules such attempts.  The reported     *)
(* failure says how long the file is left alone (RetrySchedule).           *)
(*                                                                         *)
(* A body has its length declared, or its end marked: only a close of the  *)
(* connection could end an undeclared body short.                          *)
(***************************************************************************)
EXTENDS RetrySchedule, Sequences

CONSTANTS
  RequestUrls,    \* how many: 2 for the legacy host, with its alias; else 1
  Statuses,       \* the HTTP statuses of answers from 300 on
  RetryStatuses,
  Retries,
  NoFile

\* No redirect is asked again, and of the client errors only "too many requests".
ASSUME AttemptAssumption ==
  /\ RequestUrls \in Nat \ {0} /\ Retries \in Nat
  /\ \A s \in Statuses : s \in Nat /\ s >= 300
  /\ RetryStatuses \subseteq Nat /\ RetryStatuses \intersect (300..499) \subseteq {429}

VARIABLES
  target,    \* the file: NoFile, "old" or what was put there
  temp,      \* the temporary file, or NoFile
  stage,     \* "idle", "request", "body" or "replace"
  failures,  \* those of the attempt, one for each URL asked
  left,      \* retries left
  reported   \* the failure, or one of the kinds "stored", "unexpected", "nothing"

attemptVars == <<target, temp, stage, failures, left, reported>>

NoAnswer(kind) == [kind |-> kind, status |-> -1, retryable |-> TRUE]

AttemptInit ==
  /\ target \in {NoFile, "old"} /\ temp = NoFile
  /\ stage = "idle" /\ failures = <<>> /\ left = Retries /\ reported = NoAnswer("nothing")

-----------------------------------------------------------------------------

BadAnswer(s) ==
  [kind |-> IF s < 400 THEN "http_3xx" ELSE IF s < 500 THEN "http_4xx" ELSE "http_5xx",
   status |-> s, retryable |-> s \in RetryStatuses]

\* _attempt_failure_priority
Priority(f) ==
  IF f.status # -1 /\ f.retryable THEN 0
  ELSE IF f.kind = "payload" THEN 1
  ELSE IF f.status # -1 THEN 2 ELSE 3

\* Mutant: the last host's word counts.
CombinedLast(fs) == fs[Len(fs)]
\* _combine_attempt_failures: the first one of least priority.
Combined(fs) ==
  fs[CHOOSE i \in DOMAIN fs :
       \A k \in DOMAIN fs :
         /\ Priority(fs[i]) <= Priority(fs[k])
         /\ k < i => Priority(fs[i]) # Priority(fs[k])]

Start ==
  /\ stage = "idle" /\ reported.kind = "nothing"
  /\ stage' = "request"
  /\ UNCHANGED <<target, temp, failures, left, reported>>

\* The next URL is asked, or the failures are combined: and the file is tried again
\* later, or the failure is reported.
Fails(f) ==
  LET all == Append(failures, f) IN
  /\ temp' = NoFile
  /\ IF Len(all) < RequestUrls
     THEN stage' = "request" /\ failures' = all /\ UNCHANGED <<left, reported>>
     ELSE IF Combined(all).retryable /\ left > 0
     THEN stage' = "request" /\ failures' = <<>> /\ left' = left - 1 /\ UNCHANGED reported
     ELSE /\ stage' = "idle" /\ failures' = all /\ reported' = Combined(all)
          /\ UNCHANGED left
  /\ UNCHANGED target

Unreachable ==
  /\ stage = "request"
  /\ \E kind \in {"connection", "timeout"} : Fails(NoAnswer(kind))

Refused ==
  /\ stage = "request"
  /\ \E s \in Statuses : Fails(BadAnswer(s))

Headers ==
  /\ stage = "request"
  /\ stage' = "body" /\ temp' = "short"
  /\ UNCHANGED <<target, failures, left, reported>>

\* The connection is lost, the host falls silent, or the body ends before its length
\* or its mark ("payload").
BodyBreaks ==
  /\ stage = "body"
  /\ \E kind \in {"connection", "timeout", "payload"} : Fails(NoAnswer(kind))

\* Mutant: the number of bytes is not compared.
AnyLength(body) == TRUE
LengthIsRight(body) == body = "whole"

BodyEnds ==
  /\ stage = "body"
  /\ \E body \in {"whole", "short"} :
       IF LengthIsRight(body)
       THEN stage' = "replace" /\ temp' = body /\ UNCHANGED <<target, failures, left, reported>>
       ELSE Fails(NoAnswer("payload"))

Replace ==
  /\ stage = "replace"
  /\ target' = temp /\ temp' = NoFile
  /\ stage' = "idle" /\ reported' = NoAnswer("stored")
  /\ UNCHANGED <<failures, left>>

\* The disk or the shutdown of the runtime interferes: the temporary file goes.
Interrupted ==
  /\ stage # "idle"
  /\ stage' = "idle" /\ temp' = NoFile /\ reported' = NoAnswer("unexpected")
  /\ UNCHANGED <<target, failures, left>>

\* The process is killed.  Its temporary file stays on the disk, but it has a name
\* that does not come again, and is forgotten here.
Killed ==
  /\ stage # "idle"
  /\ stage' = "idle" /\ temp' = NoFile /\ failures' = <<>> /\ left' = Retries
  /\ UNCHANGED <<target, reported>>

\* A later run has the same file to download.
Again ==
  /\ reported.kind # "nothing"
  /\ reported' = NoAnswer("nothing") /\ failures' = <<>> /\ left' = Retries
  /\ UNCHANGED <<target, temp, stage>>

AttemptNext ==
  \/ Start \/ Unreachable \/ Refused \/ Headers \/ BodyBreaks \/ BodyEnds
  \/ Replace \/ Interrupted \/ Killed \/ Again

AttemptSpec == AttemptInit /\ [][AttemptNext]_attemptVars

-----------------------------------------------------------------------------

\* A file is left alone for long only if a host said that it is not there, after
\* every URL was asked, and no host was too busy to say or sent a body that came
\* short.  A host that falls silent, or with which the connection is lost, is as
\* good as unreachable, also when it had begun to send the file: the word of the
\* other host stands against it.  (_attempt_failure_priority,
\* _combine_attempt_failures, image_download_runtime.py; uses_probabilistic_backoff,
\* media_retry.py.)
GoneOnlyIfTold ==
  UsesBackoff(reported) =>
    /\ Len(failures) = RequestUrls
    /\ \E i \in DOMAIN failures : failures[i].status \in (300..499) \ RetryStatuses
    /\ \A i \in DOMAIN failures :
         failures[i].status \notin RetryStatuses /\ failures[i].kind # "payload"

\* The file is what it was, or whole; a file reported as stored is whole; and no
\* temporary file outlives an attempt that ends: whichever host fails at whichever point,
\* or is cut short.  (_download_single_url, image_download_runtime.py.)
FilesAreWhole ==
  /\ target \in {NoFile, "old", "whole"}
  /\ reported.kind = "stored" => target = "whole"
  /\ stage \in {"idle", "request"} => temp = NoFile

\* What an attempt reports, and what it leaves on the disk, is true.
AttemptsAreTrue == GoneOnlyIfTold /\ FilesAreWhole
=============================================================================
