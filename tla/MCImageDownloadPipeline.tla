----------------------- MODULE MCImageDownloadPipeline -----------------------
(***************************************************************************)
(* Small instances of ImageDownloadPipeline, with a history variable that  *)
(* records the order in which the download results of a pipeline arrived.  *)
(***************************************************************************)
EXTENDS ImageDownloadPipeline, TLC

CONSTANTS p1, p2, ka, kb, kc

\* Two threads whose posts show the same two attachments, one of them twice.
TwoNTasks == (p1 :> 3) @@ (p2 :> 2)
TwoKeyOf == (<<p1, 1>> :> ka) @@ (<<p1, 2>> :> kb) @@ (<<p1, 3>> :> ka)
            @@ (<<p2, 1>> :> kb) @@ (<<p2, 2>> :> ka)

\* One thread with distinct images, for the order and the limits; a second one
\* that shows one of them.
LongNTasks == (p1 :> 4) @@ (p2 :> 1)
LongKeyOf == (<<p1, 1>> :> ka) @@ (<<p1, 2>> :> kb) @@ (<<p1, 3>> :> kc)
             @@ (<<p1, 4>> :> ka) @@ (<<p2, 1>> :> ka)

\* Two threads that meet on both attachments in opposite orders.
SmallNTasks == (p1 :> 2) @@ (p2 :> 2)
SmallKeyOf == (<<p1, 1>> :> ka) @@ (<<p1, 2>> :> kb)
              @@ (<<p2, 1>> :> kb) @@ (<<p2, 2>> :> ka)

VARIABLE arrived

MCInit == Init /\ arrived = [p \in Pipelines |-> <<>>]
MCNext ==
  /\ Next
  /\ arrived' = [p \in Pipelines |->
       IF current[p] = None /\ current'[p] # None
       THEN Append(arrived[p], current'[p]) ELSE arrived[p]]
MCSpec == MCInit /\ [][MCNext]_<<vars, arrived>>
MCFairSpec == MCSpec /\ Fairness

\* The reports about tasks whose download p owns.
OwnReports(p) == {i \in 1..Len(emitted[p]) : waitsOn[emitted[p][i][1]] = None}
UpTo(p, i) == {j \in OwnReports(p) : j <= i}

\* The results of the downloads a pipeline owns are reported in the order in
\* which the downloads finished, whatever the stores and the writer do
\* (test_download_failure_flushes_earlier_successes_in_completion_order).
InOrder(p) ==
  \A i \in OwnReports(p) :
    LET n == Cardinality(UpTo(p, i))
    IN  n <= Len(arrived[p]) /\ emitted[p][i][1] = arrived[p][n]

\* Each task is reported once, truly, and in the order of the downloads.
ReportsAreExact == TypeOK /\ ReportedOnce /\ \A p \in Pipelines : InOrder(p)
=============================================================================
