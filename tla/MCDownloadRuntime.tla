------------------------- MODULE MCDownloadRuntime -------------------------
(* Small instances of DownloadRuntime.                                      *)
EXTENDS DownloadRuntime, TLC

CONSTANTS big, small

MCSize == (big :> 3) @@ (small :> 1)
MCLimit == (big :> 2) @@ (small :> 1)

\* Bound: close() begins after the small call has ended.
MCNext == Next /\ (closer' # closer => callState[small] = "ended")
MCSpec == Init /\ [][MCNext]_vars /\ Fairness
=============================================================================
