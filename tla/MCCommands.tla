------------------------------ MODULE MCCommands ------------------------------
(***************************************************************************)
(* A small instance of each of the parts of the commands that share no     *)
(* state: in a behaviour one of them moves and the others rest.            *)
(***************************************************************************)
EXTENDS ThreadBatch, AudioArchive, RetryTimes, SqliteGates, DownloadAttempt, PageStream,
        ViewerCache, PdfOutput, TLC

\* ThreadBatch, AudioArchive
CONSTANTS k1, k2, v, e1, e2, fa, fb, A, B, x, y

\* Two configs for one thread, whose folder the verifier and the edits want too.
MCFolder == <<fa, fb, fa>>
MCWork == [a \in {v, e1, e2} |-> fa]

\* Two archives that name one attachment by two addresses.
MCAttachment == [u \in Addresses |-> 1]
MCAudioIn == (A :> <<{x}, {x}>>) @@ (B :> <<{y}>>)

VARIABLE part  \* the part that moves

lower == <<gateVars, attemptVars, pageVars, viewerVars>>

CommandsInit ==
  /\ part \in {"batch", "audio", "retry", "pdf", "gates", "attempt", "stream", "viewer"}
  /\ BatchInit /\ AudioInit /\ RetryInit /\ PdfInit /\ GateInit
  /\ AttemptInit /\ PageInit /\ ViewerInit
  /\ part # "retry" => ticket = 0
  /\ part # "attempt" => target = NoFile

BatchMoves == UNCHANGED part /\ part = "batch" /\ BatchNext /\ UNCHANGED <<audioVars, retryVars, pdfVars, lower>>
AudioMoves == UNCHANGED part /\ part = "audio" /\ AudioNext /\ UNCHANGED <<batchVars, retryVars, pdfVars, lower>>
RetryMoves == UNCHANGED part /\ part = "retry" /\ RetryNext /\ UNCHANGED <<batchVars, audioVars, pdfVars, lower>>
PdfMoves == UNCHANGED part /\ part = "pdf" /\ PdfNext /\ UNCHANGED <<batchVars, audioVars, retryVars, lower>>
Upper == UNCHANGED <<batchVars, audioVars, retryVars, pdfVars>>
GatesMove ==
  UNCHANGED part /\ part = "gates" /\ GateNext /\ Upper /\ UNCHANGED <<attemptVars, pageVars, viewerVars>>
AttemptMoves ==
  UNCHANGED part /\ part = "attempt" /\ AttemptNext /\ Upper /\ UNCHANGED <<gateVars, pageVars, viewerVars>>
StreamMoves ==
  UNCHANGED part /\ part = "stream" /\ PageNext /\ Upper /\ UNCHANGED <<gateVars, attemptVars, viewerVars>>
ViewerMoves ==
  UNCHANGED part /\ part = "viewer" /\ ViewerNext /\ Upper /\ UNCHANGED <<gateVars, attemptVars, pageVars>>

CommandsNext ==
  \/ BatchMoves \/ AudioMoves \/ RetryMoves \/ PdfMoves
  \/ GatesMove \/ AttemptMoves \/ StreamMoves \/ ViewerMoves

CommandsSpec ==
  CommandsInit /\ [][CommandsNext]_<<part, batchVars, audioVars, retryVars, pdfVars, lower>>
=============================================================================
