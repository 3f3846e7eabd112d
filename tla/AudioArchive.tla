----------------------------- MODULE AudioArchive -----------------------------
(***************************************************************************)
(* The audio of archived posts.  maintain_archived_audio (nga_tools/       *)
(* backup/audio_pipeline.py) scans the post versions above a watermark,    *)
(* downloads what is not there, and commits the new watermark with the     *)
(* addresses to try again; download_audio_tasks (audio_store.py) shares a  *)
(* download between archives that are backed up at once.                   *)
(*                                                                         *)
(* An archive is worked on by one thread, under its lock.  The versions of *)
(* an archive only grow; several addresses (aliases) may name one          *)
(* attachment.  Which retries with a backoff are put off depends on the    *)
(* time (RetrySchedule): here any of them may be.                          *)
(***************************************************************************)
EXTENDS Naturals, Sequences

CONSTANTS Archives, Addresses,
          Attachment,   \* Attachment[u]: attachment_url_identity
          AudioIn,      \* AudioIn[a]: the addresses in each version, in order
          MaxAudioFaults,  \* bound: files lost, kills and failures of the index
          Nil

Attachments == {Attachment[u] : u \in Addresses}

ASSUME AudioAssumption ==
  /\ MaxAudioFaults \in Nat
  /\ AudioIn \in [Archives -> Seq(SUBSET Addresses)]
  /\ Nil \notin Archives /\ Nil \notin Addresses
  /\ Nil \notin {"ok", "now", "backoff", "error"}

VARIABLES
  versions,   \* versions in the archive, counted
  watermark,  \* processed_max_post_version_id, or Nil without a state
  pending,    \* pending_audio_retries: address -> "now", "backoff", or Nil
  row,        \* audio_mappings: "none", "good", or "lost" when the file is gone
  claims,     \* _AUDIO_CLAIMS: attachment -> archive whose thread owns it
  phase, top, \* where the run of an archive is; the newest version it has read
  deferred,   \* the retries that are not due, as in pending
  todo,       \* the addresses selected and not yet claimed
  own, shared, result,  \* owned addresses, awaited ones, and results by address
  audioFaults

runVars == <<phase, top, deferred, todo, own, shared, result>>
audioVars == <<versions, watermark, pending, row, claims, runVars, audioFaults>>

NoRetries == [u \in Addresses |-> Nil]
Set(f, x, v) == [f EXCEPT ![x] = v]
\* Addresses are handled in their order, the same for all archives.
First(us) == CHOOSE u \in us : TRUE
ToRetry(a) == {u \in Addresses : pending[a][u] # Nil}
\* audio_mappings_for_urls: a row of the address or of an alias, whose file is intact.
Mapped(u) == \E v \in Addresses : Attachment[v] = Attachment[u] /\ row[v] = "good"

AudioInit ==
  /\ versions = [a \in Archives |-> 0] /\ watermark = [a \in Archives |-> Nil]
  /\ pending = [a \in Archives |-> NoRetries] /\ row = [u \in Addresses |-> "none"]
  /\ claims = [i \in Attachments |-> Nil]
  /\ phase = [a \in Archives |-> "idle"]
  /\ top = [a \in Archives |-> 0] /\ deferred = [a \in Archives |-> NoRetries]
  /\ todo = [a \in Archives |-> {}] /\ own = [a \in Archives |-> {}]
  /\ shared = [a \in Archives |-> {}] /\ result = [a \in Archives |-> NoRetries]
  /\ audioFaults = 0

AudioAt(a, l) == phase' = Set(phase, a, l)

\* A run ends; its locals are gone.
Leave(a) ==
  /\ AudioAt(a, "idle") /\ top' = Set(top, a, 0)
  /\ deferred' = Set(deferred, a, NoRetries) /\ todo' = Set(todo, a, {})
  /\ own' = Set(own, a, {}) /\ shared' = Set(shared, a, {})
  /\ result' = Set(result, a, NoRetries)

-----------------------------------------------------------------------------
(* maintain_archived_audio, up to the downloads.                           *)

Needed(a) == ToRetry(a) # {} \/ watermark[a] # versions[a]

\* Read the newest version, scan the versions above the watermark, or all of
\* them, look up the addresses, and put off the retries that are not due.
BeginAudio(a, force) ==
  LET after == IF force \/ watermark[a] = Nil THEN 0 ELSE watermark[a]
      found == UNION {AudioIn[a][v] : v \in (after + 1)..versions[a]}
      kept == {u \in ToRetry(a) : ~Mapped(u)}
      waits == {u \in kept : ~force /\ pending[a][u] = "backoff"}
      new == {u \in found \ ToRetry(a) : ~Mapped(u)}
  IN
  /\ phase[a] = "idle" /\ (force \/ Needed(a))
  /\ top' = Set(top, a, versions[a])
  /\ \E late \in SUBSET waits :
       /\ deferred' = Set(deferred, a, [u \in Addresses |->
                        IF u \in late THEN pending[a][u] ELSE Nil])
       /\ todo' = Set(todo, a, new \union (kept \ late))
  /\ AudioAt(a, "lookup")
  /\ UNCHANGED <<versions, watermark, pending, row, claims, own, shared, result, audioFaults>>

-----------------------------------------------------------------------------
(* download_audio_tasks.                                                   *)

\* What is there by now is a success.
Lookup(a) ==
  LET there == {u \in todo[a] : Mapped(u)} IN
  /\ phase[a] = "lookup"
  /\ result' = Set(result, a, [u \in Addresses |-> IF u \in there THEN "ok" ELSE Nil])
  /\ todo' = Set(todo, a, todo[a] \ there)
  /\ AudioAt(a, "claim")
  /\ UNCHANGED <<versions, watermark, pending, row, claims, top, deferred, own, shared,
                 audioFaults>>

\* One address after the other: its attachment is free, or somebody has it.
Claim(a) ==
  /\ phase[a] = "claim"
  /\ IF todo[a] = {}
     THEN AudioAt(a, "download") /\ UNCHANGED <<claims, own, shared, todo>>
     ELSE LET u == First(todo[a]) IN
            /\ todo' = Set(todo, a, todo[a] \ {u})
            /\ IF claims[Attachment[u]] = Nil
               THEN /\ claims' = Set(claims, Attachment[u], a)
                    /\ own' = Set(own, a, own[a] \union {u}) /\ UNCHANGED shared
               ELSE shared' = Set(shared, a, shared[a] \union {u}) /\ UNCHANGED <<claims, own>>
            /\ UNCHANGED phase
  /\ UNCHANGED <<versions, watermark, pending, row, top, deferred, result, audioFaults>>

\* The downloads end, and the files are stored one by one; or it all raises.
\* A failure is one to try again at once, or one with a backoff.
Download(a) ==
  /\ phase[a] = "download"
  /\ \/ /\ \E out \in [own[a] -> {"ok", "now", "backoff"}] :
             result' = Set(result, a, [u \in Addresses |->
                         IF u \in own[a] THEN out[u] ELSE result[a][u]])
        /\ AudioAt(a, "upsert") /\ UNCHANGED audioFaults
     \/ /\ audioFaults < MaxAudioFaults /\ audioFaults' = audioFaults + 1
        /\ AudioAt(a, "unwind") /\ UNCHANGED result
  /\ UNCHANGED <<versions, watermark, pending, row, claims, top, deferred, todo, own,
                 shared>>

\* Mutant: files count as saved although their rows were not written.
AfterFailedUpsertOk(a) == result[a]
AfterFailedUpsert(a) ==
  [u \in Addresses |-> IF u \in own[a] /\ result[a][u] = "ok" THEN "now" ELSE result[a][u]]

\* All rows in one transaction; if it fails, nothing was saved.
Upsert(a) ==
  /\ phase[a] = "upsert"
  /\ \/ /\ row' = [u \in Addresses |->
             IF u \in own[a] /\ result[a][u] = "ok" THEN "good" ELSE row[u]]
        /\ UNCHANGED <<result, audioFaults>>
     \/ /\ audioFaults < MaxAudioFaults /\ audioFaults' = audioFaults + 1
        /\ result' = Set(result, a, AfterFailedUpsert(a)) /\ UNCHANGED row
  /\ AudioAt(a, "release")
  /\ UNCHANGED <<versions, watermark, pending, claims, top, deferred, todo, own, shared>>

\* Who waits for the claim of u gets the outcome o.
Answered(u, o) ==
  [b \in Archives |-> [v \in Addresses |->
    IF v \in shared[b] /\ result[b][v] = Nil /\ Attachment[v] = Attachment[u]
    THEN o ELSE result[b][v]]]

\* Mutant: a failed run forgets its claims.
UnwindNothing(a) == {}
ToUnwind(a) == own[a]

ReleaseOne(a, u, o) ==
  /\ claims' = Set(claims, Attachment[u], Nil)
  /\ result' = Answered(u, o) /\ own' = Set(own, a, own[a] \ {u})

Release(a) ==
  /\ phase[a] = "release"
  /\ IF own[a] = {}
     THEN AudioAt(a, "wait") /\ UNCHANGED <<claims, own, result>>
     ELSE ReleaseOne(a, First(own[a]), result[a][First(own[a])]) /\ UNCHANGED phase
  /\ UNCHANGED <<versions, watermark, pending, row, top, deferred, todo, shared,
                 audioFaults>>

\* The run raises: every claim is released with the error.
Unwind(a) ==
  /\ phase[a] = "unwind"
  /\ IF ToUnwind(a) = {}
     THEN Leave(a) /\ UNCHANGED claims
     ELSE /\ ReleaseOne(a, First(ToUnwind(a)), "error")
          /\ UNCHANGED <<phase, top, deferred, todo, shared>>
  /\ UNCHANGED <<versions, watermark, pending, row, audioFaults>>

\* Only now the results of others are waited for; an error of theirs raises here.
Wait(a) ==
  /\ phase[a] = "wait"
  /\ \/ (\E u \in shared[a] : result[a][u] = "error") /\ Leave(a)
     \/ /\ \A u \in shared[a] : result[a][u] \notin {Nil, "error"}
        /\ AudioAt(a, "commit")
        /\ UNCHANGED <<top, deferred, todo, own, shared, result>>
  /\ UNCHANGED <<versions, watermark, pending, row, claims, audioFaults>>

-----------------------------------------------------------------------------
(* commit_audio_processing_state.                                          *)

\* New versions came in since: nothing is written.
Commit(a) ==
  /\ phase[a] = "commit"
  /\ IF versions[a] = top[a]
     THEN AudioAt(a, "write") /\ UNCHANGED <<top, deferred, todo, own, shared, result>>
     ELSE Leave(a)
  /\ UNCHANGED <<versions, watermark, pending, row, claims, audioFaults>>

Failed(a) == {u \in Addresses : result[a][u] \in {"now", "backoff"}}

RetriesAfter(a) == [u \in Addresses |-> IF u \in Failed(a) THEN result[a][u] ELSE deferred[a][u]]

ReadVersion(a) == top[a]

\* One transaction for the watermark and the retries.
Write(a) ==
  /\ phase[a] = "write"
  /\ watermark' = Set(watermark, a, ReadVersion(a))
  /\ pending' = Set(pending, a, RetriesAfter(a))
  /\ Leave(a)
  /\ UNCHANGED <<versions, row, claims, audioFaults>>

-----------------------------------------------------------------------------
(* Around the runs.                                                        *)

\* Another process stores a version.
Insert(a) ==
  /\ versions[a] < Len(AudioIn[a])
  /\ versions' = Set(versions, a, versions[a] + 1)
  /\ UNCHANGED <<watermark, pending, row, claims, runVars, audioFaults>>

\* The file of an attachment is lost or damaged: no row that names it counts.
Lose(i) ==
  /\ audioFaults < MaxAudioFaults /\ audioFaults' = audioFaults + 1
  /\ \E u \in Addresses : Attachment[u] = i /\ row[u] = "good"
  /\ row' = [u \in Addresses |->
       IF Attachment[u] = i /\ row[u] = "good" THEN "lost" ELSE row[u]]
  /\ UNCHANGED <<versions, watermark, pending, claims, runVars>>

\* The process is killed: claims and runs are gone.
Kill ==
  /\ audioFaults < MaxAudioFaults /\ audioFaults' = audioFaults + 1
  /\ \E a \in Archives : phase[a] # "idle"
  /\ claims' = [i \in Attachments |-> Nil]
  /\ phase' = [a \in Archives |-> "idle"]
  /\ top' = [a \in Archives |-> 0] /\ deferred' = [a \in Archives |-> NoRetries]
  /\ todo' = [a \in Archives |-> {}] /\ own' = [a \in Archives |-> {}]
  /\ shared' = [a \in Archives |-> {}] /\ result' = [a \in Archives |-> NoRetries]
  /\ UNCHANGED <<versions, watermark, pending, row>>

Step(a) ==
  \/ Lookup(a) \/ Claim(a) \/ Download(a) \/ Upsert(a) \/ Release(a)
  \/ Unwind(a) \/ Wait(a) \/ Commit(a) \/ Write(a)

AudioNext ==
  \/ \E a \in Archives : Step(a) \/ Insert(a) \/ (\E f \in BOOLEAN : BeginAudio(a, f))
  \/ \E i \in Attachments : Lose(i)
  \/ Kill

AudioSpec == AudioInit /\ [][AudioNext]_audioVars

-----------------------------------------------------------------------------

AudioTypeOK ==
  /\ \A a \in Archives :
       /\ versions[a] \in 0..Len(AudioIn[a]) /\ top[a] <= versions[a]
       /\ pending[a] \in [Addresses -> {Nil, "now", "backoff"}]
       /\ deferred[a] \in [Addresses -> {Nil, "backoff"}]
       /\ own[a] \intersect shared[a] = {} /\ todo[a] \intersect (own[a] \union shared[a]) = {}
  /\ row \in [Addresses -> {"none", "good", "lost"}]

\* Every address in a version up to the watermark has been saved, under its own
\* name or an alias, or waits for a retry: no post is passed over because a
\* download failed, was shared, or because versions came in during the run.
\* (maintain_archived_audio, audio_pipeline.py.)
AudioAccounted ==
  \A a \in Archives : watermark[a] # Nil =>
    \A v \in 1..watermark[a] : \A u \in AudioIn[a][v] :
      \/ pending[a][u] # Nil
      \/ \E w \in Addresses : Attachment[w] = Attachment[u] /\ row[w] # "none"

\* A claim is held by a run that has yet to release it, a run that waits for
\* others holds none, and whoever waits for a result has a claim that will be
\* released: so no run waits for ever, whichever download, row or run fails.
\* (download_audio_tasks, audio_store.py.)
WaitersAreServed ==
  /\ \A i \in Attachments : claims[i] # Nil =>
       /\ \E u \in own[claims[i]] : Attachment[u] = i
       /\ phase[claims[i]] \notin {"idle", "wait", "commit", "write"}
  /\ \A a \in Archives : \A u \in shared[a] :
       result[a][u] = Nil => claims[Attachment[u]] # Nil

\* Nothing of an archive's audio is passed over, and nobody waits in vain for it.
AudioIsCared == AudioTypeOK /\ AudioAccounted /\ WaitersAreServed
=============================================================================
