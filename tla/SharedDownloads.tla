--------------------------- MODULE SharedDownloads ---------------------------
(***************************************************************************)
(* What the threads of a backup promise each other about images, whatever  *)
(* the batching behind it: an attachment has one download at a time, a     *)
(* task is answered by a download of its own attachment, "ok" is answered  *)
(* only for an attachment that is in the index, and the index learns about *)
(* an attachment only while it is being downloaded, so that a retry never  *)
(* meets a late write.  ImageDownloadPipeline implements this.             *)
(***************************************************************************)
CONSTANTS Tasks, Keys, KeyOf, None

VARIABLES flight,  \* flight[k]: the task that is downloading k
          answer,  \* what each task was told
          known    \* the attachments the index has

sharedVars == <<flight, answer, known>>

Answers == {"ok", "failed", "error"}

SharedInit ==
  /\ flight = [k \in Keys |-> None]
  /\ answer = [t \in Tasks |-> "none"]
  /\ known = {}

Lead(t) ==
  /\ answer[t] = "none" /\ flight[KeyOf[t]] = None
  /\ flight' = [flight EXCEPT ![KeyOf[t]] = t]
  /\ UNCHANGED <<answer, known>>

Record(K) ==
  /\ \A k \in K : flight[k] # None
  /\ known' = known \union K
  /\ UNCHANGED <<flight, answer>>

Land(t, o) ==
  /\ flight[KeyOf[t]] = t /\ answer[t] = "none"
  /\ o = "ok" => KeyOf[t] \in known
  /\ flight' = [flight EXCEPT ![KeyOf[t]] = None]
  /\ answer' = [answer EXCEPT ![t] = o]
  /\ UNCHANGED known

Follow(t, o) ==
  /\ flight[KeyOf[t]] # t /\ answer[t] = "none"
  /\ \/ \E u \in Tasks : KeyOf[u] = KeyOf[t] /\ answer[u] = o
     \/ o = "ok" /\ KeyOf[t] \in known
  /\ answer' = [answer EXCEPT ![t] = o]
  /\ UNCHANGED <<flight, known>>

SharedNext ==
  \/ \E t \in Tasks : Lead(t)
  \/ \E t \in Tasks, o \in Answers : Land(t, o) \/ Follow(t, o)
  \/ \E K \in SUBSET Keys : Record(K)

SharedSpec == SharedInit /\ [][SharedNext]_sharedVars
=============================================================================
