SPECIFICATION CommandsSpec
CONSTANTS
  None = None
  Nobody = Nobody
  k1 = k1
  k2 = k2
  v = v
  e1 = e1
  e2 = e2
  fa = fa
  fb = fb
  Commands = {k1, k2}
  Verifiers = {v}
  Edits = {e1, e2}
  Last = 3
  Folder <- MCFolder
  Work <- MCWork
  Workers = 2
  Viewer = Viewer
  Root = Root
  Nil = Nil
  A = A
  B = B
  x = x
  y = y
  Archives = {A, B}
  Addresses = {x, y}
  Attachment <- MCAttachment
  AudioIn <- MCAudioIn
  MaxAudioFaults = 1
  Scale = 4
  MaxPosted = 4
  MaxNow = 5
  Window = 1
  MaxInterval = 3
  Damaged = Damaged
  Cut = Cut
  MaxFloors = 2
  Texts = {"old", "new"}
  Sizes = {1, 2}
  PdfFaults = 2
  MaxTextEdits = 3
  Threads = {"t1", "t2", "t3", "t4"}
  WriteLimit = 1
  ReadLimit = 1
  BackupReadLimit = 2
  MaxDepth = 2
  RequestUrls = 2
  Statuses = {302, 404, 429, 503}
  RetryStatuses = {429, 500, 502, 503, 504}
  Retries = 2
  NoFile = NoFile
  LastPage = 4
  MaxCalls = 3
  Ahead = 2
  Requests = {"r1", "r2"}
  Files = {"configs", "archive", "images"}
  Early = {"configs"}
  Unseen = {"images"}
  MaxWrites = 1
  NoRequest = NoRequest
INVARIANTS
  FoldersAreSafe
  AudioIsCared
  NotPutOffForEver
  GatesHold
  AttemptsAreTrue
  PrefetchIsExact
  ServedIsCurrent
PROPERTIES
  PdfsAreCurrent
