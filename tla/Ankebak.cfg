SPECIFICATION FairSpec
CONSTANTS
  None = None
  Never = Never
  NThreads = 3
  Watched = {1}
  PageSize = 1
  PageCap = 3
  MaxPosts = 3
  MaxFaults = 2
INVARIANTS
  TypeOK
  SignatureIsArchived
PROPERTIES
  SkippedIsArchived
  PostsGetArchived
