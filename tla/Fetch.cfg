SPECIFICATION FairSpec
CONSTANTS
  MaxRedirects = 1
  MaxData = 2
  MaxChunks = 2
  FailingHops = {1, 2}
INVARIANTS
  ClientsSound
  BodySound
  UploadSound
PROPERTIES
  CompletionSettles
CHECK_DEADLOCK FALSE
