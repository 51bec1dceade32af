SPECIFICATION FairSpec
CONSTANTS
  m_size = 3
  m_size_back = 1
  m_fileSize = 5
  m_chunkSize = 2
  NearSeek = 2
  Targets = {0, 2, 4, 5, 6}
INVARIANTS
  CacheHoldsTheFile
  ClientSeesTheFile
  SourceContinuesTheCache
PROPERTIES
  BackBufferIsKept
  CallsReturn
CHECK_DEADLOCK FALSE
