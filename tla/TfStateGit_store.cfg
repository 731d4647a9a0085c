SPECIFICATION FairSpec
CONSTANTS
  w1 = w1
  w2 = w2
  qa = qa
  prod = prod
  nonprodLock = nonprodLock
  prodLock = prodLock
  githubLock = githubLock
  Writers = {w1, w2}
  Files = {qa, prod}
  Locks = {nonprodLock, prodLock, githubLock}
  LockOf <- PerEnvironment
  MaxAttempts = 3
  MaxBlobs = 2
INVARIANTS
  TypeOK
  Separation
  NoLostUpdate
  SuccessIsDurable
  RetriesAreExplained
PROPERTIES
  HistoryKept
  ImplementsStore
  LockReleased
