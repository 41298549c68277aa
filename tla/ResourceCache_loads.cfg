SPECIFICATION MCSpec
CONSTANTS
  Names = {n1}
  Owners = {own0}
  DefaultOwner = own0
  Threads = {t1, t2}
  Objects = {1, 2, 3, 4, 5}
  Contents = {c1}
  Bad = Bad
  NoFile = NoFile
  Nil = Nil
  NotCached = NotCached
  NotFound = NotFound
  Ops = {"async", "process", "dirty", "write"}
  Exacts = {TRUE, FALSE}
  Prefixed = {FALSE}
  Unloading = {TRUE}
  Toggling = TRUE
  Remounting = TRUE
  Allocate <- LowestFree
SYMMETRY Symmetry
VIEW View
INVARIANTS
  TypeOK
  NoStaleReturn
  CacheKeyed
  ResultIdentity
  NullMeansMissing
CHECK_DEADLOCK FALSE
