SPECIFICATION Spec
CONSTANTS
  zip = zip
  folder = folder
  p1 = p1
  p2 = p2
  f1 = f1
  f2 = f2
  data = data
  v1 = v1
  v2 = v2
  Archives = {zip, folder}
  Paths = {p1, p2}
  PathOf <- MCPathOf
  Folders = {folder}
  Files = {f1, f2}
  DirsOf <- MCDirsOf
  Versions = {v1, v2}
  NoVersion = NoVersion
  ValidVersions <- OneVersion
  Null = Null
  Absent = Absent
  Readers = {r1}
  Disks <- VersionedDisks
  MaxMounted = 2
  MaxEdits = 1
INVARIANTS
  Precedence
  MountedAreValid
  TypeOK
  NamesOutliveLookups
  NullMeansUnmounted
CHECK_DEADLOCK FALSE
