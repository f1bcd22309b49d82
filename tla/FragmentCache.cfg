SPECIFICATION Spec
CONSTANTS
  p1 = p1
  p2 = p2
  p3 = p3
  x = x
  a = a
  b = b
  None = None
  Procs = {p1, p2, p3}
  Overlays = {p2}
  VersionOf <- MCVersionOf
  Blobs = {x}
  Contexts = {a, b}
  Files <- MCFiles
  SourceSets <- MCSourceSets
  MaxFailures = 2
SYMMETRY SameVersion
INVARIANT FragmentsAreHonest
INVARIANT LinkedFactsAreOwn
INVARIANT RunLeavesCacheWarm
PROPERTY RewritesOnlyStale
