\* The same without the automatic seeding.
SPECIFICATION MCSpec
CONSTANTS
  s1 = s1
  s2 = s2
  p1 = p1
  j1 = j1
  a = a
  b = b
  x = x
  r1 = r1
  r2 = r2
  m1 = m1
  m2 = m2
  i1 = i1
  role = role
  None = None
  Servers = {s1, s2}
  Seeders = {p1}
  Jobs = {j1}
  Ids <- MCIds
  Datasets <- MCDatasets
  Releases <- MCReleases
  AUTO_SEED = FALSE
  MAX_STARTS = 3
  MAX_RELEASES = 1
INVARIANTS SeededCatalogIsServed
CHECK_DEADLOCK FALSE
