SPECIFICATION Spec
CONSTANTS
  r1 = r1
  r2 = r2
  r3 = r3
  b1 = b1
  b2 = b2
  None = None
  Run <- MCRun
  Build <- MCBuild
  Size <- MCSize
SYMMETRY Runs
INVARIANTS TypeOK ResumesPrefix SettledWhole NeverMixed
PROPERTY CachedStays
