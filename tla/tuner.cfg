SPECIFICATION FairSpec
CONSTANTS
  Runs = {r1, r2, r3}
  Configs = {c1, c2}
  Scores = {0, 1, 2}
  PARALLEL = 3
  None = None
INVARIANTS TypeOK BestIsOneCalls BestIsMaximum BestWasMeasured
PROPERTIES BestNeverDecreases TuningEnds
