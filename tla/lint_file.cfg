SPECIFICATION Spec
CONSTANTS
  _NORMAL_TRIGGER = 1
  _TEST_TRIGGER = 2
  SMALL_CLASS = 2
  Profiles <- MCProfiles
  Disk <- MCDisk
INVARIANTS
  TypeOK
  CommentsCleared
  LongBodiesReported
  ReportsArePrinted
  StackIsNesting
  ClassesJudged
  SpacingsJudged
  IncludesJudged
  AlphasJudged
  MissingIsDetermined
  ElseBracesJudged
  SemicolonsJudged
PROPERTIES
  FileIsLinted
