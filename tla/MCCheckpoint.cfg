\* Five steps and four starts when synchronous, three and three when not; an exit may
\* come before a batch is taken in the former.  Directories of up to three checkpoints,
\* every option.
SPECIFICATION DirectorySpec
CONSTANTS
  Trainings <- MCTrainings
  scores = {1, 2}
  NULL = NULL
  names = {a, b}
  steps = {1, 2}
  max_files = 3
INVARIANTS
  UnmarkedLastIsWhole
  NothingFinalizedIsLost
  SyncExitKeepsStep
  CleanAtStart
  OneListPerSave
  NeverSilentlyFromScratch
  UnfinishedNeverLoaded
  NewestLastChosen
  CompletedRunStays
PROPERTIES
  OnlyCopyKept
  EndingFinalizesAll
\* A training that is done, or is not started again, is over.
CHECK_DEADLOCK FALSE
