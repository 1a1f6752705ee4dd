\* Directories of one checkpoint, every option.
SPECIFICATION ResumeSpec
CONSTANTS
  names = {a}
  steps = {1}
  max_files = 1
INVARIANT
  ResumeFromCheckpointOverrides
CHECK_DEADLOCK FALSE
