\* Epochs of two batches, one resumption.
SPECIFICATION Spec
CONSTANTS
    Jobs <- TimerJob
    epoch_len = 2
    max_runs = 2
INVARIANT
    SavedProgressConsistent
CHECK_DEADLOCK FALSE
