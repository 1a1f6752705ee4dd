\* Epochs of two batches, one run.
SPECIFICATION Spec
CONSTANTS
    Jobs <- BareJob
    epoch_len = 2
    max_runs = 1
PROPERTY
    SavesAndExits
CHECK_DEADLOCK FALSE
