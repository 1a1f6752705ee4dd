\* Epochs of three batches, two resumptions.
SPECIFICATION Spec
CONSTANTS
    Jobs <- MCJobs
    epoch_len = 3
    max_runs = 3
INVARIANTS
    LeaveTogether
    ProgressMatchesSteps
    PromptExit
PROPERTIES
    StopsAsOneJob
    StopsWhenAsked
\* A job that is done, or has left for good, is over.
CHECK_DEADLOCK FALSE
