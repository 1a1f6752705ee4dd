\* Two runs, the first may be aborted by the encoder.
SPECIFICATION Spec
CONSTANTS
    num_slots = 2
    batch_size = 2
    frame_size = 2
    flush_size = 0
    pad_last_frame = TRUE
    Raises = {"encoder"}
    max_sessions = 2
    AudioLists <- MCAudioLists
PROPERTY
    SessionStartsClean
CHECK_DEADLOCK FALSE
