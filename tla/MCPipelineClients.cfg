\* Two runs one after the other, each may be aborted by the model; or four streams of
\* up to three chunks through the adapter.
SPECIFICATION ClientsSpec
CONSTANTS
    num_slots = 2
    batch_size = 2
    frame_size = 2
    flush_size = 0
    pad_last_frame = TRUE
    Raises = {"preprocess", "encoder"}
    max_sessions = 2
    AudioLists <- MCAudioLists
    max_streams = 3
    max_chunks = 3
INVARIANTS
    EncoderSeesOwnAudio
    TablesAgree
    NothingLostOrRepeated
    AdapterTranscribesAll
PROPERTIES
    RunReturnsEveryText
    AlwaysASlot
    RunEnds
CHECK_DEADLOCK FALSE
