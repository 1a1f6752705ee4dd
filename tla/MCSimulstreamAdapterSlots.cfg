\* Four streams of up to three chunks, two slots; the model does not raise.
SPECIFICATION Spec
CONSTANTS
    num_slots = 2
    Raises = {}
    max_streams = 3
    max_chunks = 3
INVARIANT
    SlotsOfOpenStreams
CHECK_DEADLOCK FALSE
