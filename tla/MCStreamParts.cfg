\* Files of 0..5 samples, frames of 2, two streams at a time.  Three streams share two
\* slots, in batches of one or two.  Two streams in any groups, with two auto-managed
\* configs and one of the user.
SPECIFICATION PartsSpec
CONSTANTS
    batch_size = 2
    frame_size = 2
    flush_size = 0
    pad_last_frame = TRUE
    AudioLists <- MCAudioLists
    Streams = {s1, s2, s3}
    num_slots = 2
    max_batch = 2
    max_open = 3
    NoStream = NoStream
    m1 = m1  m2 = m2  m3 = m3
    c1 = c1  c2 = c2  c3 = c3
    Models = {m1, m2, m3}
    states_of <- mc_states
    arcs_of <- mc_arcs
    extended_arcs_of <- mc_extended_arcs
    alpha_of <- mc_alpha
    INIT_NUM_MODELS = 1
    INIT_NUM_STATES = 2
    INIT_NUM_ARCS = 2
    BiasedSids = {b1, b2}
    Configs = {c1, c2, c3}
    model_of <- mc_model_of
    auto_managed = {c1, c2}
    max_group = 2
INVARIANTS
    NothingDropped
    QueueHoldsTheRest
    RowsPrivate
    FeaturesPrivate
    BiasedByOwn
    GraphsUseLiveBuffers
PROPERTIES
    FirstAndLastOnce
    BatchKeptFull
    GeneratorEnds
    EndedStreamsReleased
    RaisesOnlyOverLimit
    ImplementsSlotAllocation
    ImplementsReference
