\* Every configuration; three words, two spans, two pieces of audio on their way.
SPECIFICATION Spec
CONSTANTS
    Agents <- MCAgents
    Phrases <- MCPhrases
    Words = {"yeah", "know"}
    Speakers = {alice, bob}
    max_buffer_size = 2
    None = None
    max_words = 3
    max_spans = 2
    max_pending = 2
    max_bot_turns = 1
INVARIANTS
    NothingLostOrRepeated
    SpeechIsAnswered
    TurnsClosed
PROPERTY
    SpeakerOfTheTurn
SYMMETRY SpeakerSymmetry
CHECK_DEADLOCK FALSE
