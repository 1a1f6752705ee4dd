\* No diarization: three words are enough.
SPECIFICATION Spec
CONSTANTS
    Agents <- MCPhraseAgents
    Phrases <- MCPhrases
    Words = {"yeah", "know"}
    Speakers = {1}
    max_buffer_size = 2
    None = None
    max_words = 3
    max_spans = 1
    max_pending = 0
    max_bot_turns = 2
PROPERTY
    BackchannelNeverInterrupts
CHECK_DEADLOCK FALSE
