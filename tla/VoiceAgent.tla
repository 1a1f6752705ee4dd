----------------------------- MODULE VoiceAgent -----------------------------
(***************************************************************************)
(* Who speaks to NeMoTurnTakingService at once: the input transport's VAD, *)
(* the STT service, NemoDiarService with its background thread, the output *)
(* transport that tells when the bot speaks, and the reset of the          *)
(* conversation (voice_agent/pipecat, examples/voice_agent/server).  Each  *)
(* pushes frames when it has them; a frame is handled as a whole.          *)
(***************************************************************************)
EXTENDS TurnTaking

CONSTANTS
    max_words,    \* bound: words the STT hears
    max_spans,    \* bound: times the VAD hears the user start
    max_pending,  \* bound: audio waiting for the diarizer
    max_bot_turns \* bound: times the bot starts to speak

ASSUME AgentAssumption == {max_words, max_spans, max_pending, max_bot_turns} \subseteq Nat

VARIABLES
    vad_state,           \* the transport's VAD: TRUE while it hears the user
    span,                \* how often it began to
    speaker,             \* who speaks in this span
    diar_vad,            \* NemoDiarService._vad_user_speaking
    diar_speaker,        \* NemoDiarService._current_speaker_id
    pending,             \* audio in its queue, its thread and its response queue
    bot_talking,         \* the output transport plays the bot's audio
    bot_turns,
    known,               \* history: the diarizer found the speaker of this span
    cut                  \* history: text was pushed or dismissed since the VAD last
                         \* heard the user stop

diarVars == <<diar_vad, diar_speaker, pending>>
outsideVars == <<vad_state, span, speaker, bot_talking, bot_turns>>
vars == <<turnTakingVars, diarVars, outsideVars, known, cut>>

Init ==
    /\ TurnTakingInit
    /\ vad_state = FALSE /\ span = 0 /\ speaker = None
    /\ diar_vad = ~agent.use_vad /\ diar_speaker = None /\ pending = <<>>
    /\ bot_talking = FALSE /\ bot_turns = 0
    /\ known = FALSE /\ cut = FALSE

\* The text a step pushes or dismisses.
Cut == cut' = (cut \/ event'.as \in {"final", "dismissed"})

-----------------------------------------------------------------------------
\* BaseInputTransport._handle_vad tells of changes only; the diarizer drops the audio
\* it has gathered, then the frame comes to turn taking.
VadStarted ==
    /\ ~vad_state /\ span < max_spans
    /\ vad_state' = TRUE /\ span' = span + 1
    /\ \E s \in Speakers : speaker' = s
    /\ diar_vad' = TRUE
    /\ known' = FALSE
    /\ HandleVadStarted
    /\ UNCHANGED <<diar_speaker, pending, bot_talking, bot_turns, cut>>

\* mutant of VadStopped: the diarizer keeps the speaker it had
VadStoppedKeepsSpeaker ==
    /\ vad_state /\ vad_state' = FALSE
    /\ diar_vad' = FALSE
    /\ HandleVadStopped
    /\ known' = FALSE /\ cut' = FALSE
    /\ UNCHANGED <<diar_speaker, pending, span, speaker, bot_talking, bot_turns>>

VadStopped ==
    /\ vad_state /\ vad_state' = FALSE
    /\ diar_vad' = FALSE /\ diar_speaker' = None
    /\ HandleVadStopped
    /\ known' = FALSE /\ cut' = FALSE
    /\ UNCHANGED <<pending, span, speaker, bot_talking, bot_turns>>

\* The STT service hears a word, or one of its labels, whether or not the VAD does.
Transcription ==
    /\ \E word \in Words \cup {None}, label \in {"none", "EOU", "EOB"} :
          /\ word # None => received < max_words
          /\ HandleTranscription(word, label)
    /\ Cut
    /\ UNCHANGED <<diarVars, outsideVars, known>>

\* run_stt of NemoDiarService: enough audio has come to queue it.
QueueAudio ==
    /\ agent.use_diar /\ diar_vad
    /\ Len(pending) < max_pending
    /\ pending' = Append(pending, [speaker |-> speaker, span |-> span])
    /\ UNCHANGED <<turnTakingVars, diar_vad, diar_speaker, outsideVars, known, cut>>

\* A result comes back from the thread, in order; nobody may be loud enough, and a
\* speaker that is not new is not told again.
DiarResult ==
    /\ pending # <<>> /\ pending' = Tail(pending)
    /\ \E dominant \in {Head(pending).speaker, None} :
          /\ IF dominant # None /\ dominant # diar_speaker
             THEN diar_speaker' = dominant /\ HandleDiarResult(dominant)
             ELSE UNCHANGED <<diar_speaker, turnTakingVars>>
          /\ known' = (known \/ (dominant # None /\ vad_state /\ Head(pending).span = span))
    /\ UNCHANGED <<diar_vad, outsideVars, cut>>

BotStarted ==
    /\ ~bot_talking /\ bot_turns < max_bot_turns
    /\ bot_talking' = TRUE /\ bot_turns' = bot_turns + 1
    /\ HandleBotStarted
    /\ UNCHANGED <<diarVars, vad_state, span, speaker, known, cut>>

BotStopped ==
    /\ bot_talking /\ bot_talking' = FALSE
    /\ HandleBotStopped
    /\ UNCHANGED <<diarVars, vad_state, span, speaker, bot_turns, known, cut>>

\* bot_stop_delay passes after BotStoppedSpeaking.
BotStopDelay ==
    /\ _bot_stop_time = "recent"
    /\ _bot_stop_time' = "over"
    /\ event' = NoEvent
    /\ UNCHANGED <<agent, speakerVars, _bot_speaking, _vad_user_speaking, textVars, turnVars,
                   diarVars, outsideVars, known, cut>>

OtherFrame ==
    /\ HandleOther
    /\ UNCHANGED <<diarVars, outsideVars, known, cut>>

\* The client resets the conversation: reset_context_handler.
Reset ==
    /\ diar_vad' = FALSE /\ diar_speaker' = None
    /\ TurnTakingReset
    /\ known' = FALSE /\ cut' = TRUE
    /\ UNCHANGED <<pending, outsideVars>>

Next ==
    \/ VadStarted \/ VadStopped \/ Transcription \/ QueueAudio \/ DiarResult
    \/ BotStarted \/ BotStopped \/ BotStopDelay \/ OtherFrame \/ Reset

Spec == Init /\ [][Next]_vars

-----------------------------------------------------------------------------
\* Every word the STT heard is pushed or dismissed once, in the order it was heard, or
\* waits in the buffer, whichever branch it came through.
NothingLostOrRepeated ==
    handled \o Numbers(_user_speaking_buffer.words) = [i \in 1 .. received |-> i]

\* What the user says while the VAD hears it is answered: it does not outlast the turn
\* in the buffer, and it is dismissed only if all of it is a backchannel phrase or the
\* STT called it a backchannel.
SpeechIsAnswered ==
    /\ agent.use_vad /\ ~_vad_user_speaking => Live(_user_speaking_buffer.words) = {}
    /\ event.as = "dismissed" /\ Live(event.words) # {} =>
          event.labelled \/ is_backchannel(event.words)

\* The language model sees turns: text comes inside one, and none stays open once the
\* service takes the user for done, unless what the user said was dismissed.
TurnsClosed ==
    /\ event.as = "interim" => turn_open
    /\ _have_sent_user_started_speaking => turn_open
    /\ turn_open => _have_sent_user_started_speaking \/ turn_dismissed

\* The first final text of a span carries its speaker, when the diarizer found that
\* speaker in time and nothing was pushed or dismissed since the last span ended:
\* results of earlier spans that arrive late do not stand.
SpeakerOfTheTurn ==
    [][event'.as = "final" /\ known /\ ~cut => event'.tag = speaker]_vars

\* README.md: backchannel phrases "will not interrupt the bot while it's talking".
BackchannelNeverInterrupts ==
    [][event'.as \in {"interim", "final"} /\ event'.interrupts /\ bot_talking =>
          ~is_backchannel(event'.words)]_vars
=============================================================================
