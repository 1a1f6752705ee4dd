----------------------------- MODULE TurnTaking -----------------------------
(***************************************************************************)
(* NeMoTurnTakingService (voice_agent/pipecat/services/nemo/turn_taking.py) *)
(* one handler after another: it gathers what the STT service hears, and   *)
(* either pushes it to the language model as the text of a user's turn,    *)
(* which interrupts the bot, or dismisses it as a backchannel.             *)
(*                                                                         *)
(* Text is a sequence of numbered words, the first of the STT is 1; a word *)
(* is live if it came while the VAD heard the user.  Handlers are actions  *)
(* of the module that composes this one with its neighbours.               *)
(***************************************************************************)
EXTENDS Naturals, Sequences

CONSTANTS
    Agents,           \* configurations: [use_vad, use_diar, backchannel_phrases]
    Phrases,          \* the backchannel phrases, as sequences of words
    Words,            \* what a word may be
    Speakers,
    max_buffer_size,  \* completed words that interrupt the bot
    None

ASSUME TurnTakingAssumption ==
    /\ Agents \subseteq [use_vad : BOOLEAN, use_diar : BOOLEAN, backchannel_phrases : BOOLEAN]
    /\ Phrases \subseteq Seq(Words) /\ max_buffer_size \in Nat /\ None \notin Speakers

VARIABLES
    agent,
    _current_speaker_id, _prev_speaker_id,
    _bot_stop_time,          \* "none" | "recent" | "over": more than bot_stop_delay ago
    _bot_speaking, _vad_user_speaking, _have_sent_user_started_speaking,
    _user_speaking_buffer,   \* [tag, words]
    received,                \* words received so far
    handled,                 \* history: words pushed or dismissed, in order
    turn_open,               \* history: UserStarted was pushed last, not UserStopped
    turn_dismissed,          \* history: something was dismissed in the open turn
    event                    \* history: what the last step did with text

speakerVars == <<_current_speaker_id, _prev_speaker_id>>
botVars == <<_bot_stop_time, _bot_speaking>>
textVars == <<_user_speaking_buffer, received, handled>>
turnVars == <<_have_sent_user_started_speaking, turn_open, turn_dismissed>>
turnTakingVars == <<agent, speakerVars, botVars, _vad_user_speaking, textVars, turnVars, event>>

NoEvent == [as |-> "none", words |-> <<>>, tag |-> None, labelled |-> FALSE, interrupts |-> FALSE]
EmptyBuffer == [tag |-> None, words |-> <<>>]

Spoken(words) == [i \in DOMAIN words |-> words[i].word]
Numbers(words) == [i \in DOMAIN words |-> words[i].n]
Live(words) == {i \in DOMAIN words : words[i].live}

is_backchannel(words) == agent.backchannel_phrases /\ Spoken(words) \in Phrases

\* __init__ and reset
Cleared ==
    /\ _current_speaker_id' = None /\ _prev_speaker_id' = None
    /\ _bot_stop_time' = "none" /\ _bot_speaking' = FALSE
    /\ _vad_user_speaking' = ~agent.use_vad
    /\ _have_sent_user_started_speaking' = FALSE
    /\ _user_speaking_buffer' = EmptyBuffer

TurnTakingInit ==
    /\ agent \in Agents
    /\ _current_speaker_id = None /\ _prev_speaker_id = None
    /\ _bot_stop_time = "none" /\ _bot_speaking = FALSE
    /\ _vad_user_speaking = ~agent.use_vad
    /\ _have_sent_user_started_speaking = FALSE
    /\ _user_speaking_buffer = EmptyBuffer
    /\ received = 0 /\ handled = <<>>
    /\ turn_open = FALSE /\ turn_dismissed = FALSE /\ event = NoEvent

\* reset; what the buffer held is not the conversation's any more.
TurnTakingReset ==
    /\ Cleared
    /\ handled' = handled \o Numbers(_user_speaking_buffer.words)
    /\ turn_open' = FALSE /\ turn_dismissed' = FALSE /\ event' = NoEvent
    /\ UNCHANGED <<agent, received>>

-----------------------------------------------------------------------------
(* Before any frame is handled: has the bot stopped for long enough?       *)
BotSpeaking == _bot_speaking /\ _bot_stop_time # "over"

CheckBotStop ==
    /\ _bot_speaking' = BotSpeaking
    /\ _bot_stop_time' = IF _bot_stop_time = "over" THEN "none" ELSE _bot_stop_time

-----------------------------------------------------------------------------
(* What is done with text.                                                 *)
Flushed == _user_speaking_buffer' = EmptyBuffer

\* _handle_completed_text: UserStarted and the interruption if they were not sent
\* yet, then the text; without a tag it gets the previous speaker's.
Text(as, words) ==
    LET tag == _user_speaking_buffer.tag
    IN  [as |-> as, words |-> words, labelled |-> FALSE,
         tag |-> IF agent.use_diar /\ tag = None THEN _prev_speaker_id ELSE tag,
         interrupts |-> ~_have_sent_user_started_speaking]

\* mutant of HandleFinal: the turn is not ended
HandleFinalOpen(words) ==
    /\ event' = Text("final", words)
    /\ handled' = handled \o Numbers(words)
    /\ Flushed
    /\ _have_sent_user_started_speaking' = FALSE /\ turn_open' = TRUE
    /\ turn_dismissed' = FALSE

\* The text is final: it is pushed, then UserStopped.
HandleFinal(words) ==
    /\ event' = Text("final", words)
    /\ handled' = handled \o Numbers(words)
    /\ Flushed
    /\ _have_sent_user_started_speaking' = FALSE /\ turn_open' = FALSE
    /\ turn_dismissed' = FALSE

HandleInterim(words) ==
    /\ event' = Text("interim", words)
    /\ _user_speaking_buffer' = [_user_speaking_buffer EXCEPT !.words = words]
    /\ _have_sent_user_started_speaking' = TRUE /\ turn_open' = TRUE
    /\ turn_dismissed' = (turn_dismissed /\ _have_sent_user_started_speaking)
    /\ UNCHANGED handled

\* The text is pushed upstream or dropped; labelled: the STT called it a backchannel.
Dismiss(words, labelled) ==
    /\ event' = [NoEvent EXCEPT !.as = "dismissed", !.words = words, !.labelled = labelled]
    /\ handled' = handled \o Numbers(words)
    /\ Flushed
    /\ turn_dismissed' = turn_open
    /\ UNCHANGED turn_open

\* The user is done, as far as the service knows.
ForgetTurn == _have_sent_user_started_speaking' = FALSE

KeepText(words) ==
    /\ _user_speaking_buffer' = [_user_speaking_buffer EXCEPT !.words = words]
    /\ event' = NoEvent
    /\ UNCHANGED <<handled, turnVars>>

-----------------------------------------------------------------------------
(* _handle_transcription of a segment: at most one word, and the label the *)
(* STT model may append: "EOU" for <EOU>, "EOB" for <EOB>, or none.  The   *)
(* branch depends on whether the VAD hears the user.                       *)
Append1(word, live) ==
    IF word = None THEN _user_speaking_buffer.words
    ELSE Append(_user_speaking_buffer.words, [n |-> received + 1, word |-> word, live |-> live])

\* A speaker tag counts as a word; the last word is taken for incomplete.
CompletedWords(words) ==
    (IF _user_speaking_buffer.tag = None THEN 0 ELSE 1) + Len(words)

HandleLive(word, label) ==
    LET words == Append1(word, TRUE)
    IN  \/ /\ label = "EOU" /\ BotSpeaking /\ is_backchannel(words)
           /\ Dismiss(words, FALSE) /\ ForgetTurn
        \/ /\ label = "EOU" /\ ~(BotSpeaking /\ is_backchannel(words))
           /\ HandleFinal(words)
        \/ /\ label = "EOB" /\ BotSpeaking
           /\ Dismiss(words, TRUE) /\ ForgetTurn
        \/ /\ label = "none" \/ (label = "EOB" /\ ~BotSpeaking)
           /\ IF CompletedWords(words) > max_buffer_size
              THEN HandleInterim(words) ELSE KeepText(words)

\* mutant of HandleLate: a late backchannel leaves the buffer as it was
HandleLateKeeps(word, label) ==
    LET words == Append1(word, FALSE)
        segment == <<[n |-> received + 1, word |-> word, live |-> FALSE]>>
        backchannel == label = "EOB" \/ is_backchannel(segment)
    IN  \/ /\ word = None /\ KeepText(words)
        \/ /\ word # None /\ backchannel /\ BotSpeaking
           /\ event' = [NoEvent EXCEPT !.as = "dismissed", !.words = words]
           /\ handled' = handled \o Numbers(words)
           /\ UNCHANGED <<_user_speaking_buffer, turnVars>>
        \/ /\ word # None /\ ~(backchannel /\ BotSpeaking)
           /\ KeepText(words)

HandleLate(word, label) ==
    LET words == Append1(word, FALSE)
        segment == <<[n |-> received + 1, word |-> word, live |-> FALSE]>>
        backchannel == label = "EOB" \/ is_backchannel(segment)
    IN  \/ /\ word = None /\ KeepText(words)
        \/ /\ word # None /\ backchannel /\ BotSpeaking
           /\ Dismiss(words, label = "EOB")
           /\ UNCHANGED _have_sent_user_started_speaking
        \/ /\ word # None /\ ~(backchannel /\ BotSpeaking)
           /\ IF is_backchannel(words)
              THEN Dismiss(words, FALSE) /\ ForgetTurn
              ELSE KeepText(words)

HandleTranscription(word, label) ==
    /\ word # None \/ label # "none"
    /\ CheckBotStop
    /\ IF _vad_user_speaking THEN HandleLive(word, label) ELSE HandleLate(word, label)
    /\ received' = IF word = None THEN received ELSE received + 1
    /\ UNCHANGED <<agent, speakerVars, _vad_user_speaking>>

-----------------------------------------------------------------------------
\* _handle_vad_user_started_speaking: without backchannel phrases the bot is
\* interrupted at once.
HandleVadStarted ==
    /\ CheckBotStop
    /\ _vad_user_speaking' = TRUE
    /\ IF ~agent.backchannel_phrases /\ ~_have_sent_user_started_speaking
       THEN /\ _have_sent_user_started_speaking' = TRUE /\ turn_open' = TRUE
            /\ turn_dismissed' = FALSE
       ELSE UNCHANGED turnVars
    /\ event' = NoEvent
    /\ UNCHANGED <<agent, speakerVars, textVars>>

\* mutant of HandleVadStopped: a backchannel waits for more
HandleVadStoppedWaits ==
    LET words == _user_speaking_buffer.words
    IN  /\ CheckBotStop
        /\ _vad_user_speaking' = ~agent.use_vad
        /\ IF words = <<>> \/ (BotSpeaking /\ is_backchannel(words))
           THEN event' = NoEvent /\ UNCHANGED <<_user_speaking_buffer, handled, turnVars>>
           ELSE HandleFinal(words)
        /\ UNCHANGED <<agent, speakerVars, received>>

\* _handle_vad_user_stopped_speaking: an empty buffer, and one of a speaker tag alone,
\* stays, and so does the flag.
HandleVadStopped ==
    LET words == _user_speaking_buffer.words
    IN  /\ CheckBotStop
        /\ _vad_user_speaking' = IF agent.use_vad THEN FALSE ELSE _vad_user_speaking
        /\ \/ /\ words = <<>>
              /\ event' = NoEvent /\ UNCHANGED <<_user_speaking_buffer, handled, turnVars>>
           \/ /\ words # <<>> /\ ~(BotSpeaking /\ is_backchannel(words))
              /\ HandleFinal(words)
           \/ /\ words # <<>> /\ BotSpeaking /\ is_backchannel(words)
              /\ Dismiss(words, FALSE) /\ ForgetTurn
        /\ UNCHANGED <<agent, speakerVars, received>>

\* A result that tags the buffer, or changes its tag.
HandleDiarResult(speaker) ==
    /\ CheckBotStop
    /\ _prev_speaker_id' = _current_speaker_id
    /\ _current_speaker_id' = speaker
    /\ _user_speaking_buffer' =
          IF _user_speaking_buffer.tag = None \/ _current_speaker_id # speaker
          THEN [_user_speaking_buffer EXCEPT !.tag = speaker] ELSE _user_speaking_buffer
    /\ event' = NoEvent
    /\ UNCHANGED <<agent, _vad_user_speaking, received, handled, turnVars>>

\* BotStartedSpeaking does not stop the timer of an earlier BotStoppedSpeaking.
HandleBotStarted ==
    /\ _bot_speaking' = TRUE
    /\ _bot_stop_time' = IF _bot_stop_time = "over" THEN "none" ELSE _bot_stop_time
    /\ event' = NoEvent
    /\ UNCHANGED <<agent, speakerVars, _vad_user_speaking, textVars, turnVars>>

HandleBotStopped ==
    /\ _bot_speaking' = BotSpeaking
    /\ _bot_stop_time' = "recent"
    /\ event' = NoEvent
    /\ UNCHANGED <<agent, speakerVars, _vad_user_speaking, textVars, turnVars>>

HandleOther ==
    /\ CheckBotStop
    /\ event' = NoEvent
    /\ UNCHANGED <<agent, speakerVars, _vad_user_speaking, textVars, turnVars>>
=============================================================================
