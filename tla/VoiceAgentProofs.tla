-------------------------- MODULE VoiceAgentProofs --------------------------
(***************************************************************************)
(* Proofs about VoiceAgent, for every configuration, any words, phrases    *)
(* and speakers, and any bounds: what the run checks on three words holds  *)
(* for conversations of any length.                                        *)
(***************************************************************************)
EXTENDS VoiceAgent, SequenceTheorems, TLAPS

Tags == Speakers \cup {None}
Word == [n : Nat, word : Words, live : BOOLEAN]

\* Types of the service's own fields, of what it does with text, and of its neighbours.
ServiceTypes ==
    /\ agent \in [use_vad : BOOLEAN, use_diar : BOOLEAN, backchannel_phrases : BOOLEAN]
    /\ _current_speaker_id \in Tags /\ _prev_speaker_id \in Tags
    /\ _bot_stop_time \in {"none", "recent", "over"} /\ _bot_speaking \in BOOLEAN
    /\ _vad_user_speaking \in BOOLEAN

Events == [as : {"none", "interim", "final", "dismissed"}, words : Seq(Word), tag : Tags,
           labelled : BOOLEAN, interrupts : BOOLEAN]

TextTypes ==
    /\ _user_speaking_buffer \in [tag : Tags, words : Seq(Word)]
    /\ received \in Nat /\ handled \in Seq(Nat)
    /\ _have_sent_user_started_speaking \in BOOLEAN
    /\ turn_open \in BOOLEAN /\ turn_dismissed \in BOOLEAN
    /\ event \in Events

OutsideTypes ==
    /\ vad_state \in BOOLEAN /\ span \in Nat /\ speaker \in Tags
    /\ diar_vad \in BOOLEAN /\ diar_speaker \in Tags
    /\ pending \in Seq([speaker : Tags, span : Nat])
    /\ bot_talking \in BOOLEAN /\ bot_turns \in Nat
    /\ known \in BOOLEAN /\ cut \in BOOLEAN

Types == ServiceTypes /\ TextTypes /\ OutsideTypes

\* The words that were handled, then those in the buffer, are 1 .. count.
InOrder(done, words, count) ==
    /\ count = Len(done) + Len(words)
    /\ \A i \in 1 .. Len(done) : done[i] = i
    /\ \A i \in 1 .. Len(words) : words[i].n = Len(done) + i

TextInv == InOrder(handled, _user_speaking_buffer.words, received)

\* Without the VAD the user is always speaking, so no word is late.
SpeechInv == SpeechIsAnswered /\ (agent.use_vad \/ _vad_user_speaking)

\* What was live is dismissed only as a backchannel.
DismissedInv ==
    event.as = "dismissed" /\ Live(event.words) # {} =>
        event.labelled \/ is_backchannel(event.words)

\* The buffer's tag is that of the last result; as long as nothing was cut it is the
\* speaker the diarizer told last since the VAD heard the user stop.
TagInv ==
    /\ _user_speaking_buffer.tag \in {None, _current_speaker_id}
    /\ ~cut /\ diar_speaker # None => _user_speaking_buffer.tag = diar_speaker
    /\ event.as = "final" => cut \/ ~vad_state

\* Audio waits in the order of the spans; that of this span is its speaker's.
PendingInv ==
    /\ \A i \in 1 .. Len(pending) :
          /\ pending[i].span <= span
          /\ pending[i].span = span => pending[i].speaker = speaker
    /\ \A i, j \in 1 .. Len(pending) : i < j => pending[i].span <= pending[j].span

\* Once this span's speaker is known nothing of another can come.
KnownInv ==
    /\ vad_state => speaker \in Speakers
    /\ known =>
          /\ vad_state /\ diar_speaker = speaker
          /\ \A i \in 1 .. Len(pending) : pending[i].span = span

SpeakerInv == TagInv /\ PendingInv /\ KnownInv

IndInv == Types /\ TextInv /\ SpeechInv /\ TurnsClosed /\ SpeakerInv

-----------------------------------------------------------------------------
(* What becomes of the text.                                               *)

\* What a handler may do with the words the buffer holds, the new one included.
Outcome(words) ==
    \/ KeepText(words)
    \/ HandleInterim(words)
    \/ HandleFinal(words)
    \/ /\ \E labelled \in BOOLEAN :
             /\ Dismiss(words, labelled)
             /\ labelled \/ is_backchannel(words) \/ ~_vad_user_speaking
       /\ _have_sent_user_started_speaking' \in {FALSE, _have_sent_user_started_speaking}

\* A word was heard, or none.
Heard(words) ==
    \/ words = _user_speaking_buffer.words /\ received' = received
    \/ /\ \E word \in Words, live \in BOOLEAN :
             /\ words = Append(_user_speaking_buffer.words,
                               [n |-> received + 1, word |-> word, live |-> live])
             /\ live = _vad_user_speaking
       /\ received' = received + 1

\* A transcription appends at most one word, live if the VAD hears the user, and
\* then keeps the text, pushes or dismisses it: no branch does anything else.
LEMMA TranscriptionOutcome ==
    ASSUME Types, Transcription
    PROVE  \E words \in Seq(Word) : Heard(words) /\ Outcome(words)
<1>1. PICK word \in Words \cup {None}, label \in {"none", "EOU", "EOB"} :
          HandleTranscription(word, label)
  BY DEF Transcription
<1>2. _vad_user_speaking \in BOOLEAN /\ _user_speaking_buffer.words \in Seq(Word)
  BY DEF Types, ServiceTypes, TextTypes
<1>0. received \in Nat
  BY DEF Types, ServiceTypes, TextTypes
<1> DEFINE words == Append1(word, _vad_user_speaking)
<1>3. words \in Seq(Word) /\ Heard(words)
  <2>1. CASE word = None
    BY <1>1, <1>2, <2>1 DEF Heard, HandleTranscription, Append1
  <2>2. CASE word # None
    <3>1. [n |-> received + 1, word |-> word, live |-> _vad_user_speaking] \in Word
      <4>1. received + 1 \in Nat
        BY <1>0
      <4>2. word \in Words
        BY <1>1, <2>2, Zenon
      <4> QED BY <1>2, <4>1, <4>2, Zenon DEF Word
    <3>2. received' = received + 1 /\ word \in Words
      BY <1>1, <2>2 DEF HandleTranscription
    <3>3. words = Append(_user_speaking_buffer.words,
                         [n |-> received + 1, word |-> word, live |-> _vad_user_speaking])
      BY <2>2 DEF Append1
    <3>4. words \in Seq(Word)
      <4> HIDE DEF words
      <4> QED BY <1>2, <3>1, <3>3, AppendProperties
    <3> QED BY <1>2, <3>2, <3>3, <3>4 DEF Heard
  <2> QED BY <2>1, <2>2
<1>4. Outcome(words)
  <2>1. CASE _vad_user_speaking
    <3>1. HandleLive(word, label) /\ words = Append1(word, TRUE)
      BY <1>1, <2>1 DEF HandleTranscription
    <3>2. CASE label = "EOU" /\ BotSpeaking /\ is_backchannel(words)
      BY <3>1, <3>2 DEF HandleLive, Outcome, ForgetTurn
    <3>3. CASE label = "EOU" /\ ~(BotSpeaking /\ is_backchannel(words))
      BY <3>1, <3>3 DEF HandleLive, Outcome
    <3>4. CASE label = "EOB" /\ BotSpeaking
      BY <3>1, <3>4 DEF HandleLive, Outcome, ForgetTurn
    <3>5. CASE label = "none" \/ (label = "EOB" /\ ~BotSpeaking)
      BY <3>1, <3>5 DEF HandleLive, Outcome
    <3> QED BY <3>2, <3>3, <3>4, <3>5
  <2>2. CASE ~_vad_user_speaking
    <3>1. HandleLate(word, label) /\ words = Append1(word, FALSE)
      BY <1>1, <1>2, <2>2 DEF HandleTranscription
    <3> QED BY <3>1, <2>2 DEF HandleLate, Outcome, ForgetTurn
  <2> QED BY <2>1, <2>2
<1> QED BY <1>3, <1>4

\* The end of the user's speech keeps an empty buffer, and pushes or dismisses any
\* other as a whole.
LEMMA VadStoppedOutcome ==
    ASSUME Types, VadStopped
    PROVE  /\ Outcome(_user_speaking_buffer.words)
           /\ received' = received
           /\ _user_speaking_buffer'.words = <<>>
<1>1. HandleVadStopped
  BY DEF VadStopped
<1>2. _user_speaking_buffer = [_user_speaking_buffer EXCEPT !.words = _user_speaking_buffer.words]
  BY DEF Types, ServiceTypes, TextTypes
<1>3. CASE _user_speaking_buffer.words = <<>> /\ event' = NoEvent
           /\ UNCHANGED <<_user_speaking_buffer, handled, turnVars>>
  BY <1>1, <1>2, <1>3 DEF HandleVadStopped, Outcome, KeepText
<1>4. CASE HandleFinal(_user_speaking_buffer.words)
  BY <1>1, <1>4 DEF HandleVadStopped, Outcome, HandleFinal, Flushed, EmptyBuffer
<1>5. CASE /\ is_backchannel(_user_speaking_buffer.words)
           /\ Dismiss(_user_speaking_buffer.words, FALSE) /\ ForgetTurn
  BY <1>1, <1>5 DEF HandleVadStopped, Outcome, Dismiss, ForgetTurn, Flushed, EmptyBuffer
<1> QED BY <1>1, <1>3, <1>4, <1>5 DEF HandleVadStopped

\* The numbers of a text, word by word.
LEMMA NumbersOf ==
    ASSUME NEW words \in Seq(Word)
    PROVE  /\ Numbers(words) \in Seq(Nat)
           /\ Len(Numbers(words)) = Len(words)
           /\ \A i \in 1 .. Len(words) : Numbers(words)[i] = words[i].n
<1>1. DOMAIN words = 1 .. Len(words) /\ Len(words) \in Nat
  OBVIOUS
<1>2. ASSUME NEW i \in 1 .. Len(words)
      PROVE  words[i].n \in Nat
  <2>1. words[i] \in Word
    BY <1>1
  <2> QED BY <2>1 DEF Word
<1>3. Numbers(words) = [i \in 1 .. Len(words) |-> words[i].n]
  BY <1>1 DEF Numbers
<1>4. Numbers(words) \in Seq(Nat)
  BY <1>1, <1>2, <1>3, IsASeq
<1> QED BY <1>1, <1>3, <1>4

\* The words stay in order whatever becomes of them.
LEMMA AppendedInOrder ==
    ASSUME NEW done \in Seq(Nat), NEW words \in Seq(Word), NEW count \in Nat,
           NEW w \in Word, w.n = count + 1, InOrder(done, words, count)
    PROVE  InOrder(done, Append(words, w), count + 1)
<1> DEFINE appended == Append(words, w)
<1>1. /\ appended \in Seq(Word) /\ Len(appended) = Len(words) + 1
      /\ \A i \in 1 .. Len(words) : appended[i] = words[i]
      /\ appended[Len(words) + 1] = w
  BY AppendProperties
<1>2. Len(words) \in Nat /\ Len(done) \in Nat /\ count = Len(done) + Len(words)
  BY DEF InOrder
<1>3. ASSUME NEW i \in 1 .. Len(appended)
      PROVE  appended[i].n = Len(done) + i
  <2> HIDE DEF appended
  <2>1. CASE i = Len(words) + 1
    BY <1>1, <1>2, <2>1
  <2>2. CASE i # Len(words) + 1
    <3>1. i \in 1 .. Len(words)
      BY <1>1, <1>2, <2>2
    <3> QED BY <1>1, <3>1 DEF InOrder
  <2> QED BY <2>1, <2>2
<1> HIDE DEF appended
<1>4. InOrder(done, appended, count + 1)
  BY <1>1, <1>2, <1>3 DEF InOrder
<1> QED BY <1>4 DEF appended

\* Pushing or dismissing what is buffered keeps the words in order.
LEMMA HandledInOrder ==
    ASSUME NEW done \in Seq(Nat), NEW words \in Seq(Word), NEW count,
           InOrder(done, words, count)
    PROVE  InOrder(done \o Numbers(words), <<>>, count)
<1> DEFINE numbers == Numbers(words)
<1>1. numbers \in Seq(Nat) /\ Len(numbers) = Len(words)
      /\ \A i \in 1 .. Len(words) : numbers[i] = Len(done) + i
  BY NumbersOf DEF InOrder
<1>2. Len(words) \in Nat /\ Len(done) \in Nat /\ count = Len(done) + Len(words)
  BY DEF InOrder
<1> HIDE DEF numbers
<1> DEFINE all == done \o numbers
<1>3. /\ Len(all) = Len(done) + Len(numbers)
      /\ \A i \in 1 .. Len(done) + Len(numbers) :
            all[i] = IF i <= Len(done) THEN done[i] ELSE numbers[i - Len(done)]
  <2>1. numbers \in Seq(Nat)
    BY <1>1
  <2> QED BY <2>1, ConcatProperties, Zenon
<1> HIDE DEF all
<1>4. ASSUME NEW i \in 1 .. Len(all)
      PROVE  all[i] = i
  <2>1. CASE i <= Len(done)
    <3>1. all[i] = done[i] /\ i \in 1 .. Len(done)
      BY <1>1, <1>2, <1>3, <2>1
    <3> QED BY <3>1 DEF InOrder
  <2>2. CASE ~(i <= Len(done))
    <3>1. all[i] = numbers[i - Len(done)] /\ i - Len(done) \in 1 .. Len(words)
      BY <1>1, <1>2, <1>3, <2>2
    <3> QED BY <1>1, <1>2, <3>1
  <2> QED BY <2>1, <2>2
<1>5. InOrder(all, <<>>, count)
  BY <1>1, <1>2, <1>3, <1>4 DEF InOrder
<1> QED BY <1>5 DEF all, numbers

-----------------------------------------------------------------------------
(* Types.                                                                  *)
LEMMA OutcomeTypes ==
    ASSUME Types, NEW words \in Seq(Word), Outcome(words), received' \in Nat
    PROVE  TextTypes'
<1>1. /\ _user_speaking_buffer \in [tag : Tags, words : Seq(Word)]
      /\ handled \in Seq(Nat) /\ _prev_speaker_id \in Tags
      /\ _have_sent_user_started_speaking \in BOOLEAN
      /\ turn_open \in BOOLEAN /\ turn_dismissed \in BOOLEAN
  BY DEF Types, ServiceTypes, TextTypes
<1>2. handled \o Numbers(words) \in Seq(Nat)
  BY <1>1, NumbersOf, ConcatProperties
<1>3. NoEvent \in Events
  BY DEF NoEvent, Tags, Events
<1>4. EmptyBuffer \in [tag : Tags, words : Seq(Word)]
  BY DEF EmptyBuffer, Tags
<1>5. CASE KeepText(words)
  BY <1>1, <1>3, <1>5 DEF KeepText, turnVars, TextTypes
<1>6. ASSUME NEW as \in {"interim", "final"}
      PROVE  Text(as, words) \in Events
  BY <1>1 DEF Text, Events
<1>7. CASE HandleInterim(words)
  BY <1>1, <1>6, <1>7 DEF HandleInterim, TextTypes
<1>8. CASE HandleFinal(words)
  BY <1>1, <1>2, <1>4, <1>6, <1>8 DEF HandleFinal, Flushed, TextTypes
<1>9. ASSUME NEW labelled \in BOOLEAN, Dismiss(words, labelled),
             _have_sent_user_started_speaking' \in {FALSE, _have_sent_user_started_speaking}
      PROVE  TextTypes'
  <2>1. event' \in Events
    BY <1>3, <1>9 DEF Dismiss, Events
  <2> QED BY <1>1, <1>2, <1>4, <1>9, <2>1 DEF Dismiss, Flushed, TextTypes
<1> QED BY <1>5, <1>7, <1>8, <1>9 DEF Outcome

\* Every handler keeps the types,
LEMMA TypesStep ==
    ASSUME Types, Next
    PROVE  Types'
<1>1. BotSpeaking \in BOOLEAN
  BY DEF BotSpeaking, Types, ServiceTypes
<1>2. NoEvent \in Events /\ None \in Tags /\ EmptyBuffer \in [tag : Tags, words : Seq(Word)]
  BY DEF NoEvent, Events, Tags, EmptyBuffer
<1>3. CheckBotStop => _bot_speaking' \in BOOLEAN /\ _bot_stop_time' \in {"none", "recent", "over"}
  BY <1>1 DEF CheckBotStop, Types, ServiceTypes
<1>4. CASE VadStarted
  <2>1. HandleVadStarted
    BY <1>4 DEF VadStarted
  <2>2. ServiceTypes'
    BY <1>3, <2>1 DEF HandleVadStarted, Types, ServiceTypes, speakerVars
  <2>3. TextTypes'
    BY <1>2, <2>1 DEF HandleVadStarted, Types, TextTypes, textVars, turnVars
  <2>4. span' \in Nat /\ speaker' \in Tags
    BY <1>4 DEF VadStarted, Types, OutsideTypes, Tags
  <2>5. UNCHANGED <<diar_speaker, pending, bot_talking, bot_turns, cut>>
        /\ vad_state' = TRUE /\ diar_vad' = TRUE /\ known' = FALSE
    BY <1>4 DEF VadStarted
  <2>6. OutsideTypes'
    BY <2>4, <2>5 DEF Types, OutsideTypes
  <2> QED BY <2>2, <2>3, <2>6 DEF Types
<1>5. CASE VadStopped
  <2>1. HandleVadStopped /\ received' = received
    BY <1>5 DEF VadStopped, HandleVadStopped
  <2>2. ServiceTypes'
    BY <1>3, <2>1 DEF HandleVadStopped, Types, ServiceTypes, speakerVars
  <2>3. TextTypes'
    BY <1>5, <2>1, VadStoppedOutcome, OutcomeTypes DEF Types, TextTypes
  <2>4. OutsideTypes'
    BY <1>2, <1>5 DEF VadStopped, Types, OutsideTypes
  <2> QED BY <2>2, <2>3, <2>4 DEF Types
<1>6. CASE Transcription
  <2>1. /\ CheckBotStop /\ UNCHANGED <<agent, speakerVars, _vad_user_speaking>>
        /\ received' \in Nat
    BY <1>6 DEF Transcription, HandleTranscription, Types, TextTypes
  <2>2. ServiceTypes'
    BY <1>3, <2>1 DEF Types, ServiceTypes, speakerVars
  <2>3. TextTypes'
    BY <1>6, <2>1, TranscriptionOutcome, OutcomeTypes
  <2>4. OutsideTypes'
    BY <1>6 DEF Transcription, Cut, Types, OutsideTypes, diarVars, outsideVars
  <2> QED BY <2>2, <2>3, <2>4 DEF Types
<1>7. CASE QueueAudio
  <2>1. [speaker |-> speaker, span |-> span] \in [speaker : Tags, span : Nat]
    BY DEF Types, OutsideTypes
  <2>2. pending' \in Seq([speaker : Tags, span : Nat])
    BY <1>7, <2>1, AppendProperties DEF QueueAudio, Types, OutsideTypes
  <2> QED BY <1>7, <2>2
          DEF QueueAudio, Types, ServiceTypes, TextTypes, OutsideTypes, turnTakingVars,
              speakerVars, botVars, textVars, turnVars, outsideVars
<1>8. CASE DiarResult
  <2>1. /\ Head(pending) \in [speaker : Tags, span : Nat]
        /\ pending' \in Seq([speaker : Tags, span : Nat])
    BY <1>8, HeadTailProperties DEF DiarResult, Types, OutsideTypes
  <2>2. PICK dominant \in Tags :
          \/ UNCHANGED <<diar_speaker, turnTakingVars>>
          \/ diar_speaker' = dominant /\ HandleDiarResult(dominant)
    BY <1>2, <1>8, <2>1 DEF DiarResult
  <2>3. OutsideTypes'
    BY <1>8, <2>1, <2>2 DEF DiarResult, Types, OutsideTypes, outsideVars
  <2>4. CASE UNCHANGED turnTakingVars
    BY <2>3, <2>4
    DEF Types, ServiceTypes, TextTypes, turnTakingVars, speakerVars, botVars, textVars, turnVars
  <2>5. CASE HandleDiarResult(dominant)
    <3>1. ServiceTypes'
      BY <1>3, <2>5 DEF HandleDiarResult, Types, ServiceTypes
    <3>2. TextTypes'
      BY <1>2, <2>5 DEF HandleDiarResult, Types, TextTypes, turnVars
    <3> QED BY <2>3, <3>1, <3>2 DEF Types
  <2> QED BY <2>2, <2>4, <2>5
<1>9. CASE BotStarted \/ BotStopped \/ BotStopDelay \/ OtherFrame
  <2>1. TextTypes'
    BY <1>2, <1>9
    DEF BotStarted, HandleBotStarted, BotStopped, HandleBotStopped, BotStopDelay, OtherFrame,
        HandleOther, Types, TextTypes, textVars, turnVars
  <2>2. ServiceTypes'
    BY <1>1, <1>3, <1>9
    DEF BotStarted, HandleBotStarted, BotStopped, HandleBotStopped, BotStopDelay, OtherFrame,
        HandleOther, Types, ServiceTypes, speakerVars
  <2>3. UNCHANGED <<diarVars, vad_state, span, speaker, known, cut>>
    BY <1>9 DEF BotStarted, BotStopped, BotStopDelay, OtherFrame, outsideVars
  <2>4. bot_turns' \in Nat
    BY <1>9
    DEF BotStarted, BotStopped, BotStopDelay, OtherFrame, Types, OutsideTypes, outsideVars
  <2>5. bot_talking' \in BOOLEAN
    BY <1>9
    DEF BotStarted, BotStopped, BotStopDelay, OtherFrame, Types, OutsideTypes, outsideVars
  <2>6. OutsideTypes'
    BY <2>3, <2>4, <2>5 DEF Types, OutsideTypes, diarVars
  <2> QED BY <2>1, <2>2, <2>6 DEF Types
<1>10. CASE Reset
  <2>1. handled' \in Seq(Nat)
    BY <1>10, NumbersOf, ConcatProperties DEF Reset, TurnTakingReset, Types, TextTypes
  <2>2. ServiceTypes'
    BY <1>2, <1>10 DEF Reset, TurnTakingReset, Cleared, Types, ServiceTypes
  <2>3. TextTypes'
    BY <1>2, <1>10, <2>1 DEF Reset, TurnTakingReset, Cleared, Types, TextTypes
  <2>4. OutsideTypes'
    BY <1>2, <1>10 DEF Reset, Types, OutsideTypes, outsideVars
  <2> QED BY <2>2, <2>3, <2>4 DEF Types
<1> QED BY <1>4, <1>5, <1>6, <1>7, <1>8, <1>9, <1>10 DEF Next

-----------------------------------------------------------------------------
(* The words stay in order.                                                *)
LEMMA OutcomeText ==
    ASSUME Types, NEW words \in Seq(Word), NEW count, InOrder(handled, words, count),
           Outcome(words)
    PROVE  InOrder(handled', _user_speaking_buffer'.words, count)
<1>1. _user_speaking_buffer \in [tag : Tags, words : Seq(Word)] /\ handled \in Seq(Nat)
  BY DEF Types, ServiceTypes, TextTypes
<1>2. CASE KeepText(words) \/ HandleInterim(words)
  BY <1>1, <1>2 DEF KeepText, HandleInterim
<1>3. CASE handled' = handled \o Numbers(words) /\ Flushed
  BY <1>1, <1>3, HandledInOrder DEF Flushed, EmptyBuffer
<1> QED BY <1>2, <1>3 DEF Outcome, HandleFinal, Dismiss

\* the order of the words,
LEMMA TextStep ==
    ASSUME Types, TextInv, Next
    PROVE  TextInv'
<1>1. /\ _user_speaking_buffer \in [tag : Tags, words : Seq(Word)]
      /\ handled \in Seq(Nat) /\ received \in Nat
  BY DEF Types, ServiceTypes, TextTypes
<1>2. CASE Transcription
  <2>1. PICK words \in Seq(Word) : Heard(words) /\ Outcome(words)
    BY <1>2, TranscriptionOutcome
  <2>2. InOrder(handled, words, received')
    <3>1. CASE words = _user_speaking_buffer.words /\ received' = received
      BY <3>1 DEF TextInv
    <3>2. CASE received' = received + 1
               /\ \E word \in Words, live \in BOOLEAN :
                     words = Append(_user_speaking_buffer.words,
                                    [n |-> received + 1, word |-> word, live |-> live])
      <4>1. PICK word \in Words, live \in BOOLEAN :
               words = Append(_user_speaking_buffer.words,
                              [n |-> received + 1, word |-> word, live |-> live])
        BY <3>2
      <4> DEFINE w == [n |-> received + 1, word |-> word, live |-> live]
      <4>2. w \in Word /\ w.n = received + 1
        BY <1>1 DEF Word
      <4> HIDE DEF w
      <4>3. InOrder(handled, Append(_user_speaking_buffer.words, w), received + 1)
        BY <1>1, <4>2, AppendedInOrder DEF TextInv
      <4> QED BY <3>2, <4>1, <4>3 DEF w
    <3> QED BY <2>1, <3>1, <3>2 DEF Heard
  <2> QED BY <2>1, <2>2, OutcomeText DEF TextInv
<1>3. CASE VadStopped
  BY <1>1, <1>3, VadStoppedOutcome, OutcomeText DEF TextInv
<1>4. CASE Reset
  BY <1>1, <1>4, HandledInOrder
  DEF Reset, TurnTakingReset, Cleared, EmptyBuffer, TextInv
<1>5. CASE DiarResult
  BY <1>1, <1>5 DEF DiarResult, HandleDiarResult, TextInv, turnTakingVars, textVars
<1>6. CASE VadStarted \/ QueueAudio \/ BotStarted \/ BotStopped \/ BotStopDelay \/ OtherFrame
  BY <1>6
  DEF VadStarted, HandleVadStarted, QueueAudio, BotStarted, HandleBotStarted, BotStopped,
      HandleBotStopped, BotStopDelay, OtherFrame, HandleOther, TextInv, turnTakingVars, textVars
<1> QED BY <1>2, <1>3, <1>4, <1>5, <1>6 DEF Next

-----------------------------------------------------------------------------
(* What the user says while the VAD hears it is answered.                  *)

\* A late word adds nothing that is live.
LEMMA LateWord ==
    ASSUME NEW words \in Seq(Word), NEW w \in Word, w.live = FALSE, Live(words) = {}
    PROVE  Live(Append(words, w)) = {}
<1> DEFINE appended == Append(words, w)
<1>1. /\ appended \in Seq(Word) /\ Len(appended) = Len(words) + 1
      /\ \A i \in 1 .. Len(words) : appended[i] = words[i]
      /\ appended[Len(words) + 1] = w
  BY AppendProperties
<1>2. DOMAIN words = 1 .. Len(words) /\ Len(words) \in Nat
  BY LenProperties
<1> HIDE DEF appended
<1>3. DOMAIN appended = 1 .. Len(words) + 1
  BY <1>1, LenProperties
<1>4. \A i \in 1 .. Len(words) : ~words[i].live
  BY <1>2 DEF Live
<1>5. ASSUME NEW i \in 1 .. Len(words) + 1
      PROVE  ~appended[i].live
  <2>1. CASE i = Len(words) + 1
    BY <1>1, <2>1
  <2>2. CASE i # Len(words) + 1
    BY <1>1, <1>2, <1>4, <2>2
  <2> QED BY <2>1, <2>2
<1>6. Live(appended) = {}
  BY <1>3, <1>5 DEF Live
<1> QED BY <1>6 DEF appended

\* What is dismissed was live only if it is a backchannel.
LEMMA OutcomeSpeech ==
    ASSUME Types, NEW words \in Seq(Word), Outcome(words), agent' = agent,
           ~_vad_user_speaking => Live(words) = {}
    PROVE  /\ _user_speaking_buffer'.words \in {words, <<>>}
           /\ DismissedInv'
<1>1. _user_speaking_buffer \in [tag : Tags, words : Seq(Word)]
  BY DEF Types, TextTypes
<1>2. CASE KeepText(words)
  BY <1>1, <1>2 DEF KeepText, NoEvent, DismissedInv
<1>3. CASE HandleInterim(words) \/ HandleFinal(words)
  BY <1>1, <1>3 DEF HandleInterim, HandleFinal, Flushed, EmptyBuffer, Text, DismissedInv
<1>4. ASSUME NEW labelled \in BOOLEAN, Dismiss(words, labelled),
             labelled \/ is_backchannel(words) \/ ~_vad_user_speaking
      PROVE  /\ _user_speaking_buffer'.words \in {words, <<>>}
             /\ DismissedInv'
  <2>1. event'.words = words /\ event'.labelled = labelled
    BY <1>4 DEF Dismiss, NoEvent
  <2>2. _user_speaking_buffer'.words = <<>>
    BY <1>4 DEF Dismiss, Flushed, EmptyBuffer
  <2>3. CASE Live(words) = {}
    BY <2>1, <2>2, <2>3 DEF DismissedInv, Live
  <2>4. CASE labelled \/ is_backchannel(words)
    BY <2>1, <2>2, <2>4 DEF DismissedInv, is_backchannel
  <2> QED BY <1>4, <2>3, <2>4
<1> QED BY <1>2, <1>3, <1>4 DEF Outcome

\* what is in the buffer while the user is silent,
LEMMA SpeechStep ==
    ASSUME Types, SpeechInv, Next
    PROVE  SpeechInv'
<1>1. /\ _user_speaking_buffer \in [tag : Tags, words : Seq(Word)]
      /\ received \in Nat /\ _vad_user_speaking \in BOOLEAN /\ agent.use_vad \in BOOLEAN
  BY DEF Types, ServiceTypes, TextTypes
<1>2. ~_vad_user_speaking => Live(_user_speaking_buffer.words) = {}
  BY DEF SpeechInv, SpeechIsAnswered, DismissedInv
<1>3. Live(<<>>) = {}
  BY DEF Live
<1>4. CASE Transcription
  <2>1. PICK words \in Seq(Word) : Heard(words) /\ Outcome(words)
    BY <1>4, TranscriptionOutcome
  <2>2. UNCHANGED <<agent, _vad_user_speaking>>
    BY <1>4 DEF Transcription, HandleTranscription
  <2>3. ASSUME ~_vad_user_speaking
        PROVE  Live(words) = {}
    <3>1. CASE words = _user_speaking_buffer.words
      BY <1>2, <2>3, <3>1
    <3>2. ASSUME NEW word \in Words, NEW live \in BOOLEAN, live = _vad_user_speaking,
                 words = Append(_user_speaking_buffer.words,
                                [n |-> received + 1, word |-> word, live |-> live])
          PROVE  Live(words) = {}
      <4> DEFINE w == [n |-> received + 1, word |-> word, live |-> live]
      <4>1. w \in Word /\ w.live = FALSE
        BY <1>1, <2>3, <3>2 DEF Word
      <4> HIDE DEF w
      <4>2. Live(Append(_user_speaking_buffer.words, w)) = {}
        BY <1>1, <1>2, <2>3, <4>1, LateWord
      <4> QED BY <3>2, <4>2 DEF w
    <3> QED BY <2>1, <3>1, <3>2 DEF Heard
  <2>4. /\ _user_speaking_buffer'.words \in {words, <<>>}
        /\ DismissedInv'
    BY <2>1, <2>2, <2>3, OutcomeSpeech
  <2> QED BY <1>3, <2>2, <2>3, <2>4 DEF SpeechInv, SpeechIsAnswered, DismissedInv
<1>5. CASE VadStopped
  <2>1. /\ Outcome(_user_speaking_buffer.words)
        /\ _user_speaking_buffer'.words = <<>>
    BY <1>5, VadStoppedOutcome
  <2>2. agent' = agent /\ _vad_user_speaking' = IF agent.use_vad THEN FALSE ELSE _vad_user_speaking
    BY <1>5 DEF VadStopped, HandleVadStopped
  <2>3. DismissedInv'
    BY <1>1, <1>2, <2>1, <2>2, OutcomeSpeech
  <2> QED BY <1>3, <2>1, <2>2, <2>3 DEF SpeechInv, SpeechIsAnswered, DismissedInv
<1>6. CASE Reset
  <2>1. /\ agent' = agent /\ event' = NoEvent /\ _user_speaking_buffer' = EmptyBuffer
        /\ _vad_user_speaking' = ~agent.use_vad
    BY <1>6 DEF Reset, TurnTakingReset, Cleared
  <2> QED BY <1>1, <1>3, <2>1 DEF SpeechInv, SpeechIsAnswered, DismissedInv, NoEvent, EmptyBuffer
<1>7. CASE UNCHANGED <<agent, _vad_user_speaking, _user_speaking_buffer, event>>
  BY <1>7 DEF SpeechInv, SpeechIsAnswered, DismissedInv, Live, is_backchannel
<1>8. CASE /\ event' = NoEvent /\ agent' = agent
           /\ _vad_user_speaking' = _vad_user_speaking \/ _vad_user_speaking' = TRUE
           /\ _user_speaking_buffer'.words = _user_speaking_buffer.words
  BY <1>1, <1>8 DEF SpeechInv, SpeechIsAnswered, DismissedInv, NoEvent
<1>9. CASE QueueAudio
  BY <1>7, <1>9 DEF QueueAudio, turnTakingVars, textVars
<1>10. CASE VadStarted
  BY <1>8, <1>10 DEF VadStarted, HandleVadStarted, textVars
<1>11. CASE DiarResult
  BY <1>1, <1>7, <1>8, <1>11 DEF DiarResult, HandleDiarResult, turnTakingVars, textVars
<1>12. CASE BotStarted \/ BotStopped \/ BotStopDelay \/ OtherFrame
  BY <1>8, <1>12
  DEF BotStarted, HandleBotStarted, BotStopped, HandleBotStopped, BotStopDelay, OtherFrame,
      HandleOther, textVars
<1> QED BY <1>4, <1>5, <1>6, <1>9, <1>10, <1>11, <1>12 DEF Next

-----------------------------------------------------------------------------
(* Turns are closed.                                                       *)
LEMMA OutcomeTurns ==
    ASSUME Types, TurnsClosed, NEW words, Outcome(words)
    PROVE  TurnsClosed'
<1>1. /\ _have_sent_user_started_speaking \in BOOLEAN
      /\ turn_open \in BOOLEAN /\ turn_dismissed \in BOOLEAN
  BY DEF Types, TextTypes
<1>2. CASE KeepText(words)
  BY <1>1, <1>2 DEF KeepText, NoEvent, turnVars, TurnsClosed
<1>3. CASE HandleInterim(words)
  BY <1>1, <1>3 DEF HandleInterim, TurnsClosed
<1>4. CASE HandleFinal(words)
  BY <1>1, <1>4 DEF HandleFinal, Text, TurnsClosed
<1>5. ASSUME NEW labelled, Dismiss(words, labelled),
             _have_sent_user_started_speaking' \in {FALSE, _have_sent_user_started_speaking}
      PROVE  TurnsClosed'
  <2>1. event'.as = "dismissed" /\ turn_open' = turn_open /\ turn_dismissed' = turn_open
    BY <1>5 DEF Dismiss, NoEvent
  <2>2. _have_sent_user_started_speaking' => _have_sent_user_started_speaking
    BY <1>5, Zenon
  <2> QED BY <1>1, <2>1, <2>2 DEF TurnsClosed
<1> QED BY <1>2, <1>3, <1>4, <1>5 DEF Outcome

\* the turns closed,
LEMMA TurnsStep ==
    ASSUME Types, TurnsClosed, Next
    PROVE  TurnsClosed'
<1>1. CASE Transcription
  BY <1>1, TranscriptionOutcome, OutcomeTurns
<1>2. CASE VadStopped
  BY <1>2, VadStoppedOutcome, OutcomeTurns
<1>3. CASE VadStarted
  BY <1>3 DEF VadStarted, HandleVadStarted, NoEvent, turnVars, TurnsClosed
<1>4. CASE Reset
  BY <1>4 DEF Reset, TurnTakingReset, Cleared, NoEvent, TurnsClosed
<1>5. CASE QueueAudio
  BY <1>5 DEF QueueAudio, turnTakingVars, turnVars, TurnsClosed
<1>6. CASE DiarResult
  BY <1>6 DEF DiarResult, HandleDiarResult, NoEvent, turnTakingVars, turnVars, TurnsClosed
<1>7. CASE BotStarted \/ BotStopped \/ BotStopDelay \/ OtherFrame
  BY <1>7
  DEF BotStarted, HandleBotStarted, BotStopped, HandleBotStopped, BotStopDelay, OtherFrame,
      HandleOther, NoEvent, turnVars, TurnsClosed
<1> QED BY <1>1, <1>2, <1>3, <1>4, <1>5, <1>6, <1>7 DEF Next

-----------------------------------------------------------------------------
(* The speaker of the turn.                                                *)
LEMMA TagOutcome ==
    ASSUME TextTypes, NEW words, Outcome(words)
    PROVE  /\ event'.as \in {"final", "dismissed"} => _user_speaking_buffer'.tag = None
           /\ event'.as \notin {"final", "dismissed"} =>
                 _user_speaking_buffer'.tag = _user_speaking_buffer.tag
<1>1. _user_speaking_buffer \in [tag : Tags, words : Seq(Word)]
  BY DEF TextTypes
<1>2. CASE KeepText(words)
  BY <1>1, <1>2 DEF KeepText, NoEvent
<1>3. CASE HandleInterim(words)
  BY <1>1, <1>3 DEF HandleInterim, Text
<1>4. CASE HandleFinal(words)
  BY <1>4 DEF HandleFinal, Text, Flushed, EmptyBuffer
<1>5. ASSUME NEW labelled, Dismiss(words, labelled)
      PROVE  event'.as = "dismissed" /\ _user_speaking_buffer'.tag = None
  BY <1>5 DEF Dismiss, NoEvent, Flushed, EmptyBuffer
<1> QED BY <1>2, <1>3, <1>4, <1>5 DEF Outcome

\* The diarizer's result becomes the buffer's tag.
LEMMA TagOfResult ==
    ASSUME TextTypes, TagInv, NEW dominant, HandleDiarResult(dominant)
    PROVE  _user_speaking_buffer'.tag = dominant /\ _current_speaker_id' = dominant
<1>1. _user_speaking_buffer \in [tag : Tags, words : Seq(Word)]
  BY DEF TextTypes
<1> QED BY <1>1 DEF HandleDiarResult, TagInv

\* the tag of the buffer,
LEMMA TagStep ==
    ASSUME Types, TagInv, Next
    PROVE  TagInv'
<1>0. TextTypes /\ cut \in BOOLEAN /\ vad_state \in BOOLEAN
  BY DEF Types, OutsideTypes
<1>1. CASE Transcription
  <2>1. PICK words : Outcome(words)
    BY <1>1, TranscriptionOutcome
  <2>2. UNCHANGED <<_current_speaker_id, diar_speaker, vad_state>>
        /\ cut' = (cut \/ event'.as \in {"final", "dismissed"})
    BY <1>1
    DEF Transcription, HandleTranscription, Cut, speakerVars, diarVars, outsideVars
  <2> QED BY <1>0, <2>1, <2>2, TagOutcome DEF TagInv
<1>2. CASE VadStopped
  <2>1. Outcome(_user_speaking_buffer.words)
    BY <1>2, VadStoppedOutcome
  <2>2. /\ _current_speaker_id' = _current_speaker_id /\ diar_speaker' = None
        /\ vad_state' = FALSE
    BY <1>2 DEF VadStopped, HandleVadStopped, speakerVars
  <2> QED BY <1>0, <2>1, <2>2, TagOutcome DEF TagInv
<1>3. CASE DiarResult
  <2>1. CASE UNCHANGED <<diar_speaker, turnTakingVars, cut, vad_state>>
    BY <2>1 DEF TagInv, turnTakingVars, speakerVars, textVars
  <2>2. ASSUME NEW dominant, diar_speaker' = dominant, HandleDiarResult(dominant)
        PROVE  TagInv'
    <3>1. event'.as # "final"
      BY <2>2 DEF HandleDiarResult, NoEvent
    <3> QED BY <1>0, <2>2, <3>1, TagOfResult DEF TagInv
  <2> QED BY <1>3, <2>1, <2>2 DEF DiarResult, outsideVars
<1>4. CASE Reset
  BY <1>4 DEF Reset, TurnTakingReset, Cleared, EmptyBuffer, NoEvent, TagInv
<1>5. CASE QueueAudio
  BY <1>5 DEF QueueAudio, turnTakingVars, speakerVars, textVars, outsideVars, TagInv
<1>6. CASE VadStarted
  BY <1>6 DEF VadStarted, HandleVadStarted, NoEvent, speakerVars, textVars, TagInv
<1>7. CASE BotStarted \/ BotStopped \/ BotStopDelay \/ OtherFrame
  BY <1>7
  DEF BotStarted, HandleBotStarted, BotStopped, HandleBotStopped, BotStopDelay, OtherFrame,
      HandleOther, NoEvent, speakerVars, textVars, diarVars, TagInv
<1> QED BY <1>1, <1>2, <1>3, <1>4, <1>5, <1>6, <1>7 DEF Next

\* the results under way,
LEMMA PendingStep ==
    ASSUME Types, PendingInv, Next
    PROVE  PendingInv'
<1>0. span \in Nat /\ pending \in Seq([speaker : Tags, span : Nat])
  BY DEF Types, OutsideTypes
<1>1. CASE QueueAudio
  <2> DEFINE audio == [speaker |-> speaker, span |-> span]
             after == Append(pending, audio)
  <2>1. audio \in [speaker : Tags, span : Nat] /\ audio.speaker = speaker /\ audio.span = span
    BY DEF Types, OutsideTypes
  <2> HIDE DEF audio
  <2>2. /\ Len(after) = Len(pending) + 1
        /\ \A i \in 1 .. Len(pending) : after[i] = pending[i]
        /\ after[Len(pending) + 1] = audio
    BY <1>0, <2>1, AppendProperties
  <2>3. pending' = after /\ span' = span /\ speaker' = speaker
    BY <1>1 DEF QueueAudio, outsideVars, audio
  <2>4. Len(pending) \in Nat
    BY <1>0
  <2> HIDE DEF after
  <2>5. ASSUME NEW i \in 1 .. Len(after)
        PROVE  \/ i \in 1 .. Len(pending) /\ after[i] = pending[i]
               \/ i = Len(pending) + 1 /\ after[i] = audio
    BY <2>2, <2>4
  <2>6. ASSUME NEW i \in 1 .. Len(after)
        PROVE  after[i].span <= span /\ (after[i].span = span => after[i].speaker = speaker)
    BY <1>0, <2>1, <2>5 DEF PendingInv
  <2>7. ASSUME NEW i \in 1 .. Len(after), NEW j \in 1 .. Len(after), i < j
        PROVE  after[i].span <= after[j].span
    <3>1. i \in 1 .. Len(pending) /\ after[i] = pending[i]
      BY <2>2, <2>4, <2>7
    <3>2. CASE j \in 1 .. Len(pending)
      BY <2>2, <2>7, <3>1, <3>2 DEF PendingInv
    <3>3. CASE after[j] = audio
      BY <2>1, <3>1, <3>3 DEF PendingInv
    <3> QED BY <2>5, <3>2, <3>3
  <2> QED BY <2>3, <2>6, <2>7 DEF PendingInv
<1>2. CASE DiarResult
  <2>1. /\ Len(pending') = Len(pending) - 1
        /\ \A i \in 1 .. Len(pending') : pending'[i] = pending[i + 1]
    BY <1>0, <1>2, HeadTailProperties DEF DiarResult
  <2>2. span' = span /\ speaker' = speaker
    BY <1>2 DEF DiarResult, outsideVars
  <2>3. \A i \in 1 .. Len(pending') : i + 1 \in 1 .. Len(pending)
    BY <1>0, <2>1
  <2>4. \A i \in 1 .. Len(pending') :
           /\ pending'[i].span <= span
           /\ pending'[i].span = span => pending'[i].speaker = speaker
    BY <2>1, <2>3 DEF PendingInv
  <2>5. ASSUME NEW i \in 1 .. Len(pending'), NEW j \in 1 .. Len(pending'), i < j
        PROVE  pending'[i].span <= pending'[j].span
    <3>1. i + 1 < j + 1
      BY <2>5
    <3> QED BY <2>1, <2>3, <3>1 DEF PendingInv
  <2> QED BY <2>2, <2>4, <2>5 DEF PendingInv
<1>3. CASE VadStarted
  <2>1. span' = span + 1 /\ pending' = pending
    BY <1>3 DEF VadStarted
  <2>2. \A i \in 1 .. Len(pending) : pending[i].span \in Nat
    <3>1. \A i \in 1 .. Len(pending) : pending[i] \in [speaker : Tags, span : Nat]
      BY <1>0, ElementOfSeq
    <3> QED BY <3>1
  <2> QED BY <1>0, <2>1, <2>2 DEF PendingInv
<1>4. CASE UNCHANGED <<pending, span, speaker>>
  BY <1>4 DEF PendingInv
<1>5. VadStopped \/ Transcription \/ BotStarted \/ BotStopped \/ BotStopDelay \/ OtherFrame
      \/ Reset => UNCHANGED <<pending, span, speaker>>
  BY DEF VadStopped, Transcription, BotStarted, BotStopped, BotStopDelay, OtherFrame, Reset,
         diarVars, outsideVars
<1> QED BY <1>1, <1>2, <1>3, <1>4, <1>5 DEF Next

\* and the speaker known in time.
LEMMA KnownStep ==
    ASSUME Types, PendingInv, KnownInv, Next
    PROVE  KnownInv'
<1>0. /\ TurnTakingAssumption /\ span \in Nat /\ vad_state \in BOOLEAN /\ known \in BOOLEAN
      /\ pending \in Seq([speaker : Tags, span : Nat])
  BY TurnTakingAssumption DEF Types, OutsideTypes
<1>1. CASE VadStarted
  BY <1>1 DEF VadStarted, KnownInv
<1>2. CASE VadStopped
  BY <1>2 DEF VadStopped, KnownInv
<1>3. CASE QueueAudio
  <2> DEFINE audio == [speaker |-> speaker, span |-> span]
             after == Append(pending, audio)
  <2>1. audio \in [speaker : Tags, span : Nat] /\ audio.span = span
    BY DEF Types, OutsideTypes
  <2> HIDE DEF audio
  <2>2. /\ Len(after) = Len(pending) + 1 /\ Len(pending) \in Nat
        /\ \A i \in 1 .. Len(pending) : after[i] = pending[i]
        /\ after[Len(pending) + 1] = audio
    BY <1>0, <2>1, AppendProperties
  <2>3. pending' = after /\ UNCHANGED <<vad_state, span, speaker, known, diar_speaker>>
    BY <1>3 DEF QueueAudio, outsideVars, audio
  <2> HIDE DEF after
  <2>4. known => \A i \in 1 .. Len(after) : after[i].span = span
    <3> SUFFICES ASSUME known, NEW i \in 1 .. Len(after)
                 PROVE  after[i].span = span
      OBVIOUS
    <3>1. CASE i \in 1 .. Len(pending)
      BY <2>2, <3>1 DEF KnownInv
    <3>2. CASE i = Len(pending) + 1
      BY <2>1, <2>2, <3>2
    <3> QED BY <2>2, <3>1, <3>2
  <2> QED BY <2>3, <2>4 DEF KnownInv
<1>4. CASE DiarResult
  <2>1. PICK dominant \in {Head(pending).speaker, None} :
          /\ IF dominant # None /\ dominant # diar_speaker
             THEN diar_speaker' = dominant ELSE diar_speaker' = diar_speaker
          /\ known' = (known \/ (dominant # None /\ vad_state /\ Head(pending).span = span))
    BY <1>4 DEF DiarResult
  <2>2. /\ pending # <<>> /\ UNCHANGED <<vad_state, span, speaker>>
    BY <1>4 DEF DiarResult, outsideVars
  <2>3. /\ Len(pending') = Len(pending) - 1 /\ Len(pending) \in Nat
        /\ \A i \in 1 .. Len(pending') : pending'[i] = pending[i + 1]
    BY <1>0, <1>4, HeadTailProperties DEF DiarResult
  <2>4. Len(pending) >= 1 /\ Head(pending) = pending[1]
    BY <1>0, <2>2
  <2>5. ASSUME known', pending[1].span = span
        PROVE  \A i \in 1 .. Len(pending') : pending'[i].span = span
    <3>1. \A i \in 1 .. Len(pending) : pending[i].span \in Nat
      <4>1. \A i \in 1 .. Len(pending) : pending[i] \in [speaker : Tags, span : Nat]
        BY <1>0, ElementOfSeq
      <4> QED BY <4>1
    <3> SUFFICES ASSUME NEW i \in 1 .. Len(pending')
                 PROVE  pending'[i].span = span
      OBVIOUS
    <3>2. i + 1 \in 1 .. Len(pending) /\ 1 \in 1 .. Len(pending) /\ 1 < i + 1
      BY <2>3, <2>4
    <3>3. pending[1].span <= pending[i + 1].span /\ pending[i + 1].span <= span
      BY <3>2 DEF PendingInv
    <3> QED BY <1>0, <2>3, <2>5, <3>1, <3>2, <3>3
  <2>6. pending[1].span = span => pending[1].speaker = speaker
    BY <2>4 DEF PendingInv
  <2>7. CASE known
    <3>1. pending[1].span = span /\ diar_speaker = speaker /\ vad_state
      BY <2>3, <2>4, <2>7 DEF KnownInv
    <3>2. diar_speaker' = speaker
      BY <2>1, <2>4, <2>6, <3>1
    <3> QED BY <2>1, <2>2, <2>5, <2>7, <3>1, <3>2 DEF KnownInv
  <2>8. CASE ~known /\ known'
    <3>1. dominant = speaker /\ dominant # None /\ vad_state /\ pending[1].span = span
      BY <2>1, <2>4, <2>6, <2>8
    <3>2. diar_speaker' = speaker
      BY <2>1, <3>1
    <3> QED BY <2>2, <2>5, <2>8, <3>1, <3>2 DEF KnownInv
  <2>9. CASE ~known'
    BY <2>2, <2>9 DEF KnownInv
  <2> QED BY <2>7, <2>8, <2>9
<1>5. CASE Reset
  BY <1>5 DEF Reset, KnownInv, outsideVars
<1>6. CASE UNCHANGED <<vad_state, span, speaker, known, diar_speaker, pending>>
  BY <1>6 DEF KnownInv
<1>7. Transcription \/ BotStarted \/ BotStopped \/ BotStopDelay \/ OtherFrame =>
          UNCHANGED <<vad_state, span, speaker, known, diar_speaker, pending>>
  BY DEF Transcription, BotStarted, BotStopped, BotStopDelay, OtherFrame, diarVars, outsideVars
<1> QED BY <1>1, <1>2, <1>3, <1>4, <1>5, <1>6, <1>7 DEF Next

-----------------------------------------------------------------------------
(* The invariant.                                                          *)
LEMMA InitInv ==
    ASSUME Init
    PROVE  IndInv
<1>0. /\ TurnTakingAssumption
      /\ agent \in [use_vad : BOOLEAN, use_diar : BOOLEAN, backchannel_phrases : BOOLEAN]
  BY TurnTakingAssumption DEF Init, TurnTakingInit, TurnTakingAssumption
<1>1. ServiceTypes
  BY <1>0 DEF Init, TurnTakingInit, ServiceTypes, Tags
<1>2. TextTypes
  <2>1. /\ NoEvent \in Events /\ EmptyBuffer \in [tag : Tags, words : Seq(Word)]
        /\ <<>> \in Seq(Nat)
    BY EmptySeq DEF EmptyBuffer, NoEvent, Events, Tags
  <2> QED BY <2>1 DEF Init, TurnTakingInit, TextTypes
<1>3. OutsideTypes
  <2>1. pending \in Seq([speaker : Tags, span : Nat])
    BY EmptySeq DEF Init
  <2>2. diar_vad \in BOOLEAN
    BY <1>0 DEF Init
  <2> QED BY <2>1, <2>2 DEF Init, OutsideTypes, Tags
<1>4. TextInv
  BY DEF Init, TurnTakingInit, TextInv, InOrder, EmptyBuffer
<1>5. SpeechInv
  <2>1. Live(<<>>) = {}
    BY DEF Live
  <2>2. agent.use_vad \/ _vad_user_speaking
    BY <1>0 DEF Init, TurnTakingInit
  <2> QED BY <2>1, <2>2 DEF Init, TurnTakingInit, SpeechInv, SpeechIsAnswered, EmptyBuffer, NoEvent
<1>6. TurnsClosed
  BY DEF Init, TurnTakingInit, TurnsClosed, NoEvent
<1>7. SpeakerInv
  BY DEF Init, TurnTakingInit, SpeakerInv, TagInv, PendingInv, KnownInv, EmptyBuffer, NoEvent
<1> QED BY <1>1, <1>2, <1>3, <1>4, <1>5, <1>6, <1>7 DEF IndInv, Types

\* A step of no one.
LEMMA Stutter ==
    ASSUME IndInv, UNCHANGED vars
    PROVE  IndInv'
<1> USE DEF vars, turnTakingVars, speakerVars, botVars, textVars, turnVars, diarVars, outsideVars
<1>1. Types'
  BY DEF IndInv, Types, ServiceTypes, TextTypes, OutsideTypes
<1>2. TextInv' /\ TurnsClosed'
  BY DEF IndInv, TextInv, InOrder, TurnsClosed
<1>3. SpeechInv'
  BY DEF IndInv, SpeechInv, SpeechIsAnswered, Live, is_backchannel, Spoken
<1>4. SpeakerInv'
  BY DEF IndInv, SpeakerInv, TagInv, PendingInv, KnownInv
<1> QED BY <1>1, <1>2, <1>3, <1>4 DEF IndInv

\* The inductive invariant: types, the order of the words, what was live, the turns and
\* the speakers.
THEOREM Invariance == Spec => []IndInv
<1>1. Init => IndInv
  BY InitInv
<1>2. IndInv /\ [Next]_vars => IndInv'
  <2>1. IndInv /\ Next => IndInv'
    BY TypesStep, TextStep, SpeechStep, TurnsStep, TagStep, PendingStep, KnownStep
    DEF IndInv, SpeakerInv
  <2> QED BY <2>1, Stutter
<1> QED BY <1>1, <1>2, PTL DEF Spec

\* TurnTaking and its neighbours keep to their types: in particular every tag is a
\* speaker's or none, and words are numbered by naturals.
THEOREM TypeCorrect == Spec => []Types
BY Invariance, PTL DEF IndInv

\* No word is lost, repeated or reordered, whatever the VAD, the labels and the reset do
\* between two words (HandleTranscription, HandleVadStopped, TurnTakingReset).
THEOREM WordsKept == Spec => []NothingLostOrRepeated
<1>1. IndInv => NothingLostOrRepeated
  <2> SUFFICES ASSUME IndInv
               PROVE  NothingLostOrRepeated
    OBVIOUS
  <2>1. /\ _user_speaking_buffer.words \in Seq(Word) /\ handled \in Seq(Nat)
        /\ received \in Nat /\ TextInv
    BY DEF IndInv, Types, TextTypes
  <2> DEFINE all == handled \o Numbers(_user_speaking_buffer.words)
             count == [i \in 1 .. received |-> i]
  <2>2. InOrder(all, <<>>, received)
    BY <2>1, HandledInOrder DEF TextInv
  <2>3. all \in Seq(Nat)
    BY <2>1, NumbersOf, ConcatProperties
  <2>4. count \in Seq(Nat) /\ Len(count) = received /\ \A i \in 1 .. received : count[i] = i
    BY <2>1
  <2> HIDE DEF all, count
  <2>5. Len(all) = Len(count) /\ \A i \in 1 .. Len(all) : all[i] = count[i]
    BY <2>1, <2>2, <2>3, <2>4 DEF InOrder
  <2>6. all = count
    BY <2>3, <2>4, <2>5, SeqEqual
  <2> QED BY <2>6 DEF all, count, NothingLostOrRepeated
<1> QED BY <1>1, Invariance, PTL

\* What the user says while the VAD hears it does not stay in the buffer, and is
\* dismissed only as a backchannel (HandleLive, HandleVadStopped).
THEOREM SpeechAnswered == Spec => []SpeechIsAnswered
<1>1. IndInv => SpeechIsAnswered
  BY DEF IndInv, SpeechInv
<1> QED BY <1>1, Invariance, PTL

\* A turn stays open only if what the user said in it was dismissed.
THEOREM TurnsAreClosed == Spec => []TurnsClosed
<1>1. IndInv => TurnsClosed
  BY DEF IndInv
<1> QED BY <1>1, Invariance, PTL

\* Results the diarizer has not given yet when a span ends never name the speaker of
\* the next, once that one is known (NemoDiarService, HandleDiarResult).
THEOREM SpeakerNamed == Spec => SpeakerOfTheTurn
<1>1. IndInv /\ [Next]_vars =>
         [event'.as = "final" /\ known /\ ~cut => event'.tag = speaker]_vars
  <2> SUFFICES ASSUME IndInv, Next, event'.as = "final", known, ~cut
               PROVE  event'.tag = speaker
    OBVIOUS
  <2>1. /\ TagInv /\ KnownInv /\ vad_state /\ diar_speaker = speaker /\ speaker \in Speakers
        /\ TurnTakingAssumption
    BY TurnTakingAssumption DEF IndInv, SpeakerInv, KnownInv
  <2>2. _user_speaking_buffer.tag = speaker /\ speaker # None /\ event.as # "final"
    BY <2>1 DEF TagInv, TurnTakingAssumption
  <2>3. ASSUME NEW words, Outcome(words)
        PROVE  event'.tag = speaker
    <3>1. event' = Text("final", words)
      <4>1. KeepText(words) => event'.as = "none"
        BY DEF KeepText, NoEvent
      <4>2. HandleInterim(words) => event'.as = "interim"
        BY DEF HandleInterim, Text
      <4>3. \A labelled : Dismiss(words, labelled) => event'.as = "dismissed"
        BY DEF Dismiss, NoEvent
      <4> QED BY <2>3, <4>1, <4>2, <4>3 DEF Outcome, HandleFinal
    <3> QED BY <2>2, <3>1 DEF Text
  <2>4. CASE Transcription
    BY <2>3, <2>4, TranscriptionOutcome DEF IndInv
  <2>5. CASE VadStopped
    BY <2>3, <2>5, VadStoppedOutcome DEF IndInv
  <2>6. event' \in {event, NoEvent} => FALSE
    BY <2>2 DEF NoEvent
  <2>7. VadStarted \/ QueueAudio \/ DiarResult \/ BotStarted \/ BotStopped \/ BotStopDelay
        \/ OtherFrame \/ Reset => event' \in {event, NoEvent}
    BY DEF VadStarted, HandleVadStarted, QueueAudio, DiarResult, HandleDiarResult, BotStarted,
           HandleBotStarted, BotStopped, HandleBotStopped, BotStopDelay, OtherFrame,
           HandleOther, Reset, TurnTakingReset, turnTakingVars
  <2> QED BY <2>4, <2>5, <2>6, <2>7 DEF Next
<1> QED BY <1>1, Invariance, PTL DEF Spec, SpeakerOfTheTurn
=============================================================================
