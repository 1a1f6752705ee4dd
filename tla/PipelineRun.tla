----------------------------- MODULE PipelineRun -----------------------------
(***************************************************************************)
(* BasePipeline.run, called again and again on one pipeline: it makes a    *)
(* request generator over a list of files, opens a session, feeds every    *)
(* batch of the generator to transcribe_step, accumulates the final        *)
(* transcripts by stream id, and closes the session.  When transcribe_step *)
(* raises, so does run, and close_session is not called.                   *)
(*                                                                         *)
(* Stream ids restart at 0 with every call: a stream's source of audio is  *)
(* the session together with the id.                                       *)
(***************************************************************************)
EXTENDS CacheAwarePipeline, FrameStreamer

CONSTANT max_sessions  \* bound: calls of run

\* init_parameters refuses fewer slots than batch_size.  Every file holds audio:
\* what an empty one does to the generator is checked of FrameStreamer alone.
ASSUME RunAssumption ==
    /\ {num_slots, max_sessions} \subseteq Nat
    /\ batch_size <= num_slots
    /\ \A a \in AudioLists : \A i \in DOMAIN a : a[i] + flush_size > 0

VARIABLES
    session,          \* calls of run so far
    pipeline_output,  \* stream id -> accumulated text of this run
    run,              \* "out" | "loop" | "step" | "aborted"
    aborted           \* history: whether a call of run was aborted

vars == <<pipelineVars, streamerVars, session, pipeline_output, run, aborted>>

Init ==
    /\ PipelineInit
    /\ SetAudioFilepaths(<<>>)
    /\ session = 0
    /\ pipeline_output = Ctx!NoEntries
    /\ run = "out"
    /\ aborted = FALSE

-----------------------------------------------------------------------------
\* mutant of OpenSession: the states of an earlier session stay
OpenSessionKeep == UNCHANGED <<state_pool, bufVars, ctxVars>>

\* open_session and close_session are reset_session: the pool is cleared, and
\* nothing else.
OpenSession ==
    /\ state_pool' = Ctx!NoEntries
    /\ UNCHANGED <<bufVars, ctxVars>>

StartRun ==
    /\ run \in {"out", "aborted"}
    /\ session < max_sessions
    /\ \E a \in AudioLists : NewGenerator(a)
    /\ OpenSession
    /\ session' = session + 1
    /\ pipeline_output' = Ctx!NoEntries
    /\ run' = "loop"
    /\ UNCHANGED <<stepVars, aborted>>

\* The requests a batch of frames makes: of the stream's audio in this session.
RequestsOf(batch) ==
    [i \in DOMAIN batch |->
        [stream_id |-> batch[i].stream_id, index |-> batch[i].index,
         is_first |-> batch[i].is_first, is_last |-> batch[i].is_last,
         source |-> <<session, batch[i].stream_id>>]]

NextBatch ==
    /\ run = "loop"
    /\ ReturnBatch
    /\ TranscribeStep(RequestsOf(frames'))
    /\ run' = "step"
    /\ UNCHANGED <<session, pipeline_output, aborted>>

Continue ==
    /\ run = "step"
    /\ StepContinues
    /\ UNCHANGED <<streamerVars, session, pipeline_output, run, aborted>>

\* The text of every stream of the batch grows by its final transcript.
Accumulated(outputs) ==
    LET Text(sid) == IF sid \in DOMAIN pipeline_output THEN pipeline_output[sid] ELSE <<>>
    IN  [sid \in DOMAIN pipeline_output \cup {o.stream_id : o \in ToSet(outputs)} |->
            IF \E o \in ToSet(outputs) : o.stream_id = sid
            THEN Text(sid) \o (CHOOSE o \in ToSet(outputs) : o.stream_id = sid).final_transcript
            ELSE Text(sid)]

StepReturns ==
    /\ run = "step"
    /\ pipeline_output' = Accumulated(Outputs)
    /\ Respond
    /\ run' = "loop"
    /\ UNCHANGED <<streamerVars, session, aborted>>

Abort ==
    /\ run = "step"
    /\ StepRaises
    /\ run' = "aborted"
    /\ aborted' = TRUE
    /\ UNCHANGED <<streamerVars, session, pipeline_output>>

\* The generator ends, close_session clears the pool and run returns the texts.
ReturnOutput ==
    /\ run = "loop"
    /\ StopGenerator
    /\ OpenSession
    /\ run' = "out"
    /\ UNCHANGED <<stepVars, session, pipeline_output, aborted>>

Next == StartRun \/ NextBatch \/ Continue \/ StepReturns \/ Abort \/ ReturnOutput

\* run is sequential code: once called, it goes on.
Running == NextBatch \/ Continue \/ StepReturns \/ Abort \/ ReturnOutput
Spec == Init /\ [][Next]_vars /\ WF_vars(Running)

-----------------------------------------------------------------------------
\* What the encoder is given for a stream, its features and its cached context,
\* holds audio of this stream in this session only: slots of both tables are
\* reused by later streams, and ids by later sessions, as long as no run was
\* aborted: that leaves its slots behind.
EncoderSeesOwnAudio ==
    step = "encode" /\ ~aborted =>
        \A i \in DOMAIN Group :
            /\ GroupFeatures(Group[i].stream_id) = {Group[i].source}
            /\ context[i] \subseteq {Group[i].source}

\* Between steps the two slot tables and the state pool agree on which streams
\* are running: those whose first frame was transcribed and whose last was not.
\* So the slots always suffice, as long as no run was aborted.
TablesAgree ==
    run = "loop" /\ ~aborted =>
        /\ DOMAIN state_pool = ToSet(streams)
        /\ DOMAIN buf_streamidx2slotidx = ToSet(streams)
        /\ DOMAIN ctx_streamidx2slotidx = ToSet(streams)

\* Between steps, of every stream each frame so far was transcribed once and in
\* order: what run accumulated, then what the state holds back until the end of
\* the utterance.
NothingLostOrRepeated ==
    run = "loop" =>
        \A sid \in DOMAIN pipeline_output :
            LET held == IF sid \in DOMAIN state_pool
                        THEN state_pool[sid].words \o state_pool[sid].tokens ELSE <<>>
            IN  pipeline_output[sid] \o held = [i \in 1 .. frame_count[sid] |-> i - 1]

\* run returns the text of every file, from its first frame to its last.
RunReturnsEveryText ==
    [][run = "loop" /\ run' = "out" =>
          \A sid \in FileIds :
              /\ sid \in DOMAIN pipeline_output
              /\ pipeline_output[sid] = [i \in 1 .. frame_count[sid] |-> i - 1]
              /\ start[sid] >= NSamples(sid)]_vars

\* A run begins with no slot of the bufferer and none of the context manager in
\* use: the sessions of one pipeline do not see each other.
SessionStartsClean ==
    [][session' # session =>
          DOMAIN buf_streamidx2slotidx' = {} /\ DOMAIN ctx_streamidx2slotidx' = {}]_vars

\* A batch of at most batch_size streams always finds its slots, in the bufferer
\* and in the context manager: only the model can abort the first run that is.
AlwaysASlot ==
    [][Abort /\ ~aborted => step \in {"features", "encode"}]_vars

\* Every call of run ends, however its files interleave in the batches.
RunEnds == run = "loop" ~> run \in {"out", "aborted"}
=============================================================================
