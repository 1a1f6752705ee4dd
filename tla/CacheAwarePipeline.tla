------------------------- MODULE CacheAwarePipeline -------------------------
(***************************************************************************)
(* BasePipeline.transcribe_step as CacheAwareCTCPipeline runs it on a      *)
(* batch of frames: the state of a new stream enters the pool, the         *)
(* feature bufferer is updated, the frames that are not last and then the  *)
(* frames that are last each go through the context manager, the encoder   *)
(* and the decoder, the text processor turns what ended with an utterance  *)
(* into the response, and the states of the last frames leave the pool.    *)
(*                                                                         *)
(* Three tables are keyed by stream id and each is cleaned up in another   *)
(* place: the bufferer's slots (in update), the context manager's slots    *)
(* (after the encoder) and the state pool (after the response).  Nothing   *)
(* undoes a step that raised.                                              *)
(*                                                                         *)
(* A stream's audio is its `source`; the encoder emits one token for every *)
(* frame, named by the frame's index.  The endpointer is arbitrary.  The   *)
(* client that calls transcribe_step is another module.                    *)
(***************************************************************************)
EXTENDS Naturals, Sequences, SequencesExt, Subsequences

CONSTANTS
    num_slots,  \* slots of the bufferer and of the context manager
    Raises      \* the calls into the model that may raise: "preprocess", "encoder"

VARIABLES
    buf_streamidx2slotidx, buf_slotidx2streamidx, available_slots,
    audio_bufferers, feature_buffer, slots_to_reset,
    ctx_streamidx2slotidx, ctx_slotidx2streamidx, free_slots,
    cache, context, mapping,
    state_pool,  \* stream id -> [tokens, words] of its streaming state
    requests,    \* the batch of the running transcribe_step
    fbuffers,    \* features of each request
    final,       \* whether the group of last frames is being transcribed
    todo,        \* what the running loop over stream ids has left
    step         \* where transcribe_step is; "idle" between calls

Buf == INSTANCE BatchedCacheFeatureBufferer WITH
    streamidx2slotidx <- buf_streamidx2slotidx, slotidx2streamidx <- buf_slotidx2streamidx

Ctx == INSTANCE CacheAwareContextManager WITH
    streamidx2slotidx <- ctx_streamidx2slotidx, slotidx2streamidx <- ctx_slotidx2streamidx

bufVars == <<buf_streamidx2slotidx, buf_slotidx2streamidx, available_slots,
             audio_bufferers, feature_buffer, slots_to_reset>>
ctxVars == <<ctx_streamidx2slotidx, ctx_slotidx2streamidx, free_slots, cache, context, mapping>>
stepVars == <<requests, fbuffers, final, todo, step>>
pipelineVars == <<bufVars, ctxVars, state_pool, stepVars>>

PipelineInit ==
    /\ Buf!BufInit
    /\ Ctx!CMInit
    /\ state_pool = Ctx!NoEntries
    /\ requests = <<>> /\ fbuffers = <<>> /\ final = FALSE /\ todo = <<>>
    /\ step = "idle"

-----------------------------------------------------------------------------
StreamIds(rs) == [i \in DOMAIN rs |-> rs[i].stream_id]
LastIds(rs) == {rs[i].stream_id : i \in {j \in DOMAIN rs : rs[j].is_last}}
Source(sid) == (CHOOSE r \in ToSet(requests) : r.stream_id = sid).source

\* The requests of the group being transcribed.
GroupOf(f) == Only(requests, {r \in ToSet(requests) : r.is_last = f})
Group == GroupOf(final)
GroupFeatures(sid) == fbuffers[CHOOSE i \in DOMAIN requests : requests[i].stream_id = sid]

\* The step returned or raised: its locals are gone.
LeaveStep == requests' = <<>> /\ fbuffers' = <<>> /\ final' = FALSE /\ todo' = <<>> /\ step' = "idle"

NewState == [tokens |-> <<>>, words |-> <<>>]

\* init_state: a state that exists is kept.
InitStates(rs) ==
    [sid \in DOMAIN state_pool \cup {r.stream_id : r \in {q \in ToSet(rs) : q.is_first}} |->
        IF sid \in DOMAIN state_pool THEN state_pool[sid] ELSE NewState]

\* transcribe_step is called with the requests rs.
TranscribeStep(rs) ==
    /\ step = "idle"
    /\ state_pool' = InitStates(rs)
    /\ requests' = rs
    /\ todo' = StreamIds(rs)
    /\ step' = "assign buffer"
    /\ UNCHANGED <<bufVars, ctxVars, fbuffers, final>>

-----------------------------------------------------------------------------
\* bufferer.update
AssignBuffer ==
    /\ step = "assign buffer"
    /\ todo # <<>>
    /\ Buf!AssignSlot(Head(todo))
    /\ todo' = Tail(todo)
    /\ UNCHANGED <<ctxVars, state_pool, requests, fbuffers, final, step>>

BufferAudio ==
    /\ step = "assign buffer"
    /\ todo = <<>>
    /\ Buf!ResetAndBufferAudio([sid \in ToSet(StreamIds(requests)) |-> Source(sid)])
    /\ step' = "features"
    /\ UNCHANGED <<ctxVars, state_pool, requests, fbuffers, final, todo>>

Features ==
    /\ step = "features"
    /\ Buf!BufferFeatures(ToSet(StreamIds(requests)))
    /\ fbuffers' = [i \in DOMAIN requests |->
                      feature_buffer'[buf_streamidx2slotidx[requests[i].stream_id]]]
    /\ todo' = Only(StreamIds(requests), LastIds(requests))
    /\ step' = "free buffer"
    /\ UNCHANGED <<ctxVars, state_pool, requests, final>>

FreeBuffer ==
    /\ step = "free buffer"
    /\ todo # <<>>
    /\ Buf!FreeSlot(Head(todo))
    /\ todo' = Tail(todo)
    /\ UNCHANGED <<ctxVars, state_pool, requests, fbuffers, final, step>>

\* A group without requests is not transcribed.
EnterGroup(f) ==
    LET ids == StreamIds(GroupOf(f))
    IN  final' = f /\ todo' = ids /\ step' = IF ids = <<>> THEN "skip" ELSE "assign context"

NonfinalFirst ==
    /\ step = "free buffer"
    /\ todo = <<>>
    /\ EnterGroup(FALSE)
    /\ UNCHANGED <<bufVars, ctxVars, state_pool, requests, fbuffers>>

-----------------------------------------------------------------------------
\* cache_aware_transcribe_step of the group
AssignContext ==
    /\ step = "assign context"
    /\ todo # <<>>
    /\ Ctx!AssignSlot(Head(todo))
    /\ todo' = Tail(todo)
    /\ UNCHANGED <<bufVars, state_pool, requests, fbuffers, final, step>>

GetContext ==
    /\ step = "assign context"
    /\ todo = <<>>
    /\ Ctx!ReadContext(StreamIds(Group))
    /\ step' = "encode"
    /\ UNCHANGED <<bufVars, state_pool, requests, fbuffers, final, todo>>

\* stream_step mixes the features of each row into its context.
Encode ==
    /\ step = "encode"
    /\ Ctx!UpdateCache(StreamIds(Group),
          [i \in DOMAIN Group |-> context[i] \cup GroupFeatures(Group[i].stream_id)])
    /\ step' = "wipe"
    /\ UNCHANGED <<bufVars, state_pool, requests, fbuffers, final, todo>>

WipeContext ==
    /\ step = "wipe"
    /\ Ctx!WipeSlots(LastIds(Group))
    /\ todo' = IF final THEN StreamIds(Group) ELSE <<>>
    /\ step' = "free context"
    /\ UNCHANGED <<bufVars, state_pool, requests, fbuffers, final>>

FreeContext ==
    /\ step = "free context"
    /\ todo # <<>>
    /\ Ctx!FreeSlot(Head(todo))
    /\ todo' = Tail(todo)
    /\ UNCHANGED <<bufVars, state_pool, requests, fbuffers, final, step>>

\* mutant of Decoded: a last frame is decoded like any other
DecodedNoFlush(state, r, eou) ==
    LET tokens == Append(state.tokens, r.index)
    IN  IF eou /\ ~r.is_last THEN [tokens |-> <<>>, words |-> state.words \o tokens]
        ELSE [state EXCEPT !.tokens = tokens]

\* update_state appends the tokens of the frame; at an end of utterance the
\* tokens become words (decode_bpe_tokens, cleanup_after_eou).
Decoded(state, r, eou) ==
    LET tokens == Append(state.tokens, r.index)
    IN  IF eou THEN [tokens |-> <<>>, words |-> state.words \o tokens]
        ELSE [state EXCEPT !.tokens = tokens]

\* decode_log_probs: a last frame ends the utterance, the endpointer ends any
\* other one.
Decode ==
    /\ step = "free context"
    /\ todo = <<>>
    /\ \E eou \in SUBSET ToSet(StreamIds(Group)) :
          /\ LastIds(Group) \subseteq eou
          /\ state_pool' = [sid \in DOMAIN state_pool |->
                IF sid \in ToSet(StreamIds(Group))
                THEN Decoded(state_pool[sid],
                             CHOOSE r \in ToSet(Group) : r.stream_id = sid,
                             sid \in eou)
                ELSE state_pool[sid]]
    /\ IF final
       THEN step' = "respond" /\ UNCHANGED <<final, todo>>
       ELSE EnterGroup(TRUE)
    /\ UNCHANGED <<bufVars, ctxVars, requests, fbuffers>>

SkipGroup ==
    /\ step = "skip"
    /\ IF final
       THEN step' = "respond" /\ UNCHANGED <<final, todo>>
       ELSE EnterGroup(TRUE)
    /\ UNCHANGED <<bufVars, ctxVars, state_pool, requests, fbuffers>>

\* The final transcript of each request: the words of its state, which the text
\* processor put there.
Outputs == [i \in DOMAIN requests |->
              [stream_id |-> requests[i].stream_id,
               final_transcript |-> state_pool[requests[i].stream_id].words]]

\* mutant of CleanedUp: the states of finished streams stay in the pool
CleanedUpKeepAll ==
    [sid \in DOMAIN state_pool |->
        IF sid \in ToSet(StreamIds(requests))
        THEN [state_pool[sid] EXCEPT !.words = <<>>] ELSE state_pool[sid]]

\* mutant of CleanedUp: the words stay after the response
CleanedUpKeepWords == [sid \in DOMAIN state_pool \ LastIds(requests) |-> state_pool[sid]]

\* cleanup_after_response, delete_state
CleanedUp ==
    [sid \in DOMAIN state_pool \ LastIds(requests) |->
        IF sid \in ToSet(StreamIds(requests))
        THEN [state_pool[sid] EXCEPT !.words = <<>>] ELSE state_pool[sid]]

\* transcribe_step returns Outputs.
Respond ==
    /\ step = "respond"
    /\ state_pool' = CleanedUp
    /\ LeaveStep
    /\ UNCHANGED <<bufVars, ctxVars>>

\* update and get_context raise "No free slots available".
NoBuffer == step = "assign buffer" /\ todo # <<>> /\ Buf!AssignSlotRaises(Head(todo))
NoContext ==
    /\ step = "assign context" /\ todo # <<>>
    /\ Ctx!NoFreeSlot(Head(todo))
    /\ UNCHANGED bufVars
\* The model raises: in the preprocessor or in the encoder.
ModelRaises ==
    /\ \/ step = "features" /\ "preprocess" \in Raises
       \/ step = "encode" /\ "encoder" \in Raises
    /\ UNCHANGED bufVars

\* transcribe_step raises: only its locals are undone.
StepRaises ==
    /\ NoBuffer \/ NoContext \/ ModelRaises
    /\ LeaveStep
    /\ UNCHANGED <<ctxVars, state_pool>>

\* What transcribe_step does on its own between its call and its return.
StepContinues ==
    \/ AssignBuffer \/ BufferAudio \/ Features \/ FreeBuffer \/ NonfinalFirst
    \/ AssignContext \/ GetContext \/ Encode \/ WipeContext \/ FreeContext
    \/ Decode \/ SkipGroup
=============================================================================
