------------------------- MODULE SimulstreamAdapter -------------------------
(***************************************************************************)
(* NeMoStreamingPipelineAdapter (utils/simulstream_pipeline_adapter.py)    *)
(* over the cache-aware pipeline: simulstream pushes the chunks of one     *)
(* stream after another.  It does not say which chunk is the last, so the  *)
(* adapter sends every one with is_last = False, deletes the state of the  *)
(* stream in end_of_stream and takes the next stream id in clear.          *)
(***************************************************************************)
EXTENDS CacheAwarePipeline

CONSTANTS
    max_streams,  \* bound: streams pushed through the adapter
    max_chunks    \* bound: chunks of a stream

VARIABLES
    stream_id,             \* id of the current stream
    chunks,                \* chunks of it sent so far; none: is_first_chunk
    _finalized,            \* end_of_stream was called
    _final_transcript_acc, \* its accumulated final transcript
    call                   \* "out" | "process_chunk" | "raised"

adapterVars == <<stream_id, chunks, _finalized, _final_transcript_acc, call>>
vars == <<pipelineVars, adapterVars>>

is_first_chunk == chunks = 0

Init ==
    /\ PipelineInit
    /\ stream_id = 0
    /\ chunks = 0
    /\ _finalized = FALSE
    /\ _final_transcript_acc = <<>>
    /\ call = "out"

-----------------------------------------------------------------------------
ProcessChunk ==
    /\ call = "out"
    /\ ~_finalized
    /\ chunks < max_chunks
    /\ TranscribeStep(<<[stream_id |-> stream_id, index |-> chunks, is_first |-> is_first_chunk,
                         is_last |-> FALSE, source |-> stream_id]>>)
    /\ call' = "process_chunk"
    /\ UNCHANGED <<stream_id, chunks, _finalized, _final_transcript_acc>>

Continue ==
    /\ call = "process_chunk"
    /\ StepContinues
    /\ UNCHANGED adapterVars

ChunkReturns ==
    /\ call = "process_chunk"
    /\ _final_transcript_acc' = _final_transcript_acc \o Outputs[1].final_transcript
    /\ Respond
    /\ chunks' = chunks + 1
    /\ call' = "out"
    /\ UNCHANGED <<stream_id, _finalized>>

ChunkRaises ==
    /\ call = "process_chunk"
    /\ StepRaises
    /\ call' = "raised"
    /\ UNCHANGED <<stream_id, chunks, _finalized, _final_transcript_acc>>

\* delete_state of the current stream
Deleted == [sid \in DOMAIN state_pool \ {stream_id} |-> state_pool[sid]]

EndOfStream ==
    /\ call = "out"
    /\ ~_finalized
    /\ state_pool' = Deleted
    /\ _finalized' = TRUE
    /\ UNCHANGED <<bufVars, ctxVars, stepVars, stream_id, chunks, _final_transcript_acc, call>>

\* clear ends the stream if it was begun and not ended.
Clear ==
    /\ call = "out"
    /\ stream_id < max_streams
    /\ state_pool' = IF ~is_first_chunk /\ ~_finalized THEN Deleted ELSE state_pool
    /\ stream_id' = stream_id + 1
    /\ chunks' = 0
    /\ _finalized' = FALSE
    /\ _final_transcript_acc' = <<>>
    /\ UNCHANGED <<bufVars, ctxVars, stepVars, call>>

Next == ProcessChunk \/ Continue \/ ChunkReturns \/ ChunkRaises \/ EndOfStream \/ Clear

Spec == Init /\ [][Next]_vars

-----------------------------------------------------------------------------
\* The text of the stream so far and what its state still holds is every chunk
\* sent, once and in order.
NothingLostOrRepeated ==
    call = "out" /\ ~_finalized /\ chunks > 0 =>
        _final_transcript_acc \o state_pool[stream_id].words \o state_pool[stream_id].tokens
            = [i \in 1 .. chunks |-> i - 1]

\* The slots in use are those of the open streams, of which there is at most one.
SlotsOfOpenStreams ==
    call = "out" =>
        /\ DOMAIN buf_streamidx2slotidx \subseteq {stream_id}
        /\ DOMAIN ctx_streamidx2slotidx \subseteq {stream_id}
=============================================================================
