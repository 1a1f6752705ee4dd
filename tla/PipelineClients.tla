--------------------------- MODULE PipelineClients ---------------------------
(***************************************************************************)
(* The two clients of the cache-aware pipeline over one model of it: a     *)
(* pipeline serves BasePipeline.run, called again and again, or one        *)
(* NeMoStreamingPipelineAdapter, which drives transcribe_step itself.      *)
(***************************************************************************)
EXTENDS PipelineRun

CONSTANTS
    max_streams,  \* bound: streams pushed through the adapter
    max_chunks    \* bound: chunks of a stream

ASSUME ClientsAssumption == max_streams \in Nat /\ max_chunks \in Nat

VARIABLES
    client,             \* "run" | "simulstream", fixed
    adapter_stream_id, chunks, _finalized, _final_transcript_acc, call

Adapter == INSTANCE SimulstreamAdapter WITH stream_id <- adapter_stream_id

runVars == <<streamerVars, session, pipeline_output, run, aborted>>
adapterVars == <<adapter_stream_id, chunks, _finalized, _final_transcript_acc, call>>
clientVars == <<pipelineVars, runVars, adapterVars, client>>

ClientsInit ==
    /\ Init
    /\ Adapter!Init
    /\ client \in {"run", "simulstream"}

OfRun == client = "run" /\ UNCHANGED <<adapterVars, client>>
OfSimulstream == client = "simulstream" /\ UNCHANGED <<runVars, client>>

ClientsNext ==
    \/ StartRun /\ OfRun
    \/ NextBatch /\ OfRun
    \/ Continue /\ OfRun
    \/ StepReturns /\ OfRun
    \/ Abort /\ OfRun
    \/ ReturnOutput /\ OfRun
    \/ Adapter!ProcessChunk /\ OfSimulstream
    \/ Adapter!Continue /\ OfSimulstream
    \/ Adapter!ChunkReturns /\ OfSimulstream
    \/ Adapter!ChunkRaises /\ OfSimulstream
    \/ Adapter!EndOfStream /\ OfSimulstream
    \/ Adapter!Clear /\ OfSimulstream

\* run is sequential code and goes on once called; simulstream owes no chunk.
ClientsSpec ==
    /\ ClientsInit /\ [][ClientsNext]_clientVars
    /\ WF_clientVars(Running /\ OfRun)

-----------------------------------------------------------------------------
\* What simulstream pushes through the adapter comes out: the accumulated final
\* transcript and what the state of the current stream still holds are its chunks,
\* once and in order, whatever streams came before.
AdapterTranscribesAll == Adapter!NothingLostOrRepeated
=============================================================================
