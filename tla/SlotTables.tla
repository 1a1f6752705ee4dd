----------------------------- MODULE SlotTables -----------------------------
(***************************************************************************)
(* The two slot tables of the streaming pipelines, the feature bufferer    *)
(* and the encoder cache context manager, each driven by any batches.      *)
(* Nothing is shared between them here, so a behaviour drives one of the   *)
(* two; CacheAwarePipeline is where a step goes through both.              *)
(***************************************************************************)
EXTENDS BuffererProtocol

VARIABLES
    table,  \* "bufferer" | "context_manager", fixed
    ctx_streamidx2slotidx, ctx_slotidx2streamidx, free_slots, cache, context, mapping,
    ctx_stream_ids, eos, ctx_todo, ctx_pc

Ctx == INSTANCE ContextManagerProtocol WITH
    streamidx2slotidx <- ctx_streamidx2slotidx, slotidx2streamidx <- ctx_slotidx2streamidx,
    stream_ids <- ctx_stream_ids, todo <- ctx_todo, pc <- ctx_pc

ctxVars == <<ctx_streamidx2slotidx, ctx_slotidx2streamidx, free_slots, cache, context,
             mapping, ctx_stream_ids, eos, ctx_todo, ctx_pc>>
tableVars == <<vars, ctxVars, table>>

OfBufferer == table = "bufferer" /\ UNCHANGED <<ctxVars, table>>
OfContextManager == table = "context_manager" /\ UNCHANGED <<vars, table>>

TablesInit == Init /\ Ctx!Init /\ table \in {"bufferer", "context_manager"}

TablesNext ==
    \/ Update /\ OfBufferer
    \/ Assign /\ OfBufferer
    \/ AssignRaises /\ OfBufferer
    \/ BufferAudio /\ OfBufferer
    \/ PreprocessRaises /\ OfBufferer
    \/ Features /\ OfBufferer
    \/ Free /\ OfBufferer
    \/ Return /\ OfBufferer
    \/ Ctx!StartStep /\ OfContextManager
    \/ Ctx!Assign /\ OfContextManager
    \/ Ctx!AssignRaises /\ OfContextManager
    \/ Ctx!Read /\ OfContextManager
    \/ Ctx!EncodeAndUpdate /\ OfContextManager
    \/ Ctx!EncodeRaises /\ OfContextManager
    \/ Ctx!Wipe /\ OfContextManager
    \/ Ctx!Free /\ OfContextManager
    \/ Ctx!EndStep /\ OfContextManager

TablesSpec == TablesInit /\ [][TablesNext]_tableVars

-----------------------------------------------------------------------------
\* No slot of the context manager leaks or is freed twice.
QueueHoldsTheRest == Ctx!QueueHoldsTheRest

\* Its rows hold audio of their stream only.
RowsPrivate == Ctx!RowsPrivate

\* It gives the slots of ended streams back, and those only.
EndedStreamsReleased == Ctx!EndedStreamsReleased

\* It changes the rows of the batch only.
OthersUntouched == Ctx!OthersUntouched

\* The bufferer and the context manager both implement the abstract slot table.
ImplementsSlotAllocation == BuffererImplementsTable /\ Ctx!ImplementsSlotAllocation
=============================================================================
