---------------------- MODULE CacheAwareContextManager ----------------------
(***************************************************************************)
(* CacheAwareContextManager                                                *)
(* (nemo/collections/asr/inference/utils/context_manager.py): the encoder  *)
(* cache of every running stream lives in one slot of a tensor.  A step of *)
(* the pipeline reads the rows of its streams (get_context, which gives a  *)
(* new stream a free slot), runs the encoder, writes the rows back         *)
(* (update_cache), then wipes and frees the slots of the streams that      *)
(* ended (reset_slots).                                                    *)
(*                                                                         *)
(* The operations only, with the loops over the batch as one action per    *)
(* iteration.  ContextManagerProtocol drives them with arbitrary batches,  *)
(* CacheAwarePipeline composes them with the rest of the pipeline.         *)
(***************************************************************************)
EXTENDS StreamSlots

VARIABLES
    streamidx2slotidx,  \* dict: stream -> slot
    slotidx2streamidx,  \* dict: slot -> stream
    free_slots,         \* FIFO queue of free slots
    cache,              \* content of every row
    context,            \* rows get_context copied out, in batch order
    mapping             \* slot -> index of its row in context

cmVars == <<streamidx2slotidx, slotidx2streamidx, free_slots, cache, context, mapping>>

\* Zeros: a row's content is the set of sources of the audio that shaped it.
Blank == {}

CMInit ==
    /\ streamidx2slotidx = NoEntries
    /\ slotidx2streamidx = NoEntries
    /\ free_slots = [i \in 1 .. num_slots |-> i - 1]
    /\ cache = [s \in Slots |-> Blank]
    /\ context = <<>>
    /\ mapping = NoEntries

-----------------------------------------------------------------------------
Known(sid) == sid \in DOMAIN streamidx2slotidx

\* mutant of AssignSlot: the slot is read but not taken off the queue
AssignSlotPeek(sid) ==
    /\ IF Known(sid)
       THEN UNCHANGED <<streamidx2slotidx, slotidx2streamidx, free_slots>>
       ELSE /\ free_slots # <<>>
            /\ streamidx2slotidx' = Put(streamidx2slotidx, sid, Head(free_slots))
            /\ slotidx2streamidx' = Put(slotidx2streamidx, Head(free_slots), sid)
            /\ UNCHANGED free_slots
    /\ UNCHANGED <<cache, context, mapping>>

\* get_context, loop body: a stream without a slot takes the first free one.
AssignSlot(sid) ==
    /\ IF Known(sid)
       THEN UNCHANGED <<streamidx2slotidx, slotidx2streamidx, free_slots>>
       ELSE /\ free_slots # <<>>
            /\ streamidx2slotidx' = Put(streamidx2slotidx, sid, Head(free_slots))
            /\ slotidx2streamidx' = Put(slotidx2streamidx, Head(free_slots), sid)
            /\ free_slots' = Tail(free_slots)
    /\ UNCHANGED <<cache, context, mapping>>

\* get_context raises "No free slots available".
NoFreeSlot(sid) == ~Known(sid) /\ free_slots = <<>>

\* get_context, after the loop: copies of the rows of the batch.
ReadContext(stream_ids) ==
    /\ context' = [i \in DOMAIN stream_ids |-> cache[streamidx2slotidx[stream_ids[i]]]]
    /\ mapping' = [s \in {streamidx2slotidx[stream_ids[i]] : i \in DOMAIN stream_ids} |->
                     CHOOSE i \in DOMAIN stream_ids : streamidx2slotidx[stream_ids[i]] = s]
    /\ UNCHANGED <<streamidx2slotidx, slotidx2streamidx, free_slots, cache>>

\* update_cache: rows of the encoder's new context go back to their slots.
UpdateCache(stream_ids, new_context) ==
    /\ cache' = [s \in Slots |->
          IF \E i \in DOMAIN stream_ids : streamidx2slotidx[stream_ids[i]] = s
          THEN new_context[mapping[s]]
          ELSE cache[s]]
    /\ UNCHANGED <<streamidx2slotidx, slotidx2streamidx, free_slots, context, mapping>>

\* mutant of WipeSlots: the rows are freed without being wiped
WipeNothing(ended) == UNCHANGED cmVars

\* _reset_slots first wipes the rows of all ended streams ...
WipeSlots(ended) ==
    /\ cache' = [s \in Slots |->
          IF \E sid \in ended : streamidx2slotidx[sid] = s THEN Blank ELSE cache[s]]
    /\ UNCHANGED <<streamidx2slotidx, slotidx2streamidx, free_slots, context, mapping>>

\* mutant of FreeSlot: the slot goes back to the queue, the stream keeps it
FreeSlotKeepEntries(sid) ==
    /\ Len(free_slots) < num_slots
    /\ free_slots' = Append(free_slots, streamidx2slotidx[sid])
    /\ UNCHANGED <<streamidx2slotidx, slotidx2streamidx, cache, context, mapping>>

\* mutant of FreeSlot: the entries go, the slot never returns to the queue
FreeSlotLeak(sid) ==
    LET slot == streamidx2slotidx[sid]
    IN  /\ slotidx2streamidx' = Delete(slotidx2streamidx, slot)
        /\ streamidx2slotidx' = Delete(streamidx2slotidx, sid)
        /\ UNCHANGED <<free_slots, cache, context, mapping>>

\* ... then frees them one by one.  Queue.put on a full queue would block.
FreeSlot(sid) ==
    LET slot == streamidx2slotidx[sid]
    IN  /\ Len(free_slots) < num_slots
        /\ free_slots' = Append(free_slots, slot)
        /\ slotidx2streamidx' = Delete(slotidx2streamidx, slot)
        /\ streamidx2slotidx' = Delete(streamidx2slotidx, slotidx2streamidx[slot])
        /\ UNCHANGED <<cache, context, mapping>>
=============================================================================
