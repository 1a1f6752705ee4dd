-------------------- MODULE BatchedCacheFeatureBufferer --------------------
(***************************************************************************)
(* BatchedCacheFeatureBufferer                                             *)
(* (nemo/collections/asr/inference/streaming/buffering/                    *)
(* cache_feature_bufferer.py): the sliding audio buffer and the feature    *)
(* buffer of every open stream live in one slot each.  update(frames)      *)
(* gives new streams a free slot, resets the buffers of those slots,       *)
(* pushes the audio, computes the features of the newest chunk, pushes     *)
(* them, copies the feature buffers out and frees the slots of the frames  *)
(* that are last.  Unlike the context manager it wipes a slot when it is   *)
(* taken, not when it is given back.                                       *)
(*                                                                         *)
(* The operations only, with the loop over the frames as one action per    *)
(* iteration.  The content of a buffer is the set of sources of audio it   *)
(* was filled with since its reset.                                        *)
(***************************************************************************)
EXTENDS StreamSlots

VARIABLES
    streamidx2slotidx,  \* dict: stream -> slot
    slotidx2streamidx,  \* dict: slot -> stream
    available_slots,    \* FIFO queue of free slots
    audio_bufferers,    \* what is in each slot's AudioBufferer
    feature_buffer,     \* what is in each row of the feature tensor
    slots_to_reset      \* local of update: slots taken in this call

bufVars == <<streamidx2slotidx, slotidx2streamidx, available_slots,
             audio_bufferers, feature_buffer, slots_to_reset>>

BufInit ==
    /\ streamidx2slotidx = NoEntries
    /\ slotidx2streamidx = NoEntries
    /\ available_slots = [i \in 1 .. num_slots |-> i - 1]
    /\ audio_bufferers = [s \in Slots |-> {}]
    /\ feature_buffer = [s \in Slots |-> {}]
    /\ slots_to_reset = {}

-----------------------------------------------------------------------------
Known(sid) == sid \in DOMAIN streamidx2slotidx

\* mutant of AssignSlot: a taken slot is not put on the list of slots to reset
AssignSlotNoReset(sid) ==
    /\ IF Known(sid)
       THEN UNCHANGED <<streamidx2slotidx, slotidx2streamidx, available_slots, slots_to_reset>>
       ELSE /\ available_slots # <<>>
            /\ streamidx2slotidx' = Put(streamidx2slotidx, sid, Head(available_slots))
            /\ slotidx2streamidx' = Put(slotidx2streamidx, Head(available_slots), sid)
            /\ available_slots' = Tail(available_slots)
            /\ UNCHANGED slots_to_reset
    /\ UNCHANGED <<audio_bufferers, feature_buffer>>

\* update, loop over the frames: a stream without a slot takes the first free
\* one, which is remembered for reset_slots.
AssignSlot(sid) ==
    /\ IF Known(sid)
       THEN UNCHANGED <<streamidx2slotidx, slotidx2streamidx, available_slots, slots_to_reset>>
       ELSE LET slot_idx == Head(available_slots)
            IN  /\ available_slots # <<>>
                /\ streamidx2slotidx' = Put(streamidx2slotidx, sid, slot_idx)
                /\ slotidx2streamidx' = Put(slotidx2streamidx, slot_idx, sid)
                /\ available_slots' = Tail(available_slots)
                /\ slots_to_reset' = slots_to_reset \cup {slot_idx}
    /\ UNCHANGED <<audio_bufferers, feature_buffer>>

\* update raises "No free slots available": slots_to_reset is a local, so the
\* slots taken before are never reset.
AssignSlotRaises(sid) ==
    /\ ~Known(sid)
    /\ available_slots = <<>>
    /\ slots_to_reset' = {}
    /\ UNCHANGED <<streamidx2slotidx, slotidx2streamidx, available_slots,
                   audio_bufferers, feature_buffer>>

SlotsOf(sids) == {streamidx2slotidx[sid] : sid \in sids}

\* reset_slots of the new slots, then every frame's samples go to the audio
\* buffer of its slot (source: stream of the batch -> its source of audio).
Reset(buffers) == [s \in Slots |-> IF s \in slots_to_reset THEN {} ELSE buffers[s]]

ResetAndBufferAudio(source) ==
    /\ audio_bufferers' = [s \in Slots |->
          Reset(audio_bufferers)[s] \cup
              (IF s \in SlotsOf(DOMAIN source) THEN {source[slotidx2streamidx[s]]} ELSE {})]
    /\ feature_buffer' = Reset(feature_buffer)
    /\ slots_to_reset' = {}
    /\ UNCHANGED <<streamidx2slotidx, slotidx2streamidx, available_slots>>

\* preprocess and _update_feature_buffer: the features of the newest chunk, made
\* from the audio buffer, are pushed into the feature buffer.
BufferFeatures(sids) ==
    /\ feature_buffer' = [s \in Slots |->
          feature_buffer[s] \cup (IF s \in SlotsOf(sids) THEN audio_bufferers[s] ELSE {})]
    /\ UNCHANGED <<streamidx2slotidx, slotidx2streamidx, available_slots,
                   audio_bufferers, slots_to_reset>>

\* mutant of FreeSlot: the slot is not given back
FreeSlotLeak(sid) == UNCHANGED bufVars

\* mutant of FreeSlot: the stream keeps its entry, the slot is given back
FreeSlotKeepEntries(sid) ==
    /\ available_slots' = Append(available_slots, streamidx2slotidx[sid])
    /\ UNCHANGED <<streamidx2slotidx, slotidx2streamidx, audio_bufferers,
                   feature_buffer, slots_to_reset>>

\* free_slots, loop body, for a frame that is last.
FreeSlot(sid) ==
    LET slot_id == streamidx2slotidx[sid]
    IN  /\ Len(available_slots) < num_slots
        /\ available_slots' = Append(available_slots, slot_id)
        /\ slotidx2streamidx' = Delete(slotidx2streamidx, slot_id)
        /\ streamidx2slotidx' = Delete(streamidx2slotidx, slotidx2streamidx[slot_id])
        /\ UNCHANGED <<audio_bufferers, feature_buffer, slots_to_reset>>
=============================================================================
