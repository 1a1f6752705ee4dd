-------------------------- MODULE BuffererProtocol --------------------------
(***************************************************************************)
(* The cache feature bufferer driven by transcribe_step_for_frames with    *)
(* any batches of frames of the streams a caller has open.  The            *)
(* preprocessor may raise after the audio was buffered; the caller then    *)
(* goes on with another batch.                                             *)
(***************************************************************************)
EXTENDS BatchedCacheFeatureBufferer, StreamBatches, FiniteSets

CONSTANT max_open  \* streams the caller has open at a time

ASSUME OpenAssumption == max_open \in Nat

VARIABLES
    stream_ids,  \* streams of the frames of this update, in batch order
    last,        \* those whose frame is_last
    todo,        \* what the running loop over the frames has left
    pc,          \* "idle" | "assign" | "features" | "free"
    open,        \* streams the caller has open
    unreset      \* history: slots an update that raised had taken, still not reset

vars == <<bufVars, stream_ids, last, todo, pc, open, unreset>>

Init ==
    /\ BufInit
    /\ stream_ids = <<>>
    /\ last = {}
    /\ todo = <<>>
    /\ pc = "idle"
    /\ open = {}
    /\ unreset = {}

-----------------------------------------------------------------------------
\* update returned or raised: its locals are gone.
BackToCaller == stream_ids' = <<>> /\ last' = {} /\ todo' = <<>> /\ pc' = "idle"

\* The caller opens the streams of the batch that are not open yet.
Update ==
    /\ pc = "idle"
    /\ \E b \in Batches : \E e \in SUBSET Members(b) :
          /\ Cardinality(open \cup Members(b)) <= max_open
          /\ stream_ids' = b /\ last' = e /\ todo' = b
          /\ open' = open \cup Members(b)
    /\ pc' = "assign"
    /\ UNCHANGED <<bufVars, unreset>>

Assign ==
    /\ pc = "assign"
    /\ todo # <<>>
    /\ AssignSlot(Head(todo))
    /\ todo' = Tail(todo)
    /\ UNCHANGED <<stream_ids, last, pc, open, unreset>>

AssignRaises ==
    /\ pc = "assign"
    /\ todo # <<>>
    /\ AssignSlotRaises(Head(todo))
    /\ BackToCaller
    /\ unreset' = unreset \cup slots_to_reset
    /\ UNCHANGED open

BufferAudio ==
    /\ pc = "assign"
    /\ todo = <<>>
    /\ ResetAndBufferAudio([sid \in Members(stream_ids) |-> sid])
    /\ pc' = "features"
    /\ unreset' = unreset \ slots_to_reset
    /\ UNCHANGED <<stream_ids, last, todo, open>>

PreprocessRaises ==
    /\ pc = "features"
    /\ BackToCaller
    /\ UNCHANGED <<bufVars, open, unreset>>

Features ==
    /\ pc = "features"
    /\ BufferFeatures(Members(stream_ids))
    /\ todo' = stream_ids
    /\ pc' = "free"
    /\ UNCHANGED <<stream_ids, last, open, unreset>>

Free ==
    /\ pc = "free"
    /\ todo # <<>>
    /\ IF Head(todo) \in last THEN FreeSlot(Head(todo)) ELSE UNCHANGED bufVars
    /\ todo' = Tail(todo)
    /\ UNCHANGED <<stream_ids, last, pc, open, unreset>>

\* update returns; the caller is done with the streams whose last frame this was.
Return ==
    /\ pc = "free"
    /\ todo = <<>>
    /\ BackToCaller
    /\ open' = open \ last
    /\ UNCHANGED <<bufVars, unreset>>

Next ==
    \/ Update \/ Assign \/ AssignRaises \/ BufferAudio \/ PreprocessRaises
    \/ Features \/ Free \/ Return

Spec == Init /\ [][Next]_vars

-----------------------------------------------------------------------------
\* Types of the bufferer's fields and of the caller's locals.
TypeOK ==
    /\ DOMAIN streamidx2slotidx \subseteq Streams
    /\ streamidx2slotidx \in [DOMAIN streamidx2slotidx -> Slots]
    /\ DOMAIN slotidx2streamidx \subseteq Slots
    /\ slotidx2streamidx \in [DOMAIN slotidx2streamidx -> Streams]
    /\ available_slots \in Seq(Slots)
    /\ audio_bufferers \in [Slots -> SUBSET Streams]
    /\ feature_buffer \in [Slots -> SUBSET Streams]
    /\ slots_to_reset \subseteq Slots
    /\ stream_ids \in Seq(Streams)
    /\ last \subseteq Streams
    /\ todo \in Seq(Streams)
    /\ pc \in {"idle", "assign", "features", "free"}
    /\ open \subseteq Streams
    /\ unreset \subseteq Slots

\* update raises "No free slots available" only when the streams the caller has
\* open are more than the slots, whatever raised in the updates before: no slot
\* leaks and none is handed out twice.
RaisesOnlyOverLimit ==
    [][AssignRaises => Cardinality(open) > num_slots]_vars

\* The features update returns for a stream are made of the audio of that stream
\* since it was opened: nothing of the slot's previous owner is left, unless the
\* slot was taken by an update that raised before it came to reset_slots.
FeaturesPrivate ==
    pc = "free" =>
        \A s \in SlotsOf(Members(stream_ids) \cap DOMAIN streamidx2slotidx) \ unreset :
            feature_buffer[s] = {slotidx2streamidx[s]}

\* The abstract slot table: who holds each slot.
Table == INSTANCE SlotAllocation WITH
    owner <- [s \in Slots |->
                IF s \in DOMAIN slotidx2streamidx THEN slotidx2streamidx[s] ELSE NoStream]

\* The bufferer implements it.
BuffererImplementsTable == Table!Spec
=============================================================================
