----------------------- MODULE ContextManagerProtocol -----------------------
(***************************************************************************)
(* The context manager driven by cache_aware_transcribe_step with any      *)
(* batches of streams.  A row's content is the set of streams whose audio  *)
(* shaped it.  The encoder may raise between get_context and update_cache, *)
(* and get_context raises when no slot is free; the caller then goes on    *)
(* with another batch.                                                     *)
(***************************************************************************)
EXTENDS CacheAwareContextManager, StreamBatches

VARIABLES
    stream_ids,  \* the batch of the step
    eos,         \* its streams whose last frame this is
    todo,        \* what the running loop over the batch has left
    pc           \* "idle" | "assign" | "encode" | "wipe" | "free"

vars == <<cmVars, stream_ids, eos, todo, pc>>

Init ==
    /\ CMInit
    /\ stream_ids = <<>>
    /\ eos = {}
    /\ todo = <<>>
    /\ pc = "idle"

-----------------------------------------------------------------------------
\* The step returned or raised: its locals are gone.
BackToCaller == stream_ids' = <<>> /\ eos' = {} /\ todo' = <<>> /\ pc' = "idle"

StartStep ==
    /\ pc = "idle"
    /\ \E b \in Batches : \E e \in SUBSET Members(b) :
          stream_ids' = b /\ eos' = e /\ todo' = b
    /\ pc' = "assign"
    /\ UNCHANGED cmVars

Assign ==
    /\ pc = "assign"
    /\ todo # <<>>
    /\ AssignSlot(Head(todo))
    /\ todo' = Tail(todo)
    /\ UNCHANGED <<stream_ids, eos, pc>>

AssignRaises ==
    /\ pc = "assign"
    /\ todo # <<>>
    /\ NoFreeSlot(Head(todo))
    /\ BackToCaller
    /\ UNCHANGED cmVars

Read ==
    /\ pc = "assign"
    /\ todo = <<>>
    /\ ReadContext(stream_ids)
    /\ pc' = "encode"
    /\ UNCHANGED <<stream_ids, eos, todo>>

\* stream_step: each row mixes its stream's audio into the context it was given.
EncodeAndUpdate ==
    /\ pc = "encode"
    /\ UpdateCache(stream_ids, [i \in DOMAIN stream_ids |-> context[i] \cup {stream_ids[i]}])
    /\ pc' = "wipe"
    /\ UNCHANGED <<stream_ids, eos, todo>>

EncodeRaises ==
    /\ pc = "encode"
    /\ BackToCaller
    /\ UNCHANGED cmVars

Wipe ==
    /\ pc = "wipe"
    /\ WipeSlots(eos)
    /\ todo' = stream_ids
    /\ pc' = "free"
    /\ UNCHANGED <<stream_ids, eos>>

Free ==
    /\ pc = "free"
    /\ todo # <<>>
    /\ IF Head(todo) \in eos THEN FreeSlot(Head(todo)) ELSE UNCHANGED cmVars
    /\ todo' = Tail(todo)
    /\ UNCHANGED <<stream_ids, eos, pc>>

EndStep ==
    /\ pc = "free"
    /\ todo = <<>>
    /\ BackToCaller
    /\ UNCHANGED cmVars

Next ==
    \/ StartStep \/ Assign \/ AssignRaises \/ Read \/ EncodeAndUpdate
    \/ EncodeRaises \/ Wipe \/ Free \/ EndStep

Spec == Init /\ [][Next]_vars

-----------------------------------------------------------------------------
\* Types of the manager's fields and of the step's locals.
TypeOK ==
    /\ DOMAIN streamidx2slotidx \subseteq Streams
    /\ streamidx2slotidx \in [DOMAIN streamidx2slotidx -> Slots]
    /\ DOMAIN slotidx2streamidx \subseteq Slots
    /\ slotidx2streamidx \in [DOMAIN slotidx2streamidx -> Streams]
    /\ free_slots \in Seq(Slots)
    /\ cache \in [Slots -> SUBSET Streams]
    /\ context \in Seq(SUBSET Streams)
    /\ DOMAIN mapping \subseteq Slots
    /\ mapping \in [DOMAIN mapping -> Nat]
    /\ stream_ids \in Seq(Streams)
    /\ eos \subseteq Streams
    /\ todo \in Seq(Streams)
    /\ pc \in {"idle", "assign", "encode", "wipe", "free"}

\* The two dictionaries are inverse to each other at every point of every step:
\* no stream has two slots and no slot two streams.
DictsInverse ==
    /\ \A sid \in DOMAIN streamidx2slotidx :
          /\ streamidx2slotidx[sid] \in DOMAIN slotidx2streamidx
          /\ slotidx2streamidx[streamidx2slotidx[sid]] = sid
    /\ \A s \in DOMAIN slotidx2streamidx :
          /\ slotidx2streamidx[s] \in DOMAIN streamidx2slotidx
          /\ streamidx2slotidx[slotidx2streamidx[s]] = s

\* The queue holds exactly the slots no stream holds, each once: no slot leaks,
\* none is freed twice, and Queue.put never finds the queue full (it would block).
QueueHoldsTheRest ==
    /\ \A i, j \in DOMAIN free_slots : free_slots[i] = free_slots[j] => i = j
    /\ \A s \in Slots :
          s \in DOMAIN slotidx2streamidx <=> \A i \in DOMAIN free_slots : free_slots[i] # s

\* A row only ever holds audio of the stream that owns its slot, a free row
\* nothing: a stream that reuses a slot starts from a clean cache, even when the
\* encoder or get_context raised in an earlier step.
RowsPrivate ==
    \A s \in Slots :
        cache[s] \subseteq IF s \in DOMAIN slotidx2streamidx THEN {slotidx2streamidx[s]} ELSE {}

\* The rows the encoder is given are those of the batch, in its order.
ContextInBatchOrder ==
    pc = "encode" => \A i \in DOMAIN stream_ids : context[i] \subseteq {stream_ids[i]}

\* What holds between the loops of a step: distinct streams in the batch; every
\* stream of the batch has its slot from the end of get_context to reset_slots;
\* mapping sends its slot to its place in the batch; the streams that ended are
\* wiped before the loop frees their slots, each once.
StepInv ==
    /\ \A i, j \in DOMAIN stream_ids : stream_ids[i] = stream_ids[j] => i = j
    /\ eos \subseteq Members(stream_ids)
    /\ Members(todo) \subseteq Members(stream_ids)
    /\ pc = "assign" => \A sid \in Members(stream_ids) : Known(sid) \/ sid \in Members(todo)
    /\ pc \in {"encode", "wipe"} => \A sid \in Members(stream_ids) : Known(sid)
    /\ pc = "encode" =>
          /\ DOMAIN context = DOMAIN stream_ids
          /\ \A i \in DOMAIN stream_ids :
                /\ streamidx2slotidx[stream_ids[i]] \in DOMAIN mapping
                /\ mapping[streamidx2slotidx[stream_ids[i]]] = i
    /\ pc = "free" =>
          /\ \A i, j \in DOMAIN todo : todo[i] = todo[j] => i = j
          /\ \A sid \in eos \cap Members(todo) :
                Known(sid) /\ cache[streamidx2slotidx[sid]] = {}

IndInv ==
    /\ TypeOK
    /\ DictsInverse
    /\ QueueHoldsTheRest
    /\ RowsPrivate
    /\ ContextInBatchOrder
    /\ StepInv

\* A step that reaches its end leaves no slot with a stream that ended, and
\* every other stream of the batch still has its audio in its row.
EndedStreamsReleased ==
    [][pc = "free" /\ pc' = "idle" =>
          /\ \A sid \in eos : ~Known(sid)
          /\ \A i \in DOMAIN stream_ids : stream_ids[i] \notin eos =>
                /\ Known(stream_ids[i])
                /\ cache[streamidx2slotidx[stream_ids[i]]] = {stream_ids[i]}]_vars

\* A step changes the rows of its own streams only.
OthersUntouched ==
    [][\A sid \in DOMAIN streamidx2slotidx :
          (\A i \in DOMAIN stream_ids : stream_ids[i] # sid) =>
              cache'[streamidx2slotidx[sid]] = cache[streamidx2slotidx[sid]]]_vars

\* get_context raises only when every slot is held by some stream.
RaisesOnlyWhenFull ==
    [][pc = "assign" /\ pc' = "idle" => DOMAIN slotidx2streamidx = Slots]_vars

\* The abstract slot table: who holds each slot.
Table == INSTANCE SlotAllocation WITH
    owner <- [s \in Slots |->
                IF s \in DOMAIN slotidx2streamidx THEN slotidx2streamidx[s] ELSE NoStream]

\* The manager implements it.
ImplementsSlotAllocation == Table!Spec
=============================================================================
