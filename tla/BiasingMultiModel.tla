-------------------------- MODULE BiasingMultiModel --------------------------
(***************************************************************************)
(* GPUBiasingMultiModel                                                    *)
(* (nemo/collections/asr/parts/context_biasing/biasing_multi_model.py):    *)
(* the biasing models of all streams lie one behind the other in the same  *)
(* tensors, their states in one group of tensors and their arcs in         *)
(* another.  add_model puts a model at the end and makes the tensors       *)
(* longer when they are full; remove_model closes the gap and moves the    *)
(* offsets of the models behind it.  CUDA graphs that were captured hold   *)
(* pointers to the tensors and are dropped by a callback when any tensor   *)
(* is reallocated.                                                         *)
(*                                                                         *)
(* All tensors of a group are cut and filled alike: one stands for them.   *)
(* A cell holds <<m, i>>, the i-th state or arc of model m, or Zero.  All  *)
(* models have the same vocabulary and start state.                        *)
(***************************************************************************)
EXTENDS Integers

CONSTANTS
    Models,               \* biasing models, each with its weight
    states_of, arcs_of,   \* num_states and num_arcs of each model
    extended_arcs_of,     \* num_arcs_extended of each: arcs and padding
    alpha_of,             \* weight of each
    INIT_NUM_MODELS, INIT_NUM_STATES, INIT_NUM_ARCS

Positive == Nat \ {0}

ASSUME MultiModelAssumption ==
    /\ states_of \in [Models -> Positive]
    /\ arcs_of \in [Models -> Nat]
    /\ extended_arcs_of \in [Models -> Positive]
    /\ \A m \in Models : arcs_of[m] <= extended_arcs_of[m]
    /\ alpha_of \in [Models -> Positive]
    /\ INIT_NUM_MODELS \in Positive /\ INIT_NUM_STATES \in Positive /\ INIT_NUM_ARCS \in Positive

VARIABLES
    num_models, free_ids,  \* ids given so far, those free again
    model2active, model2alpha,
    model2num_states, model2states_offset,
    model2num_arcs_extended, model2arcs_offset,
    num_states_total, all_states,        \* cells in use, the tensors of the states
    num_arcs_extended_total, all_arcs,   \* the same of the arcs
    num_models_reserved, num_states_reserved, num_arcs_extended_reserved,
    full_graph             \* captured graphs: the sizes of the tensors then, or NoGraph

mmVars == <<num_models, free_ids, model2active, model2alpha, model2num_states,
            model2states_offset, model2num_arcs_extended, model2arcs_offset,
            num_states_total, all_states, num_arcs_extended_total, all_arcs,
            num_models_reserved, num_states_reserved, num_arcs_extended_reserved, full_graph>>

Zero == <<>>
NoGraph == <<>>
Sizes == <<num_models_reserved, num_states_reserved, num_arcs_extended_reserved>>
Zeros(n, zero) == [i \in 0 .. n - 1 |-> zero]

MMInit ==
    /\ num_models = 0 /\ free_ids = {}
    /\ model2active = Zeros(INIT_NUM_MODELS, FALSE) /\ model2alpha = Zeros(INIT_NUM_MODELS, 0)
    /\ model2num_states = Zeros(INIT_NUM_MODELS, 0)
    /\ model2states_offset = Zeros(INIT_NUM_MODELS, 0)
    /\ model2num_arcs_extended = Zeros(INIT_NUM_MODELS, 0)
    /\ model2arcs_offset = Zeros(INIT_NUM_MODELS, 0)
    /\ num_states_total = 0 /\ all_states = Zeros(INIT_NUM_STATES, Zero)
    /\ num_arcs_extended_total = 0 /\ all_arcs = Zeros(INIT_NUM_ARCS, Zero)
    /\ num_models_reserved = INIT_NUM_MODELS
    /\ num_states_reserved = INIT_NUM_STATES
    /\ num_arcs_extended_reserved = INIT_NUM_ARCS
    /\ full_graph = NoGraph

-----------------------------------------------------------------------------
\* _maybe_extend_arcs_and_states: at least twice as long when cells are missing.
Grown(reserved, total, added) ==
    IF total + added <= reserved THEN reserved
    ELSE reserved + IF reserved >= total + added - reserved THEN reserved
                    ELSE total + added - reserved

\* _extend_buffer_or_param, _extend_buffer_2x: zeros behind what there is.
Extended(buffer, reserved, zero) ==
    [i \in 0 .. reserved - 1 |-> IF i \in DOMAIN buffer THEN buffer[i] ELSE zero]

\* copy_ of a model's data to the cells from start on.
Copied(buffer, start, m, count) ==
    [i \in DOMAIN buffer |->
        IF start <= i /\ i < start + count THEN <<m, i - start>> ELSE buffer[i]]

\* model2x[id] = x in a tensor that is long enough now.
Assigned(table, reserved, zero, id, x) ==
    [i \in 0 .. reserved - 1 |->
        IF i = id THEN x ELSE IF i \in DOMAIN table THEN table[i] ELSE zero]

\* The id add_model gives: any of the free ones, or a new one.
NextIds == IF free_ids # {} THEN free_ids ELSE {num_models}

\* the table of models is doubled when a new id does not fit
ModelsGrown(id) ==
    IF id < num_models_reserved THEN num_models_reserved ELSE 2 * num_models_reserved

\* mutant of Reallocated: the growth of the states alone is missed
ReallocatedTables(sizes) ==
    IF sizes[1] = Sizes[1] /\ sizes[3] = Sizes[3] THEN full_graph ELSE NoGraph

\* The callbacks run when a tensor was reallocated: reset_cuda_graphs_state.
Reallocated(sizes) == IF sizes = Sizes THEN full_graph ELSE NoGraph

\* add_model(m) returns id.
AddModel(m, id) ==
    LET slots == ModelsGrown(id)
        states == Grown(num_states_reserved, num_states_total, states_of[m])
        arcs == Grown(num_arcs_extended_reserved, num_arcs_extended_total, extended_arcs_of[m])
    IN  /\ free_ids' = free_ids \ {id}
        /\ num_models' = IF id = num_models THEN num_models + 1 ELSE num_models
        /\ model2active' = Assigned(model2active, slots, FALSE, id, TRUE)
        /\ model2alpha' = Assigned(model2alpha, slots, 0, id, alpha_of[m])
        /\ model2num_states' = Assigned(model2num_states, slots, 0, id, states_of[m])
        /\ model2num_arcs_extended' =
              Assigned(model2num_arcs_extended, slots, 0, id, extended_arcs_of[m])
        /\ model2states_offset' = Assigned(model2states_offset, slots, 0, id, num_states_total)
        /\ model2arcs_offset' = Assigned(model2arcs_offset, slots, 0, id, num_arcs_extended_total)
        /\ all_states' = Copied(Extended(all_states, states, Zero),
                                num_states_total, m, states_of[m])
        /\ all_arcs' = Copied(Extended(all_arcs, arcs, Zero),
                              num_arcs_extended_total, m, arcs_of[m])
        /\ num_states_total' = num_states_total + states_of[m]
        /\ num_arcs_extended_total' = num_arcs_extended_total + extended_arcs_of[m]
        /\ num_models_reserved' = slots
        /\ num_states_reserved' = states
        /\ num_arcs_extended_reserved' = arcs
        /\ full_graph' = Reallocated(<<slots, states, arcs>>)

-----------------------------------------------------------------------------
\* _clear_buffer_or_param_range: cells start .. end - 1 of the length in use are
\* cut out, what follows moves to the left and zeros follow.
Cut(buffer, start, end, length) ==
    [i \in DOMAIN buffer |->
        IF i < start \/ i >= length THEN buffer[i]
        ELSE IF i < length - (end - start) THEN buffer[i + (end - start)] ELSE Zero]

\* mutant of Shifted: only models with higher ids are looked for behind the gap
ShiftedHigherIds(offset, active, id, size) ==
    [i \in DOMAIN offset |->
        IF i = id THEN 0
        ELSE IF active[i] /\ i > id /\ offset[i] >= offset[id] THEN offset[i] - size
        ELSE offset[i]]

\* The offsets of the active models behind the gap follow their data; the removed
\* model's own is cleared.
Shifted(offset, active, id, size) ==
    [i \in DOMAIN offset |->
        IF i = id THEN 0
        ELSE IF active[i] /\ offset[i] >= offset[id] THEN offset[i] - size
        ELSE offset[i]]

\* remove_model raises ValueError.
RemoveModelRaises(id) == id \in free_ids \/ id >= num_models

RemoveModel(id) ==
    LET states == model2num_states[id]
        arcs == model2num_arcs_extended[id]
        start_state == model2states_offset[id]
        start_arc == model2arcs_offset[id]
    IN  /\ ~RemoveModelRaises(id)
        /\ model2active' = [model2active EXCEPT ![id] = FALSE]
        /\ model2alpha' = [model2alpha EXCEPT ![id] = 0]
        /\ free_ids' = free_ids \cup {id}
        /\ all_arcs' = Cut(all_arcs, start_arc, start_arc + arcs, num_arcs_extended_total)
        /\ all_states' = Cut(all_states, start_state, start_state + states, num_states_total)
        /\ num_states_total' = num_states_total - states
        /\ num_arcs_extended_total' = num_arcs_extended_total - arcs
        /\ model2num_states' = [model2num_states EXCEPT ![id] = 0]
        /\ model2num_arcs_extended' = [model2num_arcs_extended EXCEPT ![id] = 0]
        /\ model2states_offset' = Shifted(model2states_offset, model2active', id, states)
        /\ model2arcs_offset' = Shifted(model2arcs_offset, model2active', id, arcs)
        /\ UNCHANGED <<num_models, num_models_reserved, num_states_reserved,
                       num_arcs_extended_reserved, full_graph>>

-----------------------------------------------------------------------------
\* The decoder captures graphs over the tensors of now, and replays those it has.
Capture ==
    /\ full_graph' = IF full_graph = NoGraph THEN Sizes ELSE full_graph
    /\ UNCHANGED <<num_models, free_ids, model2active, model2alpha, model2num_states,
                   model2states_offset, model2num_arcs_extended, model2arcs_offset,
                   num_states_total, all_states, num_arcs_extended_total, all_arcs,
                   num_models_reserved, num_states_reserved, num_arcs_extended_reserved>>

\* A model's own data: its states, its arcs with padding, its weight.
DataOf(m) ==
    [states |-> [i \in 0 .. states_of[m] - 1 |-> <<m, i>>],
     arcs |-> [i \in 0 .. extended_arcs_of[m] - 1 |-> IF i < arcs_of[m] THEN <<m, i>> ELSE Zero],
     alpha |-> alpha_of[m]]

\* What advance reads for a model id: the cells from its offsets on.
Slice(buffer, offset, size, id) == [i \in 0 .. size[id] - 1 |-> buffer[offset[id] + i]]
StoredAt(id) ==
    [states |-> Slice(all_states, model2states_offset, model2num_states, id),
     arcs |-> Slice(all_arcs, model2arcs_offset, model2num_arcs_extended, id),
     alpha |-> model2alpha[id]]
=============================================================================
