-------------------------- MODULE BiasingReference --------------------------
(***************************************************************************)
(* GPUBiasingMultiModelReference                                           *)
(* (nemo/collections/asr/parts/context_biasing/biasing_multi_model.py):    *)
(* a list of biasing models, each under the id it was added with, until it *)
(* is removed; ids are reused.  GPUBiasingMultiModel, which keeps all      *)
(* models in the same tensors, is shown to implement it.                   *)
(***************************************************************************)
EXTENDS Naturals

CONSTANTS
    Models,   \* biasing models with their weight
    Identity  \* the module that stands in for a removed model

VARIABLES
    models,   \* list: id -> model, or Identity
    free_ids  \* ids of removed models

Init == models = [id \in {} |-> Identity] /\ free_ids = {}

\* add_model takes any id from the set of free ones,
AddUnderFreeId ==
    \E m \in Models, id \in free_ids :
        /\ models' = [models EXCEPT ![id] = m]
        /\ free_ids' = free_ids \ {id}

\* or makes the list longer when there is none.
AddUnderNewId ==
    /\ free_ids = {}
    /\ \E m \in Models, id \in {0} \cup {i + 1 : i \in DOMAIN models} :
          /\ id \notin DOMAIN models
          /\ models' = [i \in 0 .. id |-> IF i = id THEN m ELSE models[i]]
    /\ UNCHANGED free_ids

AddModel == AddUnderFreeId \/ AddUnderNewId

RemoveModel ==
    \E id \in DOMAIN models \ free_ids :
        /\ models' = [models EXCEPT ![id] = Identity]
        /\ free_ids' = free_ids \cup {id}

Next == AddModel \/ RemoveModel

Spec == Init /\ [][Next]_<<models, free_ids>>
=============================================================================
