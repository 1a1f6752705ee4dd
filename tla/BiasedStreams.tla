---------------------------- MODULE BiasedStreams ----------------------------
(***************************************************************************)
(* Per-stream biasing in CacheAwareRNNTPipeline                            *)
(* (nemo/collections/asr/inference/utils/per_stream_biasing.py,            *)
(* nemo/collections/asr/inference/pipelines/cache_aware_rnnt_pipeline.py): *)
(* the options of a stream carry a biasing config, an object the caller    *)
(* made and may use for several streams and sessions.  Each step looks the *)
(* configs of its streams up in the decoder's multi-model and adds those   *)
(* that are missing, decodes, and releases the configs of streams that     *)
(* ended; close_session removes every model there is.  A config that is    *)
(* not auto-managed is added and removed by the user.                      *)
(*                                                                         *)
(* Only streams with a biasing request are followed.  A group is the batch *)
(* of one cache_aware_transcribe_step: frames that are last and frames     *)
(* that are not never share one.                                           *)
(***************************************************************************)
EXTENDS BiasingMultiModel, Sequences

CONSTANTS
    BiasedSids,    \* streams with a biasing request
    Configs,
    model_of,      \* the model a config's phrases compile to
    auto_managed,  \* configs with auto_manage_multi_model
    max_group      \* longest group

ASSUME BiasedStreamsAssumption ==
    /\ model_of \in [Configs -> Models]
    /\ auto_managed \subseteq Configs
    /\ max_group \in Positive

VARIABLES
    multi_model_id,  \* of every config, NoId for None
    biasing_cfg,     \* config of every stream in the state pool
    group, is_last,  \* streams of the running step, and whether their frames are last
    remaining,       \* what the running loop over them has left
    phase,           \* "idle" | "prepare" | "decode" | "release" | "close"
    stale_ids        \* history: whether close_session left an id in a config

biasingVars == <<mmVars, multi_model_id, biasing_cfg, group, is_last, remaining, phase, stale_ids>>

NoId == -1

Groups == {g \in UNION {[1 .. n -> BiasedSids] : n \in 1 .. max_group} :
              \A i, j \in DOMAIN g : g[i] = g[j] => i = j}
StreamsOf(g) == {g[i] : i \in DOMAIN g}
NoStreams == [sid \in {} |-> sid]
Without(pool, sids) == [sid \in DOMAIN pool \ sids |-> pool[sid]]

BiasingInit ==
    /\ MMInit
    /\ multi_model_id = [c \in Configs |-> NoId]
    /\ biasing_cfg = NoStreams
    /\ group = <<>> /\ is_last = FALSE /\ remaining = <<>> /\ phase = "idle"
    /\ stale_ids = FALSE

GroupReturns == group' = <<>> /\ is_last' = FALSE /\ remaining' = <<>> /\ phase' = "idle"

\* The config of the next stream of the loop.
Config == biasing_cfg[Head(remaining)]
NextStream ==
    /\ remaining' = Tail(remaining)
    /\ UNCHANGED <<biasing_cfg, group, is_last, phase, stale_ids>>

-----------------------------------------------------------------------------
\* A step begins; new streams enter the state pool with their options.
StartGroup ==
    /\ phase = "idle"
    /\ \E g \in Groups, l \in BOOLEAN :
          /\ \E cfg \in [StreamsOf(g) \ DOMAIN biasing_cfg -> Configs] :
                biasing_cfg' = [sid \in DOMAIN biasing_cfg \cup StreamsOf(g) |->
                                  IF sid \in DOMAIN cfg THEN cfg[sid] ELSE biasing_cfg[sid]]
          /\ group' = g /\ is_last' = l /\ remaining' = g
    /\ phase' = "prepare"
    /\ UNCHANGED <<mmVars, multi_model_id, stale_ids>>

\* Whether the id a config remembers is one of a model in the decoder.
Compiled(c) == multi_model_id[c] # NoId /\ model2active[multi_model_id[c]]

\* build_multi_biasing_ids_np, loop body: a model that is active is used as it is,
PrepareKept ==
    /\ phase = "prepare" /\ remaining # <<>>
    /\ Compiled(Config)
    /\ NextStream
    /\ UNCHANGED <<mmVars, multi_model_id>>

\* one that is not is added if the pipeline manages it,
PrepareAdded ==
    /\ phase = "prepare" /\ remaining # <<>>
    /\ ~Compiled(Config) /\ Config \in auto_managed
    /\ \E id \in NextIds :
          /\ AddModel(model_of[Config], id)
          /\ multi_model_id' = [multi_model_id EXCEPT ![Config] = id]
    /\ NextStream

\* and skipped with a warning if the user does.
PrepareSkipped ==
    /\ phase = "prepare" /\ remaining # <<>>
    /\ ~Compiled(Config) /\ Config \notin auto_managed
    /\ multi_model_id' = [multi_model_id EXCEPT ![Config] = NoId]
    /\ NextStream
    /\ UNCHANGED mmVars

Prepared ==
    /\ phase = "prepare" /\ remaining = <<>>
    /\ phase' = "decode"
    /\ UNCHANGED <<mmVars, multi_model_id, biasing_cfg, group, is_last, remaining, stale_ids>>

Decode ==
    /\ phase = "decode"
    /\ Capture
    /\ remaining' = IF is_last THEN group ELSE <<>>
    /\ phase' = "release"
    /\ UNCHANGED <<multi_model_id, biasing_cfg, group, is_last, stale_ids>>

\* The encoder or the decoder raises: so does the step, and nothing is released.
DecodeRaises ==
    /\ phase = "decode"
    /\ GroupReturns
    /\ UNCHANGED <<mmVars, multi_model_id, biasing_cfg, stale_ids>>

\* mutant of Release: the model goes, the config remembers its id
ReleaseKeepId ==
    /\ phase = "release" /\ remaining # <<>>
    /\ IF Config \in auto_managed /\ multi_model_id[Config] # NoId
       THEN RemoveModel(multi_model_id[Config]) /\ UNCHANGED multi_model_id
       ELSE UNCHANGED <<mmVars, multi_model_id>>
    /\ NextStream

\* release_auto_managed_stream_biasing of a stream that ended.
Release ==
    /\ phase = "release" /\ remaining # <<>>
    /\ IF Config \in auto_managed /\ multi_model_id[Config] # NoId
       THEN /\ RemoveModel(multi_model_id[Config])
            /\ multi_model_id' = [multi_model_id EXCEPT ![Config] = NoId]
       ELSE UNCHANGED <<mmVars, multi_model_id>>
    /\ NextStream

\* remove_model raises ValueError and the step with it.
ReleaseRaises ==
    /\ phase = "release" /\ remaining # <<>>
    /\ Config \in auto_managed /\ multi_model_id[Config] # NoId
    /\ RemoveModelRaises(multi_model_id[Config])
    /\ GroupReturns
    /\ UNCHANGED <<mmVars, multi_model_id, biasing_cfg, stale_ids>>

\* The states of streams that ended are deleted after the response.
EndGroup ==
    /\ phase = "release" /\ remaining = <<>>
    /\ biasing_cfg' = IF is_last THEN Without(biasing_cfg, StreamsOf(group)) ELSE biasing_cfg
    /\ GroupReturns
    /\ UNCHANGED <<mmVars, multi_model_id, stale_ids>>

-----------------------------------------------------------------------------
\* close_session: release_all_biasing_models removes every active model, the
\* highest id first, ...
CloseSession ==
    /\ phase = "idle"
    /\ phase' = "close"
    /\ UNCHANGED <<mmVars, multi_model_id, biasing_cfg, group, is_last, remaining, stale_ids>>

ActiveIds == {id \in 0 .. num_models - 1 : model2active[id]}

CloseRemove ==
    /\ phase = "close"
    /\ \E id \in ActiveIds :
          /\ \A other \in ActiveIds : other <= id
          /\ RemoveModel(id)
    /\ UNCHANGED <<multi_model_id, biasing_cfg, group, is_last, remaining, phase, stale_ids>>

\* ... and clears the ids of the streams still in the state pool, then the pool.
CloseDone ==
    /\ phase = "close" /\ ActiveIds = {}
    /\ multi_model_id' = [c \in Configs |->
          IF \E sid \in DOMAIN biasing_cfg : biasing_cfg[sid] = c THEN NoId ELSE multi_model_id[c]]
    /\ stale_ids' = (stale_ids \/ \E c \in Configs : multi_model_id'[c] # NoId)
    /\ biasing_cfg' = NoStreams
    /\ phase' = "idle"
    /\ UNCHANGED <<mmVars, group, is_last, remaining>>

\* open_session and reset_session clear the state pool, delete_state takes one
\* stream out of it: no biasing model is released.
OpenSession ==
    /\ phase = "idle" /\ biasing_cfg # NoStreams
    /\ biasing_cfg' = NoStreams
    /\ UNCHANGED <<mmVars, multi_model_id, group, is_last, remaining, phase, stale_ids>>

DeleteState ==
    /\ phase = "idle"
    /\ \E sid \in DOMAIN biasing_cfg : biasing_cfg' = Without(biasing_cfg, {sid})
    /\ UNCHANGED <<mmVars, multi_model_id, group, is_last, remaining, phase, stale_ids>>

\* The user compiles and removes the configs that are not auto-managed
\* (add_to_multi_model, remove_from_multi_model).
UserAdds ==
    /\ phase = "idle"
    /\ \E c \in Configs \ auto_managed :
          /\ multi_model_id[c] = NoId
          /\ \E id \in NextIds :
                /\ AddModel(model_of[c], id)
                /\ multi_model_id' = [multi_model_id EXCEPT ![c] = id]
    /\ UNCHANGED <<biasing_cfg, group, is_last, remaining, phase, stale_ids>>

UserRemoves ==
    /\ phase = "idle"
    /\ \E c \in Configs \ auto_managed :
          /\ multi_model_id[c] # NoId
          /\ RemoveModel(multi_model_id[c])
          /\ multi_model_id' = [multi_model_id EXCEPT ![c] = NoId]
    /\ UNCHANGED <<biasing_cfg, group, is_last, remaining, phase, stale_ids>>

BiasingNext ==
    \/ StartGroup \/ PrepareKept \/ PrepareAdded \/ PrepareSkipped \/ Prepared
    \/ Decode \/ DecodeRaises \/ Release \/ ReleaseRaises \/ EndGroup
    \/ CloseSession \/ CloseRemove \/ CloseDone \/ OpenSession \/ DeleteState
    \/ UserAdds \/ UserRemoves

BiasingSpec == BiasingInit /\ [][BiasingNext]_biasingVars

-----------------------------------------------------------------------------
\* The data at an id is that of the config's own model.
Own(c) ==
    LET id == multi_model_id[c] IN model2active[id] /\ StoredAt(id) = DataOf(model_of[c])

\* A stream is decoded with the model of its own config, at its own weight, and
\* without one only if the user has not compiled it; and a stream that ends
\* releases its own model: whatever was added and removed in between, whichever
\* steps raised, and although streams share configs.  Excepted is what follows a
\* close_session that removed a model of which a config still holds the id.
BiasedByOwn ==
    ~stale_ids =>
        /\ phase = "decode" =>
              \A sid \in StreamsOf(group) :
                  LET c == biasing_cfg[sid]
                  IN  IF multi_model_id[c] = NoId THEN c \notin auto_managed ELSE Own(c)
        /\ phase = "release" =>
              \A sid \in StreamsOf(remaining) :
                  LET c == biasing_cfg[sid] IN multi_model_id[c] # NoId => Own(c)

\* A captured graph is only replayed over the tensors it was captured with: any
\* growth of any of them since, for whichever stream, has dropped it.
GraphsUseLiveBuffers == phase = "decode" => full_graph \in {NoGraph, Sizes}

\* The list of models an outsider sees.
Removed == [alpha |-> 0]
ModelList == [id \in 0 .. num_models - 1 |-> IF model2active[id] THEN StoredAt(id) ELSE Removed]

Ref == INSTANCE BiasingReference WITH
    Models <- {DataOf(m) : m \in Models}, Identity <- Removed, models <- ModelList

\* The multi-model keeps every model as it was added under its id, however the
\* tensors grow and close up, as the reference implementation does that keeps
\* each model in an object of its own.
ImplementsReference == Ref!Spec
=============================================================================
