# Verification of NeMo Speech: streaming, checkpoints, preemption, voice agent

TLA+ modules, TLC configurations and TLAPS proofs about the parts of this
repository in which state is shared, reused or recovered:

* **streaming ASR** (`src/nemo/collections/asr/`): a continuous batch of audio
  streams over slot tables that later streams and later sessions reuse, and the
  biasing models of all streams in one set of tensors;
* **checkpoints and graceful exit of a training job** (`src/nemo/utils/`): what is on
  disk between any two file operations, what a job that starts again makes of it,
  and how the ranks of a job stop at the same place;
* **turn taking of the voice agent** (`src/nemo/agents/voice_agent/`): speech
  recognition, voice activity detection, diarization in the background and the bot's
  own speech, which all reach one service in any order.

The rest of the repository is neural networks, data pipelines and text processing;
the inventory says what is left out and why.

Contents: [inventory](#inventory) · [modules](#modules-and-the-code-they-model) ·
[runs](#runs) · [conditions](#conditions-in-the-properties) · [fairness](#fairness) ·
[findings](#findings) · [proofs](#proofs) ·
[not modelled](#abstractions-and-what-is-not-modelled) · [plan](#plan)

## Running

    tlc -config MCPipelineClients.cfg MCPipelineClients   # any run: see the table
    tlapm ContextManagerProofs.tla                        # any of the *Proofs modules

## Inventory

### Streaming ASR

| component (code) | state | operations | talks to |
|---|---|---|---|
| Frame source (`inference/streaming/framing/mono_stream.py`, `multi_stream.py`) | files not admitted yet, running streams, position of each | `set_audio_filepaths`, `__next__` | pulled by `BasePipeline.run` |
| Feature bufferer (`inference/streaming/buffering/cache_feature_bufferer.py`) | stream↔slot dictionaries, FIFO of free slots, one audio buffer and one feature row per slot | `update` (assign, reset, push, preprocess, push, free), `reset` | called by the pipeline's step; frees in the call that serves a last frame |
| Context manager (`inference/utils/context_manager.py`) | stream↔slot dictionaries, FIFO of free slots, encoder cache row per slot | `get_context`, `update_cache`, `reset_slots` | called around the encoder, for one group of the batch at a time |
| CTC pipeline (`inference/pipelines/base_pipeline.py`, `cache_aware_ctc_pipeline.py`) | state pool: stream → tokens, words | `transcribe_step`, `run`, `open_session`, `close_session`, `delete_state` | owns the three tables above and cleans each at another point of a step |
| Streaming state (`inference/streaming/state/*.py`) | tokens since the last end of utterance, words not answered yet | `update_state`, `cleanup_after_eou`, `cleanup_after_response` | the decoder writes it, the text processor and the response read it |
| Simulstream adapter (`inference/utils/simulstream_pipeline_adapter.py`) | current stream id, first-chunk flag, accumulated text | `process_chunk`, `end_of_stream`, `clear` | an outside client drives it; it drives the pipeline without last frames |
| Biasing multi-model (`parts/context_biasing/biasing_multi_model.py`) | ids, offsets and sizes of the models; the states and arcs of all of them in shared tensors | `add_model`, `remove_model` | CUDA graphs of the decoder point into the tensors; a callback drops them |
| Per-stream biasing (`inference/utils/per_stream_biasing.py`, `cache_aware_rnnt_pipeline.py`, `parts/context_biasing/biasing_multi_model.py` `BiasingRequestItemConfig`) | the id each config remembers, the config of each stream | prepare, release, close session; user's add and remove | adds models before a step of the decoder, removes those of ended streams after it |

Hard here: a step may raise in the middle (no slot, preprocessor, encoder), after
which some tables have been changed and others have not; slots, biasing ids and,
across sessions, even stream ids are reused, so a stale row is somebody else's audio
or phrases; streams begin and end at different frames of one batch; the tables free
slots at different moments; removing a biasing model moves the data of others. What
makes it right: a stream is given only its own audio, its own context and its own
biasing; the tables stay inverse to each other and no slot leaks; every frame's token
reaches the caller once and in order; `run` returns the text of every file.

### Checkpoints and graceful exit

| component (code) | state | operations | talks to |
|---|---|---|---|
| Resume selection (`exp_manager.py` `check_resume`) | none; reads the directory | one decision at start | sets `trainer.ckpt_path` |
| Checkpoint callback (`callbacks/nemo_model_checkpoint.py`) | `best_k_models`, `last_model_path`, deferred removals; on disk: checkpoints and unfinished markers | pruning at construction, `setup` cleaning, `load_state_dict`, saves on validation and at train end, removals | Lightning's `ModelCheckpoint` (overridden), the checkpoint IO |
| Asynchronous IO (`callbacks/dist_ckpt_io.py`) | queue of pending saves | `save_checkpoint`, `maybe_finalize_save_checkpoint`, `teardown` | a writer process; its callbacks finalize and run deferred removals |
| Preemption (`callbacks/preemption.py`) | signal flag of rank 0, handlers of every rank | broadcast of the flag at the end of a batch and, with `read_batch`, before one | saves the *last checkpoint and leaves |
| Timer and exit (`exp_manager.py` `StatelessTimer`, `_save_last_checkpoint_and_exit`, `_flush_in_flight_batch_progress`) | the deadline, batch progress | broadcast of the decision, save and raise | the checkpoint callback; skips `on_train_end` |
| Guards of `read_batch` (`core/utils/lightning_utils.py`) | batches taken | checks before each batch | preemption, Lightning's SIGTERM flag, timer, in this order |

Hard here: the process may die between any two file operations, again and again;
asynchronous writers finish in any order and may still be writing when the process
leaves; the marker, the data and the removal of the former checkpoint must come in
the right order in each of three places; callbacks of `on_train_end` run in an order;
a signal reaches one rank or all, at any moment; the deadline passes between two
checks, or together with a signal; the exit counts a batch which is in flight. What
makes it right: what looks finished is whole, the only good copy is not given up
before the next one is there, a restart goes on from the newest finished step, markers
and ranking agree with the directory, all ranks leave at the same place, and batches
are counted once across exits and resumptions.

### Voice agent

| component (code, under `src/nemo/agents/voice_agent/pipecat/`) | state | operations | talks to |
|---|---|---|---|
| Turn taking (`services/nemo/turn_taking.py`) | buffered text and its speaker tag, whether the user and the bot speak, when the bot stopped, whether the user's turn was announced | one handler per kind of frame, `reset` | pushes text and turn frames to the language model |
| Diarization (`services/nemo/diar.py`) | VAD flag, current speaker, audio queue, result queue | `run_stt`, a thread, a response task, `process_frame`, `reset` | `DiarResultFrame` to turn taking |
| Speech recognition (`services/nemo/stt.py`) | – | transcriptions with `<EOU>` and `<EOB>` labels | text frames to turn taking |
| Transports (pipecat, external) | VAD state, whether the bot's audio plays | started/stopped frames | all of the above |

Hard here: words, VAD changes, diarization results and the bot's timer interleave
freely; a word may arrive before the VAD hears the user or after it took the user for
done; a diarization result may come after the span it is about; a reset may come in
the middle of a span. What makes it right: no word is lost, repeated or reordered;
what the user says is answered unless it is a backchannel; turns are closed; a turn
carries its own speaker.

### The rest

PROJECT.json lists every component. Left for later: the rest of the RNNT pipeline (same
tables, another decoder state) and the details of the STT service. Left out altogether:
buffered pipelines, decoders, endpointers, text processing and ITN (numeric or string
functions without shared state), cloud IO, `.nemo` archives, loggers, data loading,
models, losses, tokenizers, scripts.

## Modules and the code they model

    SlotAllocation ........................ abstract: who holds each slot
      ^ implemented by                        ^ implemented by
    ContextManagerProtocol <-- INSTANCE --- SlotTables --- EXTENDS --> BuffererProtocol
      EXTENDS                                 EXTENDS
    CacheAwareContextManager                BatchedCacheFeatureBufferer    FrameStreamer
              \___________ INSTANCE ___________/                                |
                     CacheAwarePipeline                                        |
                       /           \                                           |
          SimulstreamAdapter     PipelineRun ____________ EXTENDS _____________/
                       \___________/
                      PipelineClients

    StreamSlots, StreamBatches ............ dictionaries, slots, batches of streams
    Subsequences .......................... the elements of a list that lie in a set

    BiasedStreams --- EXTENDS --> BiasingMultiModel --- implements --> BiasingReference

    CheckResume <--- INSTANCE --- CheckpointLifecycle

    PreemptionProtocol --- implements --> SingleJob

    VoiceAgent --- EXTENDS --> TurnTaking

    StreamingProofs (PipelineClients), SlotTablesProofs (bufferer and both tables),
    ContextManagerProofs, BiasingProofs, CheckResumeProofs, LifecycleProofs,
    PreemptionProofs, VoiceAgentProofs .... theorems about these modules

PROJECT.json's `map` gives the lines of the code behind every definition.

**FrameStreamer.** Audio is a number of samples per file. One call of
`ContinuousBatchedFrameStreamer.__next__` is one action with its admission of files
(`NumAdmitted`), the step of every iterator (`StepIterators`) and one of four
outcomes: a batch (`ReturnBatch`), the recursive call on `StopIteration` from
`MultiStream` (`RecurseIntoNext`), that recursion without anything left to change,
which hits Python's limit (`RecursionError`), and the end (`StopGenerator`).
`NewGenerator` is `set_audio_filepaths` in a caller that streams again.

**CacheAwareContextManager, BatchedCacheFeatureBufferer.** The operations of the two
classes over their dictionaries (`Put`, `Delete` of StreamSlots), FIFO queues and
rows. The loops over a batch are one action per iteration, because a later iteration
may raise. A row holds the set of streams whose audio shaped it: what a stale row is,
a tensor would not tell. `Queue.put` on a full queue blocks: the guard
`Len(...) < num_slots` makes that a deadlock TLC would report.

**ContextManagerProtocol, BuffererProtocol.** Each class alone, driven with every
batch of distinct streams and every set of last ones, with every raise. The
bufferer's caller keeps at most `max_open` streams open. Both implement
`SlotAllocation`: streams without a slot acquire free ones, slots are released.
**SlotTables** chooses one of the two at the start, so that one specification has both.

**CacheAwarePipeline.** `transcribe_step` for frames as a sequence of actions (`step`
is the place in the code): states enter the pool, the bufferer is updated, the
group of not-last and then of last requests goes through the context manager, the
encoder and the decoder, the response is made and last states leave. `StepRaises`
drops the locals and nothing else, as the code does. A frame decodes to one token,
its index. The endpointer's verdict is any subset of the group; a last frame always
ends its utterance.

**PipelineRun.** `BasePipeline.run`, called again and again: the generator, the
session (only the pool is cleared), the accumulation of final transcripts. A raise
leaves `run` without `close_session`; `aborted` is a history variable. The source
of a stream's audio is the session with its id, as ids restart at 0.

**SimulstreamAdapter.** The adapter over the same pipeline: every chunk is sent with
`is_last` false, `end_of_stream` and `clear` delete the state of the stream.
**PipelineClients** lets either client drive the one pipeline.

**BiasingMultiModel.** `GPUBiasingMultiModel`: `AddModel` puts a model behind the
others and makes the tensors of models, states and arcs longer, each when it is full
(`Grown`, `ModelsGrown`); `RemoveModel` cuts the model's cells out (`Cut`) and moves
the offsets of the models behind it (`Shifted`). A cell names the model and the state
or arc it holds. `full_graph` is the sizes of the tensors that CUDA graphs were
captured over. **BiasingReference** is `GPUBiasingMultiModelReference`: one object per
id. **BiasedStreams** is the pipeline's use of the multi-model: the loop that prepares
the configs of a batch, the decoder, the release of the configs of ended streams,
`close_session`, and a user who adds and removes the configs the pipeline does not
manage. Several streams may carry the same config object.

**CheckResume.** `check_resume` as a relation between a directory (kind, step,
distributed or not, finished or not), the options and a verdict. What `glob`'s
order decides is any element.

**CheckpointLifecycle.** The disk (`ckpt`, `marked`) and the memory of the process.
The main thread's handlers put file-system effects into `todo`, which is worked off
one at a time (`Effect`); `Crash` may come between any two. `Start` takes its
decision from `CheckResume`, prunes surplus top-k checkpoints, then `Setup` cleans
what is marked and `load_state_dict` restores the ranking. `on_validation_end`,
`GracefulExit` and `on_train_end` save. With `async_save`, `Schedule` hands the data
to a writer (`WriterDone`, any order), and `maybe_finalize_save_checkpoint`
finalizes in the order of the calls and runs the removals that waited.
`saved_step` and `exit_step` are history variables. The configuration of the training
is a variable that `Init` chooses.

**PreemptionProtocol.** N ranks at N places of the training loop. A broadcast waits for
rank 0 alone, so a rank may run ahead of another between two gradient reductions;
`posted` is what rank 0 has sent at each place. `OnFitStart`, `OnTrainBatchEnd` and
`_check_shutdown_before_next_batch` are the checks in the order their callbacks are
registered, `SaveAndExit` the flush of the batch in flight and the decision,
`SaveLast` the save in which all ranks take part. SIGTERM comes to any rank, at any moment
and any number of times, and so does the deadline. Which handler it meets is
`Handler`: the callback's after `on_train_start` and once, for then it gives Lightning's
back (`released`); else Lightning's, which sets `received_sigterm` on that rank.
`SigtermCheck` is the only check that goes by such a flag, without a broadcast, so ranks may
part there: `Hung` says that they did and wait for each other.
**SingleJob** is what the ranks together promise: once asked, at most one more
batch, then a save at the step reached.

**TurnTaking.** One operator per handler of `NeMoTurnTakingService`. Text is a sequence
of numbered words; what a step pushes or dismisses is in `event`. `_bot_stop_time` is
the timer: running, or over by the time the next frame is handled. **VoiceAgent** lets
everything outside act at once: the VAD, the STT service with its labels, the
diarizer's queue and late results, the bot, and the reset.

Definitions under the comment "mutant of X" are X with a plausible bug; no
specification uses them. They serve to show that each property can be broken.

## Runs

Every property is about a hazard in PROJECT.json. "States" are distinct ones.

| run (cfg) | states | what it asks |
|---|---|---|
| `stream_parts` (MCStreamParts) | 585 333 | one part of the streaming, alone under any caller. The generator: no sample is dropped, is_first and is_last come once each at the right frame, a batch is as full as it can be and never has a stream twice, the generator ends. The slot tables, with more streams than slots and raises anywhere: the manager's queue is exact, its rows are private, ended streams are gone; the bufferer's features are the stream's own, "No free slots" comes only over the limit; both implement the abstract table. The biasing models: streams are decoded with their own biasing, no captured graph outlives its tensors, the packed tensors implement the reference that keeps each model apart |
| `pipeline_clients` (MCPipelineClients) | 125 908 | `run` in two sessions, each may abort, or four streams through the adapter: the encoder sees own audio, the three tables agree between steps, nothing is lost or repeated, every text is returned, there is always a slot, `run` returns |
| `checkpoint` (MCCheckpoint) | 718 421 | five kinds of training, crashes anywhere: what looks finished is whole, nothing finalized is lost, the only copy is kept, markers and ranking are clean at start, a removal belongs to one save, a synchronous exit keeps its step, the end of training finalizes all. And one start in every directory of up to three checkpoints, under every option: never silently from scratch but with `resume_past_end`, no unfinished checkpoint loaded, the newest taken, a completed run refused |
| `preemption` (MCPreemption) | 621 715 | signals and deadlines at any moment, again and again: an exit by an answer of rank 0 is one exit with one progress, what is ready, completed and consumed agrees, the exit is prompt, the ranks implement one job that stops, and they do stop unless they are `Hung` |
| `voice_agent` (MCVoiceAgent) | 969 214 | words kept in order, speech answered, turns closed, the turn's own speaker |
| `pipeline_run_stale_slots`, `simulstream_leaks_slots`, `check_resume_given`, `checkpoint_async_exit`, `preemption_saved_progress`, `preemption_no_callback`, `voice_backchannel` | – | counterexamples: see [findings](#findings) |

A run of several parts, which share nothing, is a choice made at the start (`part` of
MCStreamParts, `any_directory` of MCCheckpoint): its behaviours are those of either
part, each with the bounds below, while the other part stays as it was.

The states of `voice_agent` are counted under the symmetry of the two speakers, which
no property tells apart.

### Bounds, and why they are enough

* *Streamer*: frames of two samples, files of 0 to 5 samples, so lengths below, on
  and above one, two and three frames; up to four files over two places, so both
  places are refilled, and every interleaving of ends occurs.
* *Slot tables*: two slots, three streams, batches of one or two, up to three open
  streams. Reuse, exhaustion, a batch that is the whole table and a third stream that
  waits all occur. The proofs lift the bounds.
* *Pipeline*: two slots, `batch_size` 2, one to three files of one, two or three
  frames, two sessions. Three files over two slots force a reuse inside a session;
  two sessions force the reuse of ids.
* *Adapter*: four streams of up to three chunks, two more streams than slots.
* *Biasing*: two streams, three configs of which one is the user's, with models of 1,
  2 and 1 states and 2, 2 and 1 arcs, over tensors for one model, two states and two
  arcs: every tensor grows, alone and with others, ids are reused while later models
  lie in front of earlier ones, and streams share a config. The proofs lift the bounds.
* *Resume*: the counterexample needs one checkpoint; three suffice for one finished *last
  too many beside an unfinished or *end one; two names per step make ties. The proofs
  lift the bound.
* *Lifecycle*: `max_starts` bounds crashes and exits. Single files: four starts of a
  training of five steps with a validation every second, exits also before a batch,
  let a job die inside a save, inside the cleaning after it, and inside the save that
  follows. Directories, the two best ones, and asynchronous saves (the best one, the
  best two with `read_batch`): three starts. Two scores make both better and equal
  ones.
* *Preemption*: one and two ranks with every combination of callback, timer and
  `read_batch`, epochs of three batches, two resumptions. Three ranks let two of them
  differ while neither is rank 0: they run with `read_batch`, where ranks can differ at all,
  and with the callback, the timer or neither; both at once would double the states, and
  two ranks have them. The proofs lift the bounds. The counterexamples need one or two
  ranks and two batches.
* *Voice agent*: all eight configurations, three words of two kinds, two spans of the
  user, one turn of the bot, two pieces of audio in the diarizer's queue, two
  speakers, `max_buffer_size` 2 (the default), a backchannel phrase of one word and one
  of three. A result may be a whole span late, a phrase may reach the length that
  interrupts, and words come on either side of every change. The proofs lift the
  bounds.

`CHECK_DEADLOCK FALSE` stands where the system really stops: a generator that has
ended, a pipeline after its last session, an adapter that gave up, a job that is
done or refuses to start, a conversation without further words. `stream_parts` runs
with deadlock checked, and only a generator that has ended may stay as it is: a blocked
`Queue.put` would show.

### Conditions in the properties

Some properties hold under a condition. Outside it the code behaves as follows.

* `NoEmptyFile` (FrameStreamer, and as an assumption of PipelineRun): a file without
  samples (and no flush) never yields a last frame. `MultiStream` raises
  `StopIteration` for it (`multi_stream.py:85`); the generator may then end with
  later files never streamed, or drop the frames the batch had already taken.
  `GeneratorEnds` is checked with empty files too.
* `unreset` (BuffererProtocol): when `update` raises inside its loop, the slots it
  had already taken are never reset (`cache_feature_bufferer.py:187`; the list of
  them is a local). Streams that keep those slots get features with the previous
  owner's audio. `FeaturesPrivate` leaves out exactly those slots.
* `~aborted` (PipelineRun): after an aborted run its slots stay taken: the finding
  `pipeline_run_stale_slots`. The text properties hold nevertheless.
* `stale_ids` (BiasedStreams): `close_session` removes every model of the decoder, the
  user's own ones too, and clears the ids of streams still in the state pool only
  (`per_stream_biasing.py:86-98`). A config that is not attached to such a stream keeps
  its id. Later that id may name another stream's model: the config's streams are then
  biased by it (`build_multi_biasing_ids_np` only looks whether the id is active), and
  `remove_from_multi_model` removes it; or the id is free and the removal raises
  ValueError. `BiasedByOwn` holds until such an id is left behind;
  `ImplementsReference` and `GraphsUseLiveBuffers` hold always.
* `resume_past_end` (CheckResume): `NeverSilentlyFromScratch` names the finished `*end`
  checkpoint beside which training starts anew. When there is exactly one, no branch assigns
  it (`exp_manager.py:1022`), though the docstring (`:522-523`) says it "will be loaded".
* A save over the very name being resumed (CheckpointLifecycle): with `read_batch`
  a job can be asked to exit right after resuming, at the step of its `*last`
  checkpoint, which is then marked and rewritten in place. A crash in the middle
  leaves no usable copy of that step. `on_train_end` has a guard for this
  (`nemo_model_checkpoint.py:270`), the exit path has none. `GracefulExit` resets
  the two history variables there, and `OnlyCopyKept` names the case.
* `SyncExitKeepsStep` (CheckpointLifecycle) speaks of synchronous saves; for
  asynchronous ones see the finding `checkpoint_async_exit`.
* `exits_before = 0` (PreemptionProtocol): `ProgressMatchesSteps` promises that the batch
  counter is the number of optimizer steps as long as every exit came after a batch; what
  an exit before one does is the finding `preemption_saved_progress`. That nothing is ready
  but not completed, and that the dataloader's position is the number of steps, is
  promised always.
* `exit_at[r] \in Broadcasts` (PreemptionProtocol): `LeaveTogether` is about exits by an
  answer of rank 0, in every configuration and after any signals. A rank that leaves by its
  own `received_sigterm` may part from the others: `StopsWhenAsked` names that state,
  `Hung`, and the finding `preemption_no_callback` shows it. With the callback it takes a
  signal that meets Lightning's handler: one before `on_train_start`, or a second one on
  the same rank, to which the first gave that handler back (`preemption.py:70`, `:75`).
* `~cut`, `known` (VoiceAgent): `SpeakerOfTheTurn` promises the speaker for the first
  final text of a span whose speaker the diarizer found in time. The second text of
  a span has an untagged buffer and gets `_prev_speaker_id`, the speaker before the
  current one (`turn_taking.py:315-317`, `:433`).
* `turn_dismissed` (VoiceAgent): a backchannel that is dismissed after part of the turn
  was pushed clears the flag without a UserStopped frame: the turn stays open
  downstream until the next one.
* `agent.use_vad` (VoiceAgent): without a VAD the service always takes the user for
  speaking, so nothing ends a turn but `<EOU>`, and the buffer may wait.

Known behaviour that no property is about:

* With `val_check_interval` greater than 1 and `async_save` the save of
  `NeMoModelCheckpoint.on_train_end` is scheduled after `AsyncFinalizerCallback`'s
  blocking finalization (`dist_ckpt_io.py:176`) when that callback comes first, so it
  stays unfinished. The asynchronous trainings of the run validate at every step.
* `<EOU>` alone opens and closes an empty turn (`turn_taking.py:213-224`). A VAD stop
  with an empty buffer, or one of a speaker tag alone, keeps the flag that the user's
  turn was announced. A late backchannel that is a whole phrase is dropped even when
  the bot is silent (`:292-296`). Words heard after the VAD's stop wait for the next
  turn. A reset in the middle of a span clears `_vad_user_speaking` in the diarizer
  also when it runs without a VAD (`diar.py:327-332`), which then stays deaf.

## Fairness

* FrameStreamer: `WF(StreamerNext)`, which MCStreamParts keeps. The loop `for requests in request_generator` of `run`
  calls `__next__` until it stops.
* PipelineClients: `WF(Running /\ OfRun)`. Sequential code that was called goes on. No
  call of `run`, and no chunk of simulstream, is owed.
* CheckpointLifecycle: `WF(Main)` and `WF(WriterDone)`, also in MCCheckpoint: a process that runs works
  off its code, a writer process that was started writes. Nothing is assumed of
  crashes, exits and starts: `EndingFinalizesAll` allows for a crash.
* PreemptionProtocol: weak fairness of every rank's own steps, of `Reduce` and of
  `SaveLast`: every rank works off its code, and a collective all ranks have come to
  takes place. No signal, deadline or resumption is owed. `StopsWhenAsked` and the
  finding `preemption_no_callback` rest on this.

The other specifications are for safety and state none.

## Findings

Each is a run that violates one statement of the repository.

1. `pipeline_run_stale_slots`: `reset_session` only clears the state pool
   (`base_pipeline.py:161`), while its docstring speaks of the frame buffer too.
   A run aborted by an exception leaves the slots of its streams in the bufferer and
   the context manager; the next session's streams have the same ids, find the
   entries, are not reset, and start on the old audio.
2. `simulstream_leaks_slots`: the adapter never sends `is_last` and only deletes the
   state (`simulstream_pipeline_adapter.py:417`), so slots of ended streams are never
   freed and the stream after the last free slot raises "No free slots available".
3. `check_resume_given`: `resume_from_checkpoint` is assigned first
   (`exp_manager.py:925-927`) and overwritten when `resume_if_exists` finds a
   `*last` checkpoint (`:1063`), although the docstring (`:528-530`) says "This will
   override any checkpoint found when resume_if_exists is True".
4. `checkpoint_async_exit`: with `async_save` the graceful exit schedules its save and
   raises (`exp_manager.py:1628`); nothing waits for it, the checkpoint stays marked
   unfinished, is deleted at the next start, and the job resumes from an older step.
5. `preemption_saved_progress`: the flush of the batch in flight is "meant to be called
   from an `on_train_batch_end` hook" (`exp_manager.py:1594`), but the guards of
   `read_batch` call it before a batch, which is then counted although it was not trained
   (`:1603`). The checkpoint's counter is one ahead of `global_step`, where
   `tests/core_ptl/test_resumable_dataloader_iter.py:290` asserts equality for a timer
   with `read_batch`; the resumed epoch trains one batch fewer. The test's timer
   usually expires at the end of a batch, where the flush is right.
6. `preemption_no_callback`: with `create_preemption_callback` False, or without CUDA
   (`exp_manager.py:1443-1452`), every signal goes to Lightning's handlers. Ranks that run
   between two reductions notice it at different batches, a rank waits in the save
   for ever and nothing is saved, where `lightning_utils.py:37-39` says the helper
   "saves `last.ckpt` and exits".
7. `voice_backchannel`: `src/examples/voice_agent/README.md:228` says backchannel phrases "will not
   interrupt the bot while it's talking". Text of more than `max_buffer_size` words is
   pushed as an interruption before it is compared with the phrases
   (`turn_taking.py:248`), and the speaker tag counts as a word; besides,
   `BotStartedSpeaking` does not clear the timer of an earlier `BotStoppedSpeaking`
   (`:150`), so the bot is taken for silent while it talks again.

## Proofs

Eight modules hold theorems. All are for every value of the constants that meets the
named assumptions, which TLC evaluates in the runs. Every invariant and every action
property that a passing run checks is also proved, as is the refinement of the abstract
slot table, of the reference of the biasing models and of `SingleJob`. Each inductive invariant was first checked by TLC on the bounds above.

**StreamingProofs** (any files, frame, batch and table sizes, sessions, streams and
chunks, with raises anywhere; assumed: `StreamerAssumption` for the frame source,
`RunAssumption` for the pipeline: positive sizes, no fewer slots than `batch_size`, audio
in every file). The frame source comes first, from its own assumption alone. `SrcInv`
says that the running streams are different, admitted and no more than `batch_size`;
`SrcProgress` ties what was handed out of a file to how far it was read, and says that an
admitted file is running or was streamed to its end. Both are needed for
`NothingDropped` to survive `NumAdmitted` and the recursion. `BatchKeptFull` counts with
them: the files are those that wait, run or are processed.

The pipeline is proved under both clients at once. `IInv` is the conjunction of

* `SrcInv` and `SrcProgress`, and `RequestsInv`: the requests of a step are of different
  streams, each from its own source, `is_first` exactly at index 0;
* `ControlInv`: at each place of a step, which streams the loop may have left to do. The
  streams are named by the requests (`Ids`, `IdsOf`, `OldIds`), so that the loops, the
  two groups and the three tables can be related without looking back;
* `ClientInv`: one client moves, and where it waits;
* `PoolInv`: between steps the pool holds the open streams, within one those of the batch;
* `TextInv`: `Held`, the text returned so far followed by what the state holds back, is
  `Upto` the request's index, one more once it is decoded, and nothing is left in the
  tokens of a stream that ended. `RunInv` and `AdapterInv` say the same between steps;
* `TablesInv`: `BufTable` and `CtxTable`, each table exact and holding the streams it
  should hold at this place (`BufOpen`, `CtxOpen`: the two are cleaned at different
  places); `BufRows` and `CtxRows`, whose audio the rows, the features and the contexts
  on their way may hold. All under `~Broken`: after a raise the slots stay taken, which
  is the finding `pipeline_run_stale_slots`.

`EncoderSeesOwnAudio` alone says nothing of the rows before they are read, nor
`TablesAgree` of the middle of a step, nor `NothingLostOrRepeated` of a stream whose
first frame is in the step just taken; each needs the whole of `IInv`. `TableTakes` and
`TableFrees` say of values what taking and freeing a slot do, and serve both tables and
both clients; `TableFull` is the pigeonhole behind `AlwaysASlot`. The adapter contains an
instance of the pipeline of its own: `AdapterSteps` shows that its steps are the steps
of the pipeline, so each step is proved once. There is one lemma per action, and
`InsideKeeps` for what no action within a step touches.

**LifecycleProofs** (any number of steps, starts, crashes and exits, any training and
`save_top_k`). What a crash finds on disk was prepared by effects that came before, and
what it interrupts relies on effects that would have come next; so `IndInv` speaks of
every effect in `todo`, not only of the first. `MarkInv`, `WriteInv`, `FinalizeInv` and
`DeleteInv` say of each kind what it finds prepared: by the effect before it, or already
on disk when it is the first. `RemovalInv` says that a *last checkpoint is only removed
after one that is newer was saved; with `async_save` that is the last pending save, and
`ListInv` and `QueueInv` carry it from the list of deferred removals to the
finalization. `LastInv` (`last_model_path` is the newest), `SavedInv` (a usable one is as
new as anything finalized) and `ResumeInv` (what `check_resume` chose stays the newest
until it is loaded) close the circle over a restart. `ExitInv` is for the synchronous
exit, `WholeInv`, `PruneInv` and `CleanInv` for the start: pruning deletes without a
marker, so what is partial and unmarked is in `Excess`. The lemmas named after an
invariant and `Shift` move it along when the first effect is done. That a free version
and a worst ranked checkpoint exist (`FreshNameIs`, `WorstExists`) rests on
the well-foundedness of the naturals and on pigeonholes. Results: `UnmarkedLastIsWhole`,
`NothingFinalizedIsLost`, `SyncExitKeepsStep`, `CleanAtStart`, `OneListPerSave` and
`OnlyCopyKept`.

**ContextManagerProofs** (any slots, streams, batches, with raises anywhere; assumed:
`num_slots` and `max_batch` positive, `NoStream` not a stream). None of the safety
properties is inductive alone. `IndInv` is the conjunction of `TypeOK`, `DictsInverse`
(the dictionaries are inverse to each other), `QueueHoldsTheRest` (the queue lists
exactly the slots without an owner, each once), `RowsPrivate`, `ContextInBatchOrder` and
`StepInv`. `StepInv` says what holds between the loops of a step: the streams of a
batch are distinct; each has its slot, or the assigning loop is still to come to it;
`mapping` sends its slot to its place in the batch; the ended streams the freeing loop
has left are known and their rows wiped. Without it `update_cache` could not be shown
to write a row to its owner, nor could a slot be shown to be blank when it is freed.
Lemmas on sequences describe the loops; `AssignKeepsTable` and `FreeKeepsTable` show
that the operations on dictionaries and queue keep them exact; one lemma per action
keeps `IndInv`. `EndedStreamsReleased` needs a second invariant, `ReleaseInv`: what the
freeing loop has done with the streams it has passed. `OthersUntouched`, the rows of
streams outside the batch, is proved and in no run: `RowsPrivate` covers what a run would
show. `ImplementsTable`: `Assign` is an
`Acquire` of `SlotAllocation`, `Free` a `Release`, every other step a stutter. From
`QueueHoldsTheRest` it follows that `Queue.put` never blocks.

**SlotTablesProofs** begins with the same for the bufferer. `IndInv` adds to the types and
the exact table what the slots an update has taken and not yet reset are (`BatchInv`) and
whose audio a row may hold (`RowsInv`). `RaisesOverLimit` is a counting argument: when no
slot is free, every slot is held by an open stream, and the stream that is refused is
another open one, so the slots inject into fewer streams than are open. Then the theorems
of the two protocols are carried over to SlotTables, the specification the run checks:
each of its behaviours is a behaviour of either protocol, so both tables implement
`SlotAllocation` in it (`TablesImplementSlots`).

**BiasingProofs** (any models, configs, streams and initial sizes). `MMInv` says of states
and of arcs that they are an `Arena`: the active models' cells lie inside the part in
use and apart from each other, and behind the part in use there are zeros.
`ArenaWithModel` and `ArenaWithoutModel` show that growth and `Copied`, and `Cut` with
`Shifted`, keep it and leave the cells of every other model what they were. That models
lie apart is what makes the shift of offsets by position right, and the zeros are what
makes the padding of a new model right.
`ClientInv`, `OwnInv` and `PreparedInv` add what a step knows: which config's data each
remembered id holds, for configs before and behind the loop. Results: `BiasedByOwn`,
`GraphsUseLiveBuffers`, and `TensorsImplementReference`: each `AddModel` is the
reference's, each `RemoveModel` too.

**CheckResumeProofs** (any finite directory, any options): the verdict is a function of
directory and options; `WhatIsLoaded` says which checkpoints it can be, and the four
properties of the run follow.

**PreemptionProofs** (any number of ranks, any configurations, any lengths; assumed: rank 0
is one of the ranks). A rank past a check that rank 0
has not come to is impossible, since a broadcast waits for it; a rank behind will be
told what rank 0 was told. `IndInv` states this for each place: the answers posted are
those rank 0 acted on, ranks ahead acted on the same ones, no rank passes a "yes", and a
rank that left by its own flag passed the same "no"s before (`LeftOnYes`). Then the
counts: progress of each rank is determined by its place, `global_step` and
`exits_before`. `StopsNext` says which check will see the flag of a job asked one batch ago.
That the ranks simulate one job although one of them may leave alone is by the counts:
`EpochGoesOn`, while a rank is in the save of a batch rank 0 does not end the epoch.
Results: `LeaveTogether`, `ProgressMatchesSteps`, `PromptExit`, `StopsAsOneJob`.

**VoiceAgentProofs** (any phrases, words, speakers, bounds). One lemma per handler with
text says what it may come out as (`TranscriptionOutcome`, `VadStoppedOutcome`): final,
interim, dismissed or kept. On these rest four invariants, with the types: `TextInv` (the words handled and buffered are 1 to `received` in order),
`SpeechInv` (live words are in the buffer only while the VAD hears the user),
`TurnsClosed`, and `SpeakerInv` (the tag of the buffer, the current speaker of either
service and the results still under way, related through the span they belong to).

*Only model-checked*: what must eventually happen, `GeneratorEnds`, `RunEnds`,
`EndingFinalizesAll` and `StopsWhenAsked`, since fairness and ENABLED are
out of the prover's reach; and the findings, which are counterexamples. Induction
over data takes an operator as a parameter, which the provers cannot instantiate; where
it was needed (`Only`, least elements) it is done with sets, by the least number that
would fail. No module declares a RECURSIVE operator: `Only` and the other loops over
lists are recursive functions or community operators.

## Abstractions, and what is not modelled

* Audio, features, context and text are identities: samples are counted, a row is
  the set of streams that shaped it, a token is the index of its frame. Window
  arithmetic, padding values, timestamps, confidences, partial transcripts, ITN and
  translation are left out, and so are per-request options other than biasing.
* `n_frames_per_stream` is 1, as every pipeline passes; the streamer of feature
  buffers and `use_cache=False` are left out.
* Biasing: only streams with a biasing request are followed. Left out are an
  out-of-memory error inside `add_model` (after which `model2active` is already set),
  the reference's `remove_model` of an id that is free already, and the buffered RNNT
  pipeline, which uses the same multi-model without the look at `model2active`.
* The lifecycle is single-rank, over a local directory, for one model, without EMA
  copies, `.nemo` export and `_drop_optimizer_states` (which rewrites an older
  checkpoint through a temporary name). A name carries its step and
  score; the version suffix is Lightning's. Ties of the ranking are broken by step
  and version where the code takes the order of the directory. Crash kills the
  asynchronous writer together with the trainer.
* `check_resume` stops at its verdict: the moving of logs afterwards, S3 and
  multi-storage and model-parallel suffixes are left out.
* Preemption: Lightning's handler is there before `on_train_start`, as
  `signal.getsignal` finds it there (`preemption.py:65`); a signal that finds no handler
  kills the process, which is the crash of CheckpointLifecycle. What Lightning itself
  does about `received_sigterm`, outside the guard of `read_batch`, is left out: a job
  without `read_batch` then goes on. PreemptionCallback comes before StatelessTimer
  (`exp_manager.py:758`, `:1442-1450`). How far Lightning's fetcher reads ahead without
  `read_batch` is left out, and so are validation and early stopping between batches.
* Voice agent: a frame is handled as a whole (pipecat's queues between services are
  external); `bot_stop_delay` is positive, `can_create_user_frames` true, and the diarizer
  is right or silent. The STT service is any word with any label at any time. The
  audio logger, TTS and the language model are left out.
* Lightning, Megatron's `AsyncCallsQueue`, torch.distributed and pipecat are modelled
  from how the code here calls and overrides them.
* By lines, most of the repository is neural networks and losses, numeric decoding
  loops, text normalization and prompts, dataset preparation, and notebooks: functions of
  their input without state that survives a call, or numeric code whose correctness is
  a matter of tensors. A model of them would say nothing their tests do not. The lines
  mapped are those of the stateful services, which are few.

## Plan

What is left, in this order.

1. **RNNT pipeline** over the same tables, with its decoder state, and the buffered RNNT
   pipeline's use of biasing.
2. **Lifecycle**: several ranks and barriers, EMA copies, `_drop_optimizer_states`.
3. **STT service** of the voice agent: its frame buffer and what its own reset drops.
4. **Proofs**: the invariants of what 1 to 3 add; the frame source and the biasing models
   as specifications of their own that the RNNT pipeline's proofs can rest on.
