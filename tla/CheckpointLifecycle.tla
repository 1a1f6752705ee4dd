------------------------ MODULE CheckpointLifecycle ------------------------
(***************************************************************************)
(* The checkpoints of a training job over its whole life, across crashes,  *)
(* graceful exits and restarts: NeMoModelCheckpoint (unfinished markers,   *)
(* synchronous and asynchronous saves, deferred removals, pruning and      *)
(* cleaning at start), check_resume, the graceful exits of                 *)
(* PreemptionCallback and StatelessTimer, and the async finalizer.  What   *)
(* Lightning's ModelCheckpoint and Megatron's AsyncCallsQueue contribute   *)
(* is modelled from how the code calls and overrides it.                   *)
(*                                                                         *)
(* The disk (ckpt, marked) survives everything; the rest is the memory of  *)
(* the process.  The main thread works through todo, one file-system       *)
(* effect at a time, and the process may die between any two of them.      *)
(***************************************************************************)
EXTENDS Integers, Sequences, FiniteSets

CONSTANTS
  Trainings,            \* the configurations a training may have
  scores,               \* what validation may report; smaller is better
  NULL

\* async_save: save asynchronously; dist_ckpt: a checkpoint is a directory, deleting
\* it takes time; read_batch: the step pulls its batch with read_batch; select_latest:
\* resume_select_latest_last_checkpoint.  Bounds: max_step is the length of the
\* training, max_starts bounds the starts of the job, so crashes and exits too.
ASSUME LifecycleAssumption ==
  /\ \A t \in Trainings :
       /\ {t.async_save, t.dist_ckpt, t.select_latest, t.read_batch} \subseteq BOOLEAN
       /\ {t.save_top_k, t.val_check_interval, t.max_step, t.max_starts} \subseteq Nat \ {0}
  /\ scores \subseteq Nat /\ scores # {}

(* Names.  ver is the version Lightning appends when the name is taken.    *)
Names == [kind : {"topk", "last"}, step : Nat, score : Nat, ver : Nat]

ASSUME NullAssumption == NULL \notin Names

VARIABLES
  training,                   \* its configuration, fixed
  ckpt,                       \* disk: name -> [whole, best_k_models it saved]
  marked,                     \* disk: the names with an unfinished marker
  phase, global_step,
  ckpt_path, last_model_path,
  best_k_models,              \* names; a name carries its score
  async_calls,                \* AsyncCallsQueue: [name, best_k, written]
  deferred_ckpts_to_remove,
  todo,                       \* what the main thread is about to do
  starts,
  saved_step, exit_step       \* history: newest last finalized; graceful exit;
                              \* 0 once it is being saved over in place

disk == <<ckpt, marked>>
memory == <<ckpt_path, last_model_path, best_k_models>>
async == <<async_calls, deferred_ckpts_to_remove>>
history == <<saved_step, exit_step>>
vars == <<training, disk, phase, global_step, memory, async, todo, starts, history>>

----------------------------------------------------------------------------
Name(kind, step, score, ver) ==
  [kind |-> kind, step |-> step, score |-> score, ver |-> ver]

OnDisk(kind) == {n \in DOMAIN ckpt : n.kind = kind}
Usable(kind) == OnDisk(kind) \ marked

\* The first version of the name that is free, or is the one to overwrite.
FreshName(n, overwrite) ==
  LET free == {v \in 0 .. Cardinality(DOMAIN ckpt) :
                 LET m == [n EXCEPT !.ver = v] IN m \notin DOMAIN ckpt \/ m = overwrite}
  IN [n EXCEPT !.ver = CHOOSE v \in free : \A u \in free : v <= u]

LastName == FreshName(Name("last", global_step, 0, 0), last_model_path)

\* Worse in the ranking of best_k_models; ties are broken by the order in
\* which the directory lists the names, here by step and version.
Worse(m, n) ==
  \/ m.score > n.score
  \/ m.score = n.score /\ m.step > n.step
  \/ m.score = n.score /\ m.step = n.step /\ m.ver > n.ver

Do(op, n) == [op |-> op, name |-> n]

\* mutant of _save_checkpoint: the marker follows the data
SaveMarkLate(n) ==
  IF training.async_save THEN <<Do("schedule", n), Do("mark", n)>>
  ELSE <<Do("begin", n), Do("end", n), Do("mark", n), Do("finalize", n)>>

\* _save_checkpoint: marker first, data next, the finalize callback last; with
\* async_save the finalize callback is left to the checkpoint IO.
_save_checkpoint(n) ==
  IF training.async_save THEN <<Do("mark", n), Do("schedule", n)>>
  ELSE <<Do("mark", n), Do("begin", n), Do("end", n), Do("finalize", n)>>

\* _should_remove_checkpoint, for names in the checkpoint directory.  A distributed
\* ckpt_path is a directory without the .ckpt that `previous' has: never equal.
_should_remove_checkpoint(previous, current) ==
  /\ previous # NULL
  /\ previous # current
  /\ previous = ckpt_path /\ ~training.dist_ckpt =>
       current.kind = "last" /\ current.ver = 0 /\ previous.ver = 0

\* mutant of _save_last_checkpoint: the former one goes first
RemoveBeforeSave(n) ==
  (IF _should_remove_checkpoint(last_model_path, n)
     THEN <<Do("remove", last_model_path)>> ELSE <<>>) \o _save_checkpoint(n)

\* Lightning's _save_last_checkpoint: save the new one, then drop the old one.
_save_last_checkpoint(n) ==
  _save_checkpoint(n)
    \o IF _should_remove_checkpoint(last_model_path, n)
         THEN <<Do("remove", last_model_path)>> ELSE <<>>

----------------------------------------------------------------------------
(* A start of the job.                                                     *)

\* What check_resume sees of the directory, and the options of the job.
DirSeen ==
  {[kind |-> "last", name |-> n, dist |-> training.dist_ckpt, step |-> n.step,
    finished |-> n \notin marked] : n \in {m \in OnDisk("last") : m.ver = 0}}

ResumeOptions ==
  [resume_if_exists |-> TRUE, resume_past_end |-> FALSE,
   resume_ignore_no_checkpoint |-> TRUE, resume_from_checkpoint |-> FALSE,
   resume_select_latest_last_checkpoint |-> training.select_latest, sharded |-> FALSE]

R == INSTANCE CheckResume WITH
       names <- Names, steps <- Nat, max_files <- 0,
       dir <- DirSeen, opt <- ResumeOptions, outcome <- NULL

\* nemo_topk_check_previous_run: of the finished top-k checkpoints keep the
\* save_top_k best; excess is what it deletes, without a marker, the worst first.
Excess == {n \in Usable("topk") :
             Cardinality({m \in Usable("topk") : Worse(n, m)}) >= training.save_top_k}

\* check_resume, then the constructor of NeMoModelCheckpoint.
Start ==
  /\ phase = "down" /\ starts < training.max_starts
  /\ starts' = starts + 1
  /\ \E r \in R!Outcomes :
       /\ R!check_resume(DirSeen, ResumeOptions, r)
       /\ IF r.verdict = "ValueError"
            THEN /\ phase' = "refused"
                 /\ UNCHANGED memory
            ELSE /\ phase' = "init"
                 /\ ckpt_path' = IF r.path = {} THEN NULL
                                 ELSE (CHOOSE c \in r.path : TRUE).name
                 /\ last_model_path' = ckpt_path'
                 /\ best_k_models' = Usable("topk") \ Excess
  /\ UNCHANGED <<training, disk, global_step, async, todo, history>>

\* The file system leaves name n with this content, or without it.
Write(n, content) ==
  ckpt' = [m \in DOMAIN ckpt \cup {n} |-> IF m = n THEN content ELSE ckpt[m]]

Erase(n) == ckpt' = [m \in DOMAIN ckpt \ {n} |-> ckpt[m]]

Partial == [whole |-> FALSE, best_k |-> {}]

\* _del_model_without_trainer: a directory is half deleted before it is gone.
Prune ==
  /\ phase = "init" /\ todo = <<>>
  /\ \E n \in Usable("topk") \ best_k_models :
       /\ \A m \in Usable("topk") \ best_k_models : m = n \/ Worse(n, m)
       /\ IF training.dist_ckpt
            THEN Write(n, Partial) /\ todo' = <<Do("delete", n)>>
            ELSE Erase(n) /\ UNCHANGED todo
  /\ UNCHANGED <<training, marked, phase, global_step, memory, async, starts, history>>

\* setup: _remove_unfinished_checkpoints deletes what is marked, then the
\* markers.
Setup ==
  /\ phase = "init" /\ todo = <<>> /\ Usable("topk") \subseteq best_k_models
  /\ phase' = "setup"
  /\ UNCHANGED <<training, disk, global_step, memory, async, todo, starts, history>>

DeleteUnfinished ==
  /\ phase = "setup"
  /\ \E n \in marked \cap DOMAIN ckpt : Erase(n)
  /\ UNCHANGED <<training, marked, phase, global_step, memory, async, todo, starts, history>>

DeleteMarkers ==
  /\ phase = "setup" /\ marked \cap DOMAIN ckpt = {}
  /\ \E n \in marked : marked' = marked \ {n}
  /\ UNCHANGED <<training, ckpt, phase, global_step, memory, async, todo, starts, history>>

\* mutant of _remove_invalid_entries_from_topk: nothing is removed
KeepInvalidEntries(best_k) == best_k

_remove_invalid_entries_from_topk(best_k) ==
  {n \in best_k : n \in DOMAIN ckpt /\ n \notin marked}

\* Lightning restores the callbacks and the loops; load_state_dict.
load_state_dict ==
  /\ phase = "setup" /\ marked = {}
  /\ phase' = "fit_start"
  /\ IF ckpt_path = NULL
       THEN global_step' = 0 /\ UNCHANGED best_k_models
       ELSE /\ global_step' = ckpt_path.step
            /\ best_k_models' =
                 _remove_invalid_entries_from_topk(ckpt[ckpt_path].best_k)
  /\ UNCHANGED <<training, disk, ckpt_path, last_model_path, async, todo, starts, history>>

----------------------------------------------------------------------------
(* Training.                                                               *)
Validates == global_step % training.val_check_interval = 0

\* A batch, up to the on_train_batch_end hooks.
TrainBatch ==
  /\ \/ phase \in {"fit_start", "validated"}
     \/ phase = "batch_end" /\ ~Validates
  /\ todo = <<>> /\ global_step < training.max_step
  /\ global_step' = global_step + 1 /\ phase' = "batch_end"
  /\ UNCHANGED <<training, disk, memory, async, todo, starts, history>>

\* kth_best_model_path.
KthBest == CHOOSE n \in best_k_models : \A m \in best_k_models : m = n \/ Worse(n, m)

\* on_validation_end: _save_topk_checkpoint if the score is good enough, then
\* _save_last_checkpoint.
on_validation_end ==
  /\ phase = "batch_end" /\ Validates /\ todo = <<>>
  /\ phase' = "validated"
  /\ \E score \in scores :
       LET full == Cardinality(best_k_models) >= training.save_top_k
           dropped == IF full THEN KthBest ELSE NULL
           n == FreshName(Name("topk", global_step, score, 0), dropped)
           saveTopk ==
             _save_checkpoint(n)
               \o IF _should_remove_checkpoint(dropped, n)
                    THEN <<Do("remove", dropped)>> ELSE <<>>
           good == full => score < KthBest.score
       IN /\ best_k_models' =
               IF good THEN (best_k_models \ {dropped}) \cup {n} ELSE best_k_models
          /\ todo' = (IF good THEN saveTopk ELSE <<>>)
                       \o _save_last_checkpoint(LastName)
  /\ last_model_path' = LastName
  /\ UNCHANGED <<training, disk, global_step, ckpt_path, async, starts, history>>

\* _save_last_checkpoint_and_exit (preemption) and StatelessTimer: save the
\* last checkpoint and raise _TunerExitException, which skips on_train_end.
\* Both look at the end of a batch, and read_batch makes them look again
\* before a batch is taken, after a validation or right after resuming.
MayExit ==
  /\ todo = <<>>
  /\ phase = "batch_end" \/ (phase \in {"fit_start", "validated"} /\ training.read_batch)

\* mutant of GracefulExit: nothing is saved
ExitUnsaved ==
  /\ MayExit
  /\ phase' = "exiting"
  /\ UNCHANGED <<training, disk, global_step, memory, async, todo, starts, history>>

GracefulExit ==
  /\ MayExit
  /\ phase' = "exiting"
  /\ todo' = _save_last_checkpoint(LastName)
  /\ last_model_path' = LastName
  /\ IF LastName = last_model_path
       THEN saved_step' = 0 /\ exit_step' = 0
       ELSE UNCHANGED history
  /\ UNCHANGED <<training, disk, global_step, ckpt_path, best_k_models, async, starts>>

\* The end of training: AsyncFinalizerCallback.on_train_end waits for the
\* pending saves, then NeMoModelCheckpoint.on_train_end saves a last one if no
\* validation did.
TrainEnd ==
  /\ global_step = training.max_step /\ todo = <<>>
  /\ phase \in {"fit_start", "validated"} \/ (phase = "batch_end" /\ ~Validates)
  /\ phase' = "ending"
  /\ UNCHANGED <<training, disk, global_step, memory, async, todo, starts, history>>

on_train_end ==
  /\ phase = "ending" /\ todo = <<>> /\ async_calls = <<>>
  /\ phase' = "ended"
  /\ LET saved == Validates \/ last_model_path = Name("last", global_step, 0, 0)
     IN /\ todo' = IF saved THEN <<>> ELSE _save_last_checkpoint(LastName)
        /\ last_model_path' = IF saved THEN last_model_path ELSE LastName
  /\ UNCHANGED <<training, disk, global_step, ckpt_path, best_k_models, async, starts, history>>

Forget ==
  /\ global_step' = 0 /\ best_k_models' = {}
  /\ ckpt_path' = NULL /\ last_model_path' = NULL
  /\ async_calls' = <<>> /\ deferred_ckpts_to_remove' = <<>> /\ todo' = <<>>

\* Leaving the process; teardown only warns of saves that are still pending.
ProcessExits ==
  /\ phase = "exiting" /\ todo = <<>>
  /\ phase' = "down" /\ exit_step' = global_step
  /\ Forget
  /\ UNCHANGED <<training, disk, starts, saved_step>>

TrainingDone ==
  /\ phase = "ended" /\ todo = <<>>
  /\ phase' = "done"
  /\ UNCHANGED <<training, disk, global_step, memory, async, todo, starts, history>>

\* A crash may come at any time; the bound on starts bounds the crashes.
Crash ==
  /\ phase \notin {"down", "refused", "done"} /\ starts < training.max_starts
  /\ phase' = "down"
  /\ Forget
  /\ UNCHANGED <<training, disk, starts, history>>

----------------------------------------------------------------------------
(* What the main thread does, one effect at a time.                        *)
Doing(op) == todo # <<>> /\ Head(todo).op = op

Subject == Head(todo).name

Proceed == todo' = Tail(todo)

Mark ==
  /\ Doing("mark") /\ Proceed
  /\ marked' = marked \cup {Subject}
  /\ UNCHANGED <<training, ckpt, phase, global_step, memory, async, starts, history>>

Unmark ==
  /\ Doing("unmark") /\ Proceed
  /\ marked' = marked \ {Subject}
  /\ UNCHANGED <<training, ckpt, phase, global_step, memory, async, starts, history>>

BeginWrite ==
  /\ Doing("begin") /\ Proceed
  /\ Write(Subject, Partial)
  /\ UNCHANGED <<training, marked, phase, global_step, memory, async, starts, history>>

EndWrite ==
  /\ Doing("end") /\ Proceed
  /\ Write(Subject, [whole |-> TRUE, best_k |-> best_k_models])
  /\ UNCHANGED <<training, marked, phase, global_step, memory, async, starts, history>>

Delete ==
  /\ Doing("delete") /\ Proceed
  /\ Erase(Subject)
  /\ UNCHANGED <<training, marked, phase, global_step, memory, async, starts, history>>

\* Removing for good: marker, data, marker.
RemoveForGood ==
  /\ marked' = marked \cup {Subject}
  /\ todo' = <<Do("delete", Subject), Do("unmark", Subject)>> \o Tail(todo)
  /\ UNCHANGED deferred_ckpts_to_remove

\* mutant of _remove_checkpoint: not deferred
RemoveAtOnce ==
  /\ Doing("remove") \/ Doing("remove_deferred")
  /\ RemoveForGood
  /\ UNCHANGED <<training, ckpt, phase, global_step, memory, async_calls, starts, history>>

\* _remove_checkpoint: with async_save the save that replaces the checkpoint
\* is not done yet, so it only joins the last list of deferred removals, which
\* are made with override_async.
_remove_checkpoint ==
  /\ \/ Doing("remove") /\ training.async_save
        /\ Proceed
        /\ deferred_ckpts_to_remove' =
             [deferred_ckpts_to_remove EXCEPT
                ![Len(deferred_ckpts_to_remove)] = Append(@, Subject)]
        /\ UNCHANGED marked
     \/ Doing("remove") /\ ~training.async_save /\ RemoveForGood
     \/ Doing("remove_deferred") /\ RemoveForGood
  /\ UNCHANGED <<training, ckpt, phase, global_step, memory, async_calls, starts, history>>

\* AsyncFinalizableCheckpointIO.save_checkpoint makes the directory and hands
\* the writing to another process.
Schedule ==
  /\ Doing("schedule") /\ Proceed
  /\ Write(Subject, Partial)
  /\ async_calls' = Append(async_calls,
       [name |-> Subject, best_k |-> best_k_models, written |-> FALSE])
  /\ deferred_ckpts_to_remove' = Append(deferred_ckpts_to_remove, <<>>)
  /\ UNCHANGED <<training, marked, phase, global_step, memory, starts, history>>

\* mutant of Finalize: the list of removals stays
FinalizeKeepsList ==
  /\ Doing("finalize") /\ Proceed
  /\ marked' = marked \ {Subject}
  /\ UNCHANGED <<training, ckpt, phase, global_step, memory, async, starts, history>>

\* The callback of _get_finalize_save_checkpoint_callback: the save is
\* finished; then the removals that waited for it.
Finalize ==
  /\ Doing("finalize")
  /\ marked' = marked \ {Subject}
  /\ saved_step' = IF Subject.kind = "last" /\ Subject.step > saved_step
                     THEN Subject.step ELSE saved_step
  /\ IF training.async_save
       THEN /\ todo' = [i \in DOMAIN Head(deferred_ckpts_to_remove) |->
                         Do("remove_deferred", Head(deferred_ckpts_to_remove)[i])]
                         \o Tail(todo)
            /\ deferred_ckpts_to_remove' = Tail(deferred_ckpts_to_remove)
       ELSE Proceed /\ UNCHANGED deferred_ckpts_to_remove
  /\ UNCHANGED <<training, ckpt, phase, global_step, memory, async_calls, starts, exit_step>>

----------------------------------------------------------------------------
(* The asynchronous saves: written side by side, finalized in order.       *)
WriterDone ==
  /\ \E i \in DOMAIN async_calls :
       /\ ~async_calls[i].written
       /\ async_calls' = [async_calls EXCEPT ![i].written = TRUE]
       /\ Write(async_calls[i].name,
                [whole |-> TRUE, best_k |-> async_calls[i].best_k])
  /\ UNCHANGED <<training, marked, phase, global_step, memory, deferred_ckpts_to_remove,
                 todo, starts, history>>

\* mutant of maybe_finalize_save_checkpoint: not called by on_train_end
FinalizeAtBatchEnd ==
  /\ todo = <<>> /\ phase \in {"batch_end", "validated"}
  /\ async_calls # <<>> /\ Head(async_calls).written
  /\ todo' = <<Do("finalize", Head(async_calls).name)>>
  /\ async_calls' = Tail(async_calls)
  /\ UNCHANGED <<training, disk, phase, global_step, memory, deferred_ckpts_to_remove,
                 starts, history>>

\* AsyncFinalizerCallback on_train_batch_end, on_train_epoch_end and
\* on_train_end.
maybe_finalize_save_checkpoint ==
  /\ todo = <<>> /\ phase \in {"batch_end", "validated", "ending"}
  /\ async_calls # <<>> /\ Head(async_calls).written
  /\ todo' = <<Do("finalize", Head(async_calls).name)>>
  /\ async_calls' = Tail(async_calls)
  /\ UNCHANGED <<training, disk, phase, global_step, memory, deferred_ckpts_to_remove,
                 starts, history>>

----------------------------------------------------------------------------
Init ==
  /\ training \in Trainings
  /\ ckpt = <<>> /\ marked = {}
  /\ phase = "down" /\ global_step = 0
  /\ ckpt_path = NULL /\ last_model_path = NULL /\ best_k_models = {}
  /\ async_calls = <<>> /\ deferred_ckpts_to_remove = <<>> /\ todo = <<>>
  /\ starts = 0 /\ saved_step = 0 /\ exit_step = 0

Effect ==
  \/ Mark \/ Unmark \/ BeginWrite \/ EndWrite \/ Delete
  \/ _remove_checkpoint \/ Schedule \/ Finalize

Main ==
  \/ Effect
  \/ Prune \/ Setup \/ DeleteUnfinished \/ DeleteMarkers \/ load_state_dict
  \/ TrainBatch \/ on_validation_end \/ TrainEnd \/ on_train_end
  \/ ProcessExits \/ TrainingDone
  \/ maybe_finalize_save_checkpoint

Next == Start \/ Main \/ GracefulExit \/ WriterDone \/ Crash

Spec == Init /\ [][Next]_vars

\* The process runs and its writers write; no exit, crash or start is owed.
FairSpec == Spec /\ WF_vars(Main) /\ WF_vars(WriterDone)

----------------------------------------------------------------------------
\* A *last checkpoint without the marker holds everything it should, whatever
\* the instant at which the process died: the marker, the data, the
\* finalization and the cleaning of the next start come in the right order.
UnmarkedLastIsWhole == \A n \in Usable("last") : ckpt[n].whole

\* The only usable *last is never given up for one that is not there yet,
\* unless the save goes to the very same name.
Usables == {n \in Usable("last") : ckpt[n].whole}

OnlyCopyKept ==
  [][Usables # {} /\ Usables' = {} =>
       /\ Usables = {Subject} /\ Subject = last_model_path
       /\ todo[2].op \in {"begin", "schedule"}]_vars

\* Training never goes on from an older step than one whose *last was already
\* finalized, unless a later exit was saving over that very checkpoint.
NothingFinalizedIsLost == phase = "fit_start" => global_step >= saved_step

\* preemption.py: the job can "start from the same step without wasting any
\* compute while resuming the next time".
GracefulExitKeepsStep == phase = "fit_start" => global_step >= exit_step

\* It does with synchronous saves: whatever was running when the exit came, and
\* however many crashes follow, the next training goes on from the exit's step.
SyncExitKeepsStep == ~training.async_save => GracefulExitKeepsStep

\* However often the job died, when it trains again the directory holds nothing
\* unfinished and no more top-k checkpoints than asked for, and what the restored
\* ranking calls best exists and is complete.
CleanAtStart ==
  phase = "fit_start" =>
    /\ marked = {}
    /\ Cardinality(OnDisk("topk")) <= training.save_top_k
    /\ \A n \in best_k_models : n \in DOMAIN ckpt /\ ckpt[n].whole

\* The assertion of the finalize callback, and what its comment says: for each
\* pending save there is exactly one list of deferred removals.
OneListPerSave ==
  phase \notin {"down"} =>
    Len(deferred_ckpts_to_remove) =
      Len(async_calls) + Cardinality({i \in DOMAIN todo :
                                        training.async_save /\ todo[i].op = "finalize"})

\* AsyncFinalizerCallback: the end of training waits for all pending saves and
\* gets through, whatever order the writers finish in.
EndingFinalizesAll ==
  phase = "ending" ~>
    \/ phase = "down"
    \/ phase = "done" /\ async_calls = <<>> /\ marked = {}
============================================================================
