------------------------- MODULE PreemptionProtocol -------------------------
(***************************************************************************)
(* How the ranks of a training job stop together: PreemptionCallback,      *)
(* StatelessTimer, and the guards of read_batch before a batch is taken    *)
(* (callbacks/preemption.py, exp_manager.py, core/utils/lightning_utils.py) *)
(*                                                                         *)
(* The ranks train in lockstep only as far as their collectives make them: *)
(* the gradients of a batch are reduced over all ranks, a broadcast waits  *)
(* for rank 0 alone.  Between two reductions every rank passes the same    *)
(* places; pc is the place it is at.  The order of Lightning's training    *)
(* loop (ready, the step, the hooks, completed) is modelled from what the  *)
(* code here says of it.                                                   *)
(***************************************************************************)
EXTENDS Integers, FiniteSets

CONSTANTS
    Jobs,        \* the configurations a job may have
    epoch_len,   \* bound: batches of the epoch
    max_runs     \* bound: starts of the job

JobType == [ranks : SUBSET Nat, preemption_enabled : BOOLEAN, timer : BOOLEAN, read_batch : BOOLEAN]

\* Any number of ranks, with or without the callback: create_preemption_callback may be
\* off, and exp_manager does not register it without CUDA.
ASSUME PreemptionAssumption ==
    /\ epoch_len \in Nat /\ max_runs \in Nat
    /\ \A j \in Jobs : j \in JobType /\ 0 \in j.ranks

VARIABLES
    job,              \* its configuration, fixed
    pc,               \* place of each rank
    posted,           \* what rank 0 broadcast at each place since the last reduction
    ready, completed, \* Lightning's batch progress of each rank
    consumed,         \* batches each rank took from its dataloader with read_batch
    global_step,      \* optimizer steps, of all ranks together
    released,         \* ranks whose callback gave Lightning's handler back
    _interrupted,     \* PreemptionCallback on rank 0
    received_sigterm, \* ranks on which Lightning's own handler ran
    deadline_passed,  \* StatelessTimer on rank 0
    saved,            \* the *last checkpoint
    runs,
    exit_at,          \* history: the place at which each rank decided to leave
    exits_before,     \* history: exits before a batch
    asked_step        \* history: the step at which this run was asked to stop

progress == <<ready, completed, consumed>>
asking == <<released, _interrupted, received_sigterm, deadline_passed, asked_step>>
vars == <<job, pc, posted, progress, global_step, asking, saved, runs, exit_at, exits_before>>

Ranks == job.ranks

\* The places of a rank between two reductions, in order.
Order(place) ==
    CASE place = "end_preemption"    -> 1
      [] place = "end_timer"         -> 2
      [] place = "completed"         -> 3
      [] place = "fit_start"         -> 4
      [] place = "loop"              -> 5
      [] place = "before_preemption" -> 6
      [] place = "before_sigterm"    -> 7
      [] place = "before_timer"      -> 8
      [] place = "fetch"             -> 9
      [] place = "reduce"            -> 10

EndChecks == {"end_preemption", "end_timer"}
BeforeChecks == {"before_preemption", "before_timer"}
Broadcasts == EndChecks \cup BeforeChecks \cup {"fit_start"}
Underway == Broadcasts \cup {"completed", "loop", "before_sigterm", "fetch", "reduce"}
Places == Underway \cup {"save", "left", "done"}

\* The checks that do not come between this reduction and the next need no answer.
Unanswered(skipped) == [c \in Broadcasts |-> IF c \in skipped THEN "no" ELSE "none"]

\* Something the code looks at asks this run to stop.
AskedToStop ==
    \/ job.preemption_enabled /\ _interrupted
    \/ job.timer /\ deadline_passed
    \/ job.read_batch /\ received_sigterm # {}

Init ==
    /\ job \in Jobs
    /\ pc = [r \in Ranks |-> "fit_start"]
    /\ posted = Unanswered(EndChecks)
    /\ ready = [r \in Ranks |-> 0]
    /\ completed = [r \in Ranks |-> 0]
    /\ consumed = [r \in Ranks |-> 0]
    /\ global_step = 0
    /\ released = {} /\ _interrupted = FALSE /\ received_sigterm = {}
    /\ deadline_passed = FALSE
    /\ saved = [global_step |-> 0, completed |-> 0, consumed |-> 0]
    /\ runs = 1
    /\ exit_at = [r \in Ranks |-> "none"]
    /\ exits_before = 0 /\ asked_step = 0

-----------------------------------------------------------------------------
(* Signals and the deadline.                                               *)

\* Lightning's own handler, there before on_train_start and again once released.
LightningHandler(r) ==
    /\ received_sigterm' = received_sigterm \cup {r}
    /\ UNCHANGED <<released, _interrupted>>

\* The callback gives Lightning's handler back.
release(r) == released' = released \cup {r}

\* master_handler on rank 0, ignoring_handler on the others.
CallbackHandler(r) ==
    /\ release(r)
    /\ _interrupted' = (r = 0 \/ _interrupted)
    /\ UNCHANGED received_sigterm

\* What SIGTERM does on rank r; on_train_start, between fit_start and the loop,
\* installs the callback's handler, which serves once.
Handler(r) ==
    IF job.preemption_enabled /\ r \notin released /\ pc[r] # "fit_start"
    THEN CallbackHandler(r)
    ELSE LightningHandler(r)

\* The step at which the run is first asked to stop is remembered.
NoteAsking ==
    asked_step' = IF AskedToStop' /\ ~AskedToStop THEN global_step ELSE asked_step

\* SIGTERM reaches a rank, at any moment and any number of times.
Signal(r) ==
    /\ pc[r] \notin {"left", "done"}
    /\ Handler(r)
    /\ UNCHANGED <<job, pc, posted, progress, global_step, deadline_passed, saved, runs,
                   exit_at, exits_before>>
    /\ NoteAsking

Deadline ==
    /\ job.timer /\ ~deadline_passed
    /\ pc[0] # "left"
    /\ deadline_passed' = TRUE
    /\ UNCHANGED <<job, pc, posted, progress, global_step, released, _interrupted,
                   received_sigterm, saved, runs, exit_at, exits_before>>
    /\ NoteAsking

-----------------------------------------------------------------------------
(* The checks.                                                             *)

\* mutant of Answer: every rank goes by what it knows itself
OwnAnswer(r, place, flag) == flag /\ (r = 0 \/ r \in released)

\* torch.distributed.broadcast(..., 0): rank 0 sends its flag, the others take it.
Answer(r, place, flag) == IF r = 0 THEN flag ELSE posted[place] = "yes"

Broadcast(r, place, flag) ==
    IF r = 0
    THEN posted' = [posted EXCEPT ![place] = IF flag THEN "yes" ELSE "no"]
    ELSE posted[place] # "none" /\ UNCHANGED posted

Pass(r, next) ==
    /\ pc' = [pc EXCEPT ![r] = next]
    /\ UNCHANGED <<completed, exit_at>>

\* mutant of _flush_in_flight_batch_progress: it is not called
NoFlush(r) == completed[r]

\* A batch in flight counts as completed: what was made ready is.
_flush_in_flight_batch_progress(r) ==
    IF ready[r] > completed[r] THEN completed[r] + 1 ELSE completed[r]

\* _save_last_checkpoint_and_exit and its like in _check_time_remaining, up to the
\* save itself, in which all ranks take part.
SaveAndExit(r) ==
    /\ completed' = [completed EXCEPT ![r] = _flush_in_flight_batch_progress(r)]
    /\ exit_at' = [exit_at EXCEPT ![r] = pc[r]]
    /\ pc' = [pc EXCEPT ![r] = "save"]

\* A check that goes by a flag of rank 0; without the callback or the timer there
\* is no check.
Check(r, place, next, inUse, flag) ==
    /\ pc[r] = place
    /\ \/ ~inUse /\ Pass(r, next) /\ UNCHANGED posted
       \/ inUse /\ Broadcast(r, place, flag) /\ ~Answer(r, place, flag) /\ Pass(r, next)
       \/ inUse /\ Broadcast(r, place, flag) /\ Answer(r, place, flag) /\ SaveAndExit(r)
    /\ UNCHANGED <<job, ready, consumed, global_step, asking, saved, runs, exits_before>>

\* mutant of PreemptionCheck: the flag is not looked at between batches
PreemptionIgnored(r, place, next) == Check(r, place, next, FALSE, _interrupted)

PreemptionCheck(r, place, next) == Check(r, place, next, job.preemption_enabled, _interrupted)

_check_time_remaining(r, place, next) == Check(r, place, next, job.timer, deadline_passed)

\* The only check without a broadcast: what this rank's own handler noted.
SigtermCheck(r) ==
    /\ pc[r] = "before_sigterm"
    /\ IF r \in received_sigterm THEN SaveAndExit(r) ELSE Pass(r, "before_timer")
    /\ UNCHANGED <<job, posted, ready, consumed, global_step, asking, saved, runs, exits_before>>

-----------------------------------------------------------------------------
(* The training loop of a rank.                                            *)

\* StatelessTimer looks at the time before training starts.
OnFitStart(r) == _check_time_remaining(r, "fit_start", "loop")

OnTrainBatchEnd(r) ==
    \/ PreemptionCheck(r, "end_preemption", "end_timer")
    \/ _check_time_remaining(r, "end_timer", "completed")

\* Lightning counts the batch after the hooks of its end.
BatchCompleted(r) ==
    /\ pc[r] = "completed"
    /\ completed' = [completed EXCEPT ![r] = @ + 1]
    /\ pc' = [pc EXCEPT ![r] = "loop"]
    /\ UNCHANGED <<job, posted, ready, consumed, global_step, asking, saved, runs,
                   exit_at, exits_before>>

\* Lightning makes a batch ready, then calls training_step.
StartBatch(r) ==
    /\ pc[r] = "loop"
    /\ ready[r] < epoch_len
    /\ ready' = [ready EXCEPT ![r] = @ + 1]
    /\ pc' = [pc EXCEPT ![r] = IF job.read_batch THEN "before_preemption" ELSE "fetch"]
    /\ UNCHANGED <<job, posted, completed, consumed, global_step, asking, saved, runs,
                   exit_at, exits_before>>

EndEpoch(r) ==
    /\ pc[r] = "loop"
    /\ ready[r] >= epoch_len
    /\ pc' = [pc EXCEPT ![r] = "done"]
    /\ UNCHANGED <<job, posted, progress, global_step, asking, saved, runs, exit_at, exits_before>>

_check_shutdown_before_next_batch(r) ==
    \/ PreemptionCheck(r, "before_preemption", "before_sigterm")
    \/ SigtermCheck(r)
    \/ _check_time_remaining(r, "before_timer", "fetch")

\* The batch is taken, forward and backward run up to the reduction.  How far
\* Lightning's own fetcher reads ahead without read_batch is not modelled.
Fetch(r) ==
    /\ pc[r] = "fetch"
    /\ consumed' = IF job.read_batch THEN [consumed EXCEPT ![r] = @ + 1] ELSE consumed
    /\ pc' = [pc EXCEPT ![r] = "reduce"]
    /\ UNCHANGED <<job, posted, ready, completed, global_step, asking, saved, runs,
                   exit_at, exits_before>>

RankStep(r) ==
    \/ OnFitStart(r) \/ StartBatch(r) \/ EndEpoch(r) \/ _check_shutdown_before_next_batch(r)
    \/ Fetch(r) \/ OnTrainBatchEnd(r) \/ BatchCompleted(r)

\* All ranks reduce their gradients and step their optimizers.
Reduce ==
    /\ \A r \in Ranks : pc[r] = "reduce"
    /\ pc' = [r \in Ranks |-> "end_preemption"]
    /\ posted' = Unanswered({"fit_start"})
    /\ global_step' = global_step + 1
    /\ UNCHANGED <<job, progress, asking, saved, runs, exit_at, exits_before>>

\* All ranks save; the loops that are saved are those of rank 0.
SaveLast ==
    /\ \A r \in Ranks : pc[r] = "save"
    /\ saved' = [global_step |-> global_step, completed |-> completed[0], consumed |-> consumed[0]]
    /\ pc' = [r \in Ranks |-> "left"]
    /\ exits_before' = IF exit_at[0] \in BeforeChecks \cup {"before_sigterm"}
                       THEN exits_before + 1 ELSE exits_before
    /\ UNCHANGED <<job, posted, progress, global_step, asking, runs, exit_at>>

\* mutant of LoadTimerState: the time elapsed is restored
TimerStateRestored == UNCHANGED deadline_passed

\* StatelessTimer keeps nothing of the former run.
LoadTimerState == deadline_passed' = FALSE

\* The job starts again: Lightning restores its loops, a batch that was ready and not
\* completed is ready no more; flags and timer start anew.
Resume ==
    /\ \A r \in Ranks : pc[r] = "left"
    /\ runs < max_runs
    /\ runs' = runs + 1
    /\ pc' = [r \in Ranks |-> "fit_start"]
    /\ posted' = Unanswered(EndChecks)
    /\ ready' = [r \in Ranks |-> saved.completed]
    /\ completed' = [r \in Ranks |-> saved.completed]
    /\ consumed' = [r \in Ranks |-> saved.consumed]
    /\ global_step' = saved.global_step
    /\ released' = {} /\ _interrupted' = FALSE /\ received_sigterm' = {}
    /\ LoadTimerState
    /\ exit_at' = [r \in Ranks |-> "none"]
    /\ UNCHANGED <<job, saved, exits_before, asked_step>>

Next ==
    \/ \E r \in Ranks : RankStep(r) \/ Signal(r)
    \/ Deadline \/ Reduce \/ SaveLast \/ Resume

Safety == Init /\ [][Next]_vars

\* Every rank works off its code and a collective all have come to takes place.  No
\* signal, deadline or resumption is owed.
Spec ==
    /\ Safety
    /\ \A r \in UNION {j.ranks : j \in Jobs} : WF_vars(r \in Ranks /\ RankStep(r))
    /\ WF_vars(Reduce) /\ WF_vars(SaveLast)

-----------------------------------------------------------------------------
TypeOK ==
    /\ job \in Jobs
    /\ pc \in [Ranks -> Places]
    /\ posted \in [Broadcasts -> {"none", "no", "yes"}]
    /\ ready \in [Ranks -> Nat] /\ completed \in [Ranks -> Nat] /\ consumed \in [Ranks -> Nat]
    /\ global_step \in Nat /\ runs \in Nat /\ exits_before \in Nat /\ asked_step \in Nat
    /\ released \subseteq Ranks /\ received_sigterm \subseteq Ranks
    /\ _interrupted \in BOOLEAN /\ deadline_passed \in BOOLEAN
    /\ saved \in [global_step : Nat, completed : Nat, consumed : Nat]
    /\ exit_at \in [Ranks -> Broadcasts \cup {"before_sigterm", "none"}]

\* When one rank has decided to leave by an answer of rank 0, every other has decided
\* so at the same place with the same progress, or has yet to come to that place: none
\* is past it and waits in a collective that nobody else will join.  On the way to the
\* timer's check a rank may have left by its own flag, for the same save.
LeaveTogether ==
    \A r, s \in Ranks :
        pc[r] = "save" /\ exit_at[r] \in Broadcasts =>
            \/ pc[s] \in Underway /\ Order(pc[s]) <= Order(exit_at[r])
            \/ /\ pc[s] = "save" /\ completed[s] = completed[r]
               /\ \/ exit_at[s] = exit_at[r]
                  \/ /\ exit_at[r] = "before_timer" /\ exit_at[s] = "before_sigterm"
                     /\ s \in received_sigterm

\* Some rank left by its own flag and waits for the others in the save, while another
\* waits for it in the reduction, or for rank 0, which left, in the timer's broadcast.
Hung ==
    \E r, s \in Ranks :
        /\ pc[r] = "save" /\ exit_at[r] = "before_sigterm"
        /\ \/ pc[s] = "reduce"
           \/ /\ job.timer /\ s # 0 /\ pc[s] = "before_timer"
              /\ pc[0] = "save" /\ posted["before_timer"] = "none"

\* lightning_utils.py:37: a signal seen before a batch "saves last.ckpt and exits".
SavesAndExits ==
    \A r \in UNION {j.ranks : j \in Jobs} :
        (r \in Ranks /\ pc[r] = "save") ~> (r \in Ranks /\ pc[r] = "left")

\* Across exits and resumptions nothing is ready that is not completed, and a stateful
\* dataloader has given out the batches trained and no other; as long as every exit
\* came after a batch, each batch is counted once, as trained.
ProgressMatchesSteps ==
    \A r \in Ranks :
        pc[r] \in {"loop", "done"} =>
            /\ ready[r] = completed[r]
            /\ exits_before = 0 => completed[r] = global_step
            /\ job.read_batch => consumed[r] = global_step

\* test_resumable_dataloader_iter.py:290: the batches a *last checkpoint counts as
\* completed are its optimizer steps.
SavedProgressConsistent == saved.completed = saved.global_step

\* Once asked to stop, whatever the moment, a run trains at most one more batch.
PromptExit == AskedToStop => global_step <= asked_step + 1

\* The ranks together are one job that stops.
JobState ==
    IF pc[0] = "left" THEN "stopped"
    ELSE IF \E r \in Ranks : pc[r] = "save" THEN "stopping"
    ELSE IF pc[0] = "done" THEN "finished"
    ELSE "training"

OneJob == INSTANCE SingleJob WITH
    state <- JobState, step <- global_step, asked <- AskedToStop,
    late <- IF AskedToStop THEN global_step - asked_step ELSE 0,
    saved_step <- saved.global_step

\* The job does what SingleJob promises.
StopsAsOneJob == OneJob!Safety

\* Once asked to stop the job does stop, or ends its epoch first, unless ranks that
\* left by their own flag and ranks that did not wait for each other.
StopsWhenAsked == AskedToStop ~> (pc[0] \in {"left", "done"} \/ Hung)
=============================================================================
