---------------------------- MODULE CheckResume ----------------------------
(***************************************************************************)
(* check_resume of nemo/utils/exp_manager.py: what a job that starts does  *)
(* with the checkpoint directory it finds.  The directory is a set of      *)
(* checkpoints, each with the things the code tells apart: *last or *end,  *)
(* a directory (distributed checkpoint) or a .ckpt file, the step=<n> of   *)
(* its name if it has one, and whether its unfinished marker is absent.    *)
(* A directory whose files carry mp_rank or tp_rank is `sharded'.          *)
(*                                                                         *)
(* The decision is a relation, so that CheckpointLifecycle can take it as  *)
(* one step of a restart; here every small directory is put to it.         *)
(***************************************************************************)
EXTENDS Integers, FiniteSets

CONSTANTS
  names,      \* what distinguishes two checkpoints of the same step (a metric)
  steps,      \* the step=<n> of a name
  max_files   \* bound: checkpoints in the directory

ASSUME ResumeAssumption == steps \subseteq Nat /\ max_files \in Nat

VARIABLES dir, opt, outcome

resumeVars == <<dir, opt, outcome>>

NoStep == -1

Last == [kind : {"last"}, name : names, dist : BOOLEAN,
         step : steps \cup {NoStep}, finished : BOOLEAN]

End == [kind : {"end"}, name : {CHOOSE n \in names : TRUE}, dist : BOOLEAN,
        step : {NoStep}, finished : BOOLEAN]

Options == [resume_if_exists : BOOLEAN, resume_past_end : BOOLEAN,
            resume_ignore_no_checkpoint : BOOLEAN,
            resume_from_checkpoint : BOOLEAN,
            resume_select_latest_last_checkpoint : BOOLEAN,
            sharded : BOOLEAN]

\* What check_resume ends with: a ckpt_path for the trainer (a checkpoint of
\* the directory, or the one the user gave), no ckpt_path, or an exception.
Resume(c) == [verdict |-> "resume", path |-> {c}]
Verdict(v) == [verdict |-> v, path |-> {}]

\* end_checkpoints and last_checkpoints: once a distributed one is there the
\* .ckpt files are not looked for.
Matching(d, k) ==
  LET all == {c \in d : c.kind = k}
      dist == {c \in all : c.dist}
  IN IF dist # {} THEN dist ELSE all

\* mutant of _filter_out_unfinished_checkpoints: keeps them
FilterNothing(cs) == cs

_filter_out_unfinished_checkpoints(cs) == {c \in cs : c.finished}

\* mutant of OnlyUnfinished: never
IgnoreUnfinished(d, k) == FALSE

\* "... checkpoint is unfinished and cannot be used to resume the training."
OnlyUnfinished(d, k) ==
  /\ Matching(d, k) # {}
  /\ _filter_out_unfinished_checkpoints(Matching(d, k)) = {}

\* What is left in `checkpoint' when no branch assigned one.
Initially(o) ==
  IF o.resume_from_checkpoint THEN Verdict("given") ELSE Verdict("scratch")

\* mutant of SelectLast: the least step
SelectOldest(lasts, o, r) ==
  \E c \in lasts : (\A e \in lasts : c.step <= e.step) /\ r = Resume(c)

\* Several finished *last.ckpt: shards of one checkpoint are taken for
\* granted; otherwise the greatest step, if the user asked for that and the
\* names tell the steps apart.
SelectLast(lasts, o, r) ==
  IF o.sharded
    THEN \E c \in lasts : r = Resume(c)
    ELSE LET ranked == /\ o.resume_select_latest_last_checkpoint
                       /\ \A c \in lasts : c.step # NoStep
                       /\ \A c, e \in lasts : c.step = e.step => c = e
         IN IF ranked
              THEN \E c \in lasts : /\ \A e \in lasts : e.step <= c.step
                                    /\ r = Resume(c)
              ELSE r = Verdict("ValueError")

\* mutant of Choose: *last goes before *end
ChooseLastBeforeEnd(ends, lasts, o, r) ==
  \/ ends = {} /\ lasts = {} /\ r = Verdict("NotFoundError")
  \/ ends # {} /\ lasts = {} /\ r = Verdict("ValueError")
  \/ \E c \in lasts : r = Resume(c)

\* The elif chain over the finished checkpoints.
Choose(ends, lasts, o, r) ==
  \/ /\ ends = {} /\ lasts = {}
     /\ r = IF o.resume_ignore_no_checkpoint
              THEN Initially(o) ELSE Verdict("NotFoundError")
  \/ /\ ends # {} /\ ~o.resume_past_end
     /\ r = Verdict("ValueError")
  \/ /\ ends # {} /\ o.resume_past_end
     /\ \/ Cardinality(ends) = 1 /\ r = Initially(o)
        \/ /\ Cardinality(ends) > 1
           /\ IF o.sharded THEN \E c \in ends : r = Resume(c)
                           ELSE r = Verdict("ValueError")
  \/ /\ ends = {} /\ Cardinality(lasts) > 1
     /\ SelectLast(lasts, o, r)
  \/ /\ ends = {} /\ Cardinality(lasts) = 1
     /\ \E c \in lasts : r = Resume(c)

\* check_resume(d, o) may end with r.
check_resume(d, o, r) ==
  IF ~o.resume_if_exists THEN r = Initially(o)
  ELSE IF OnlyUnfinished(d, "end") \/ OnlyUnfinished(d, "last")
    THEN r = Verdict("ValueError")
    ELSE Choose(_filter_out_unfinished_checkpoints(Matching(d, "end")),
                _filter_out_unfinished_checkpoints(Matching(d, "last")), o, r)

Outcomes ==
  {Resume(c) : c \in dir}
    \cup {Verdict(v) : v \in {"given", "scratch", "ValueError", "NotFoundError"}}

ResumeInit ==
  /\ dir \in {{}} \cup {{c[i] : i \in 1 .. max_files} :
                         c \in [1 .. max_files -> Last \cup End]}
  /\ opt \in Options
  /\ outcome = Verdict("pending")

StartJob ==
  /\ outcome.verdict = "pending"
  /\ \E r \in Outcomes : check_resume(dir, opt, r) /\ outcome' = r
  /\ UNCHANGED <<dir, opt>>

ResumeNext == StartJob

ResumeSpec == ResumeInit /\ [][ResumeNext]_resumeVars

----------------------------------------------------------------------------
Finished(k) == {c \in dir : c.kind = k /\ c.finished}

\* A job that was told to resume starts from scratch only in an empty directory: a
\* checkpoint that may be incomplete, like a finished one, never leads to the progress
\* of a run being silently dropped.  The one exception is one finished *end with
\* resume_past_end: no branch loads it.
NeverSilentlyFromScratch ==
  opt.resume_if_exists /\ outcome.verdict = "scratch" =>
    \/ dir = {}
    \/ opt.resume_past_end /\ Finished("end") # {}

\* "This will override any checkpoint found when resume_if_exists is True": beside a
\* path the user gave, no checkpoint of the directory is loaded.
ResumeFromCheckpointOverrides == opt.resume_from_checkpoint => outcome.path = {}

\* No checkpoint whose unfinished marker is set is ever loaded, even when it
\* is the newest one.
UnfinishedNeverLoaded == \A c \in outcome.path : c.finished

\* The checkpoint resumed from is the newest finished one of its form, unless
\* the files are shards: no step that another finished *last holds is lost.
NewestLastChosen ==
  ~opt.sharded => \A c \in outcome.path : \A e \in Finished("last") :
                    e.dist = c.dist => e.step <= c.step

\* A run that completed (*end.ckpt) is not trained further by mistake.
CompletedRunStays ==
  /\ opt.resume_if_exists /\ ~opt.resume_past_end
  /\ Finished("end") # {}
  => outcome.verdict \in {"pending", "ValueError"}

============================================================================
