-------------------------- MODULE PreemptionProofs --------------------------
(***************************************************************************)
(* Proofs about PreemptionProtocol, for every set of ranks, every          *)
(* configuration, every length of the epoch and any number of resumptions. *)
(***************************************************************************)
EXTENDS PreemptionProtocol, TLAPS

\* The broadcast places a rank has behind it since the last reduction.
Behind(place) ==
    CASE place = "end_timer"                       -> {"end_preemption"}
      [] place \in {"completed", "fit_start"}      -> EndChecks
      [] place \in {"loop", "before_preemption", "done"} -> EndChecks \cup {"fit_start"}
      [] place \in {"before_sigterm", "before_timer"} ->
             EndChecks \cup {"fit_start", "before_preemption"}
      [] place \in {"fetch", "reduce"}             -> Broadcasts
      [] OTHER                                     -> {}

\* The check is made in this job.
InUse(c) ==
    /\ IF c \in {"end_preemption", "before_preemption"} THEN job.preemption_enabled ELSE job.timer
    /\ c \in BeforeChecks => job.read_batch

\* The flag of rank 0 it goes by, and the place that follows it.
FlagOf(c) == IF c \in {"end_preemption", "before_preemption"} THEN _interrupted ELSE deadline_passed

After(c) ==
    CASE c = "end_preemption"    -> "end_timer"
      [] c = "end_timer"         -> "completed"
      [] c = "fit_start"         -> "loop"
      [] c = "before_preemption" -> "before_sigterm"
      [] c = "before_timer"      -> "fetch"

\* A rank makes the check of place c.
CheckAt(r, c) == c \in Broadcasts /\ Check(r, c, After(c), InUse(c), FlagOf(c))

BatchEnding == {"end_preemption", "end_timer", "completed"}
BetweenBatches == {"fit_start", "loop", "done"}
InBatch == {"before_preemption", "before_sigterm", "before_timer", "fetch", "reduce"}
Exited == {"save", "left"}

\* The job is one of Jobs; the guards before a batch are for read_batch only.
JobInv ==
    /\ 0 \in Ranks
    /\ job.preemption_enabled \in BOOLEAN /\ job.timer \in BOOLEAN /\ job.read_batch \in BOOLEAN
    /\ \A r \in Ranks : pc[r] \in BeforeChecks \cup {"before_sigterm"} => job.read_batch

\* Rank 0 answers a place when it passes it; a rank passes only on "no", and leaves
\* only on "yes" or on its own flag, which it looks at after the answers before it.
AnsweredBehind ==
    \A c \in Broadcasts :
        \/ posted[c] = "none" \/ c \in Behind(pc[0]) \/ pc[0] \in Exited
        \/ c = "fit_start" /\ pc[0] \in BatchEnding

YesIsRankZeros ==
    \A c \in Broadcasts :
        posted[c] = "yes" => pc[0] \in Exited /\ exit_at[0] = c /\ InUse(c)

PassedOnNo ==
    \A r \in Ranks :
        /\ \A c \in Behind(pc[r]) : InUse(c) => posted[c] = "no"
        /\ pc[r] \in BatchEnding => posted["fit_start"] = "no"

LeftOnYes ==
    \A r \in Ranks : pc[r] \in Exited =>
        \/ exit_at[r] \in Broadcasts /\ posted[exit_at[r]] = "yes"
        \/ /\ exit_at[r] = "before_sigterm" /\ r \in received_sigterm /\ job.read_batch
           /\ \A c \in Behind("before_sigterm") : InUse(c) => posted[c] = "no"

AllLeave == \A r, s \in Ranks : pc[r] = "left" => pc[s] = "left"

AnswerInv == AnsweredBehind /\ YesIsRankZeros /\ PassedOnNo /\ LeftOnYes /\ AllLeave

\* Where each rank's progress is, given its place.
RankCounts(r) ==
    /\ pc[r] \in BatchEnding =>
          ready[r] = global_step + exits_before /\ completed[r] + 1 = ready[r]
    /\ pc[r] \in BetweenBatches \cup {"left"} =>
          ready[r] = global_step + exits_before /\ completed[r] = ready[r]
    /\ pc[r] = "done" => ready[r] >= epoch_len
    /\ pc[r] \in InBatch =>
          /\ ready[r] = global_step + exits_before + 1 /\ completed[r] + 1 = ready[r]
          /\ ready[r] <= epoch_len
    /\ pc[r] = "save" /\ exit_at[r] \in EndChecks \cup {"fit_start"} =>
          ready[r] = global_step + exits_before /\ completed[r] = ready[r]
    /\ pc[r] = "save" /\ exit_at[r] \notin EndChecks \cup {"fit_start"} =>
          /\ ready[r] = global_step + exits_before + 1 /\ completed[r] = ready[r]
          /\ ready[r] <= epoch_len
    /\ job.read_batch =>
          consumed[r] = IF pc[r] = "reduce" THEN global_step + 1 ELSE global_step

SavedCounts ==
    pc[0] = "left" =>
        /\ saved.completed = completed[0]
        /\ saved.consumed = consumed[0]
        /\ saved.global_step = global_step

CountInv == SavedCounts /\ \A r \in Ranks : RankCounts(r)

\* A run that was asked to stop one batch ago is at a check that will see it: rank 0 at
\* one of its own, or a rank with the flag before the guard of read_batch.
StopsNext ==
    \/ /\ job.preemption_enabled /\ _interrupted
       /\ pc[0] \in Exited \cup {"end_preemption", "done"}
    \/ /\ job.timer /\ deadline_passed
       /\ pc[0] \in Exited \cup {"end_preemption", "end_timer", "done"}
    \/ \E r \in received_sigterm :
          /\ job.read_batch
          /\ pc[r] \in Exited \cup BatchEnding \cup {"loop", "before_preemption", "before_sigterm", "done"}

PromptInv ==
    AskedToStop =>
        /\ asked_step <= global_step /\ global_step <= asked_step + 1
        /\ global_step = asked_step + 1 => StopsNext

IndInv == TypeOK /\ JobInv /\ AnswerInv /\ CountInv /\ PromptInv

-----------------------------------------------------------------------------

\* The ranks before their first batch.
LEMMA InitInv == Init => IndInv
<1> SUFFICES ASSUME Init PROVE IndInv
  OBVIOUS
<1> USE DEF Init, Ranks, Broadcasts, EndChecks, BeforeChecks
<1>1. /\ job \in JobType /\ 0 \in Ranks
      /\ job.preemption_enabled \in BOOLEAN /\ job.timer \in BOOLEAN /\ job.read_batch \in BOOLEAN
  BY PreemptionAssumption DEF JobType
<1>2. TypeOK
  BY <1>1 DEF TypeOK, Unanswered, Places, Underway
<1>3. JobInv
  BY <1>1 DEF JobInv
<1>4. AnswerInv
  BY <1>1 DEF AnswerInv, AnsweredBehind, YesIsRankZeros, PassedOnNo, LeftOnYes, AllLeave,
              Behind, Unanswered, BatchEnding, Exited
<1>5. CountInv
  BY <1>1 DEF CountInv, RankCounts, SavedCounts, BatchEnding, BetweenBatches, InBatch
<1>6. PromptInv
  BY DEF PromptInv, AskedToStop
<1> QED
  BY <1>2, <1>3, <1>4, <1>5, <1>6 DEF IndInv

-----------------------------------------------------------------------------
\* Every step of a rank is a check of one of the five places or one of the rest.
LEMMA RankSteps ==
    ASSUME TypeOK, JobInv, NEW r \in Ranks, RankStep(r)
    PROVE  \/ \E c \in Broadcasts : CheckAt(r, c)
           \/ SigtermCheck(r) \/ BatchCompleted(r) \/ StartBatch(r) \/ EndEpoch(r) \/ Fetch(r)
<1> USE DEF CheckAt, InUse, FlagOf, After, Broadcasts, EndChecks, BeforeChecks
<1>1. CASE OnFitStart(r)
  <2>1. CheckAt(r, "fit_start")
    BY <1>1 DEF OnFitStart, _check_time_remaining, Check, JobInv
  <2> QED
    BY <2>1
<1>2. CASE PreemptionCheck(r, "end_preemption", "end_timer")
  <2>1. CheckAt(r, "end_preemption")
    BY <1>2 DEF PreemptionCheck, Check, JobInv
  <2> QED
    BY <2>1
<1>3. CASE _check_time_remaining(r, "end_timer", "completed")
  <2>1. CheckAt(r, "end_timer")
    BY <1>3 DEF _check_time_remaining, Check, JobInv
  <2> QED
    BY <2>1
<1>4. CASE PreemptionCheck(r, "before_preemption", "before_sigterm")
  <2>1. CheckAt(r, "before_preemption")
    BY <1>4 DEF PreemptionCheck, Check, JobInv
  <2> QED
    BY <2>1
<1>5. CASE _check_time_remaining(r, "before_timer", "fetch")
  <2>1. CheckAt(r, "before_timer")
    BY <1>5 DEF _check_time_remaining, Check, JobInv
  <2> QED
    BY <2>1
<1> QED
  BY <1>1, <1>2, <1>3, <1>4, <1>5
     DEF RankStep, OnTrainBatchEnd, _check_shutdown_before_next_batch

\* What a check does, spelled out.
LEMMA CheckCases ==
    ASSUME TypeOK, JobInv, NEW r \in Ranks, NEW c \in Broadcasts, CheckAt(r, c)
    PROVE  /\ pc[r] = c
           /\ \/ /\ pc' = [pc EXCEPT ![r] = After(c)]
                 /\ UNCHANGED <<completed, exit_at>>
                 /\ \/ ~InUse(c) /\ posted' = posted
                    \/ InUse(c) /\ r = 0 /\ ~FlagOf(c) /\ posted' = [posted EXCEPT ![c] = "no"]
                    \/ InUse(c) /\ r # 0 /\ posted[c] = "no" /\ posted' = posted
              \/ /\ pc' = [pc EXCEPT ![r] = "save"]
                 /\ exit_at' = [exit_at EXCEPT ![r] = c]
                 /\ completed' = [completed EXCEPT ![r] = _flush_in_flight_batch_progress(r)]
                 /\ InUse(c)
                 /\ \/ r = 0 /\ FlagOf(c) /\ posted' = [posted EXCEPT ![c] = "yes"]
                    \/ r # 0 /\ posted[c] = "yes" /\ posted' = posted
           /\ UNCHANGED <<job, ready, consumed, global_step, asking, saved, runs, exits_before>>
<1>1. posted[c] \in {"none", "no", "yes"}
  BY DEF TypeOK
<1>2. pc[r] = c
  BY DEF CheckAt, Check
<1> QED
  BY <1>1, <1>2 DEF CheckAt, Check, Pass, Broadcast, Answer, SaveAndExit

\* Every step keeps the types and the configuration.
LEMMA StepKeepsTypes ==
    ASSUME TypeOK, JobInv, Next
    PROVE  TypeOK' /\ JobInv'
<1> USE DEF TypeOK, JobInv, Ranks
<1> USE DEF Places, Underway, Broadcasts, EndChecks, BeforeChecks
<1>1. ASSUME NEW r \in Ranks, RankStep(r) PROVE TypeOK' /\ JobInv'
  <2>1. ASSUME NEW c \in Broadcasts, CheckAt(r, c) PROVE TypeOK' /\ JobInv'
    <3>1. After(c) \in Places /\ (After(c) \in BeforeChecks \cup {"before_sigterm"} => job.read_batch)
      BY <2>1, CheckCases DEF After
    <3> HIDE DEF Broadcasts, Places
    <3>2. c \in Broadcasts \cup {"before_sigterm", "none"} /\ "save" \in Places
      BY DEF Places
    <3>3. _flush_in_flight_batch_progress(r) \in Nat
      BY DEF _flush_in_flight_batch_progress
    <3> QED
      BY <3>1, <3>2, <3>3, <2>1, CheckCases, SMTT(30) DEF asking
  <2>2. CASE SigtermCheck(r)
    BY <2>2 DEF SigtermCheck, Pass, SaveAndExit, _flush_in_flight_batch_progress, asking
  <2>3. CASE BatchCompleted(r) \/ EndEpoch(r) \/ Fetch(r)
    BY <2>3 DEF BatchCompleted, EndEpoch, Fetch, asking, progress
  <2>4. CASE StartBatch(r)
    BY <2>4 DEF StartBatch, asking
  <2> QED
    BY <1>1, <2>1, <2>2, <2>3, <2>4, RankSteps
<1>2. ASSUME NEW r \in Ranks, Signal(r) PROVE TypeOK' /\ JobInv'
  BY <1>2 DEF Signal, Handler, CallbackHandler, LightningHandler, release, NoteAsking, progress
<1>3. CASE Deadline
  BY <1>3 DEF Deadline, NoteAsking, progress
<1>4. CASE Reduce
  BY <1>4 DEF Reduce, Unanswered, progress, asking
<1>5. CASE SaveLast
  BY <1>5 DEF SaveLast, progress, asking
<1>6. CASE Resume
  <2>1. saved.global_step \in Nat /\ saved.completed \in Nat /\ saved.consumed \in Nat
    OBVIOUS
  <2>2. JobInv'
    BY <1>6 DEF Resume
  <2>3. posted' \in [Broadcasts -> {"none", "no", "yes"}]
    BY <1>6 DEF Resume, Unanswered
  <2>4. /\ job' = job /\ saved' = saved
        /\ pc' \in [Ranks -> Places]
        /\ exit_at' \in [Ranks -> Broadcasts \cup {"before_sigterm", "none"}]
    BY <1>6 DEF Resume
  <2>7. ready' \in [Ranks -> Nat] /\ completed' \in [Ranks -> Nat] /\ consumed' \in [Ranks -> Nat]
    <3> HIDE DEF TypeOK, JobInv
    <3> QED
      BY <1>6, <2>1 DEF Resume
  <2>5. /\ global_step' \in Nat /\ runs' \in Nat /\ exits_before' \in Nat /\ asked_step' \in Nat
    BY <1>6, <2>1 DEF Resume
  <2>8. /\ released' = {} /\ received_sigterm' = {}
        /\ _interrupted' \in BOOLEAN /\ deadline_passed' \in BOOLEAN
    BY <1>6 DEF Resume, LoadTimerState
  <2>6. TypeOK'
    <3> HIDE DEF Places, Broadcasts
    <3> QED
      BY <2>3, <2>4, <2>5, <2>7, <2>8
  <2> QED
    BY <2>2, <2>6
<1> QED
  BY <1>1, <1>2, <1>3, <1>4, <1>5, <1>6 DEF Next
-----------------------------------------------------------------------------
\* How the place after a check differs from it.
LEMMA AfterCheck ==
    ASSUME NEW c \in Broadcasts
    PROVE  /\ Behind(After(c)) = Behind(c) \cup {c}
           /\ c \notin Behind(c) /\ Behind(c) \subseteq Broadcasts
           /\ c \notin Exited /\ After(c) \notin Exited
           /\ After(c) \in BatchEnding <=> c \in BatchEnding
           /\ c = "fit_start" => c \notin BatchEnding
BY DEF After, Behind, Exited, BatchEnding, Broadcasts, EndChecks, BeforeChecks

\* A check keeps what is known of the answers.
LEMMA CheckKeepsAnswers ==
    ASSUME TypeOK, JobInv, AnswerInv, NEW r \in Ranks, NEW c \in Broadcasts, CheckAt(r, c)
    PROVE  AnswerInv'
<1> USE DEF TypeOK, JobInv, AnswerInv, Ranks
<1>1. pc[r] = c /\ job' = job /\ received_sigterm' = received_sigterm
  BY CheckCases DEF asking
<1>2. \A d : InUse(d)' <=> InUse(d)
  BY <1>1 DEF InUse
<1>3. \A p : Behind(p)' = Behind(p)
  BY DEF Behind
<1>4. r = 0 => posted[c] = "none"
  BY <1>1, AfterCheck DEF AnsweredBehind
<1>7. \A d \in Broadcasts : /\ posted[d] = "no" => posted'[d] = "no"
                            /\ posted[d] = "yes" => posted'[d] = "yes"
  BY <1>4, CheckCases
<1>8. ASSUME NEW s \in Ranks, pc[s] \in Exited, exit_at'[s] = exit_at[s]
      PROVE  \/ exit_at'[s] \in Broadcasts /\ posted'[exit_at'[s]] = "yes"
             \/ /\ exit_at'[s] = "before_sigterm" /\ s \in received_sigterm' /\ job'.read_batch
                /\ \A d \in Behind("before_sigterm") : InUse(d) => posted'[d] = "no"
  <2>1. Behind("before_sigterm") \subseteq Broadcasts
    BY DEF Behind, Broadcasts, EndChecks, BeforeChecks
  <2> QED
    BY <1>1, <1>7, <1>8, <2>1 DEF LeftOnYes
<1>5. CASE /\ pc' = [pc EXCEPT ![r] = After(c)]
           /\ UNCHANGED <<completed, exit_at>>
           /\ \/ ~InUse(c) /\ posted' = posted
              \/ InUse(c) /\ r = 0 /\ ~FlagOf(c) /\ posted' = [posted EXCEPT ![c] = "no"]
              \/ InUse(c) /\ r # 0 /\ posted[c] = "no" /\ posted' = posted
  <2>1. AnsweredBehind'
    BY <1>1, <1>3, <1>5, AfterCheck DEF AnsweredBehind
  <2>2. YesIsRankZeros'
    BY <1>1, <1>5, AfterCheck DEF YesIsRankZeros, InUse
  <2>3. PassedOnNo'
    <3> SUFFICES ASSUME NEW s \in Ranks
                 PROVE  /\ \A d \in Behind(pc'[s]) : InUse(d) => posted'[d] = "no"
                        /\ pc'[s] \in BatchEnding => posted'["fit_start"] = "no"
      BY <1>1 DEF PassedOnNo, InUse
    <3>1. \A d \in Broadcasts : posted[d] = "no" => posted'[d] = "no"
      BY <1>5
    <3>2. InUse(c) => posted'[c] = "no"
      BY <1>5
    <3>3. \A d \in Behind(pc[s]) : InUse(d) => posted[d] = "no"
      BY DEF PassedOnNo
    <3>4. Behind(pc[s]) \subseteq Broadcasts /\ "fit_start" \in Broadcasts
      BY DEF Behind, Broadcasts, EndChecks, BeforeChecks
    <3>5. pc'[s] = pc[s] \/ (s = r /\ pc'[s] = After(c) /\ pc[s] = c)
      BY <1>1, <1>5
    <3> QED
      BY <3>1, <3>2, <3>3, <3>4, <3>5, AfterCheck DEF PassedOnNo
  <2>4. \A s \in Ranks : pc'[s] \in Exited => pc[s] \in Exited /\ pc'[s] = pc[s]
    BY <1>1, <1>5, AfterCheck
  <2>5. LeftOnYes'
    BY <1>1, <1>2, <1>3, <1>5, <1>8, <2>4 DEF LeftOnYes
  <2>6. AllLeave'
    BY <1>1, <1>5, AfterCheck DEF AllLeave, Exited
  <2> QED
    BY <2>1, <2>2, <2>3, <2>5, <2>6
<1>6. CASE /\ pc' = [pc EXCEPT ![r] = "save"]
           /\ exit_at' = [exit_at EXCEPT ![r] = c]
           /\ InUse(c)
           /\ \/ r = 0 /\ FlagOf(c) /\ posted' = [posted EXCEPT ![c] = "yes"]
              \/ r # 0 /\ posted[c] = "yes" /\ posted' = posted
  <2>1. AnsweredBehind'
    BY <1>1, <1>3, <1>6 DEF AnsweredBehind, Exited
  <2>2. YesIsRankZeros'
    BY <1>1, <1>6, AfterCheck DEF YesIsRankZeros, Exited, InUse
  <2>3. PassedOnNo'
    <3>1. Behind("save") = {} /\ "save" \notin BatchEnding
      BY DEF Behind, BatchEnding
    <3> SUFFICES ASSUME NEW s \in Ranks
                 PROVE  /\ \A d \in Behind(pc'[s]) : InUse(d) => posted'[d] = "no"
                        /\ pc'[s] \in BatchEnding => posted'["fit_start"] = "no"
      BY <1>1 DEF PassedOnNo, InUse
    <3>2. \A d \in Broadcasts : posted[d] = "no" => posted'[d] = "no"
      BY <1>4, <1>6
    <3>3. \A d \in Behind(pc[s]) : InUse(d) => posted[d] = "no"
      BY DEF PassedOnNo
    <3>4. Behind(pc[s]) \subseteq Broadcasts /\ "fit_start" \in Broadcasts
      BY DEF Behind, Broadcasts, EndChecks, BeforeChecks
    <3>5. pc'[s] = pc[s] \/ pc'[s] = "save"
      BY <1>6
    <3> QED
      BY <3>1, <3>2, <3>3, <3>4, <3>5 DEF PassedOnNo
  <2>4. \A s \in Ranks : s # r /\ pc'[s] \in Exited => pc[s] \in Exited /\ exit_at'[s] = exit_at[s]
    BY <1>1, <1>6
  <2>5. exit_at'[r] = c /\ posted'[c] = "yes"
    BY <1>6
  <2>6. LeftOnYes'
    <3> SUFFICES ASSUME NEW s \in Ranks, pc'[s] \in Exited
                 PROVE  \/ exit_at'[s] \in Broadcasts /\ posted'[exit_at'[s]] = "yes"
                        \/ /\ exit_at'[s] = "before_sigterm" /\ s \in received_sigterm' /\ job'.read_batch
                           /\ \A d \in Behind("before_sigterm") : InUse(d) => posted'[d] = "no"
      BY <1>1, <1>2, <1>3 DEF LeftOnYes
    <3>1. CASE s = r
      BY <2>5, <3>1
    <3>2. CASE s # r
      BY <1>8, <2>4, <3>2
    <3> QED
      BY <3>1, <3>2
  <2>7. AllLeave'
    BY <1>1, <1>6, AfterCheck DEF AllLeave, Exited
  <2> QED
    BY <2>1, <2>2, <2>3, <2>6, <2>7
<1> QED
  BY <1>5, <1>6, CheckCases

\* Every step keeps what is known of the answers.
LEMMA StepKeepsAnswers ==
    ASSUME TypeOK, JobInv, AnswerInv, Next
    PROVE  AnswerInv'
<1> USE DEF TypeOK, JobInv, AnswerInv, Ranks
<1> USE DEF AnsweredBehind, YesIsRankZeros, PassedOnNo, LeftOnYes, AllLeave
<1>1. ASSUME NEW r \in Ranks, RankStep(r) PROVE AnswerInv'
  <2>1. CASE \E c \in Broadcasts : CheckAt(r, c)
    BY <2>1, CheckKeepsAnswers
  <2> USE DEF InUse, Behind, Exited, BatchEnding, Broadcasts, EndChecks, BeforeChecks
  <2>2. CASE SigtermCheck(r) /\ r \in received_sigterm
    BY <2>2 DEF SigtermCheck, SaveAndExit, asking
  <2>3. CASE SigtermCheck(r) /\ r \notin received_sigterm
    BY <2>3 DEF SigtermCheck, Pass, asking
  <2>4. CASE BatchCompleted(r)
    BY <2>4 DEF BatchCompleted, asking
  <2>5. CASE StartBatch(r)
    BY <2>5 DEF StartBatch, asking
  <2>6. CASE EndEpoch(r)
    BY <2>6 DEF EndEpoch, asking
  <2>7. CASE Fetch(r)
    BY <2>7 DEF Fetch, asking
  <2>8. \/ \E c \in Broadcasts : CheckAt(r, c)
        \/ SigtermCheck(r) \/ BatchCompleted(r) \/ StartBatch(r) \/ EndEpoch(r) \/ Fetch(r)
    BY <1>1, RankSteps
  <2> HIDE DEF AnswerInv
  <2> QED
    BY <2>1, <2>2, <2>3, <2>4, <2>5, <2>6, <2>7, <2>8
<1> USE DEF InUse, Behind, Exited, BatchEnding, Broadcasts, EndChecks, BeforeChecks
<1>2. ASSUME NEW r \in Ranks, Signal(r) PROVE AnswerInv'
  BY <1>2 DEF Signal, Handler, CallbackHandler, LightningHandler, release
<1>3. CASE Deadline
  BY <1>3 DEF Deadline
<1>4. CASE Reduce
  BY <1>4 DEF Reduce, Unanswered, asking
<1>5. CASE SaveLast
  BY <1>5 DEF SaveLast, asking
<1>6. CASE Resume
  BY <1>6 DEF Resume, Unanswered
<1> HIDE DEF TypeOK, JobInv, AnswerInv
<1> QED
  BY <1>1, <1>2, <1>3, <1>4, <1>5, <1>6 DEF Next

-----------------------------------------------------------------------------
\* A step of rank r, which does not leave in it.
OnlyRankMoves(r) ==
    /\ job' = job /\ global_step' = global_step /\ exits_before' = exits_before
    /\ pc' = [pc EXCEPT ![r] = pc'[r]] /\ pc'[r] # "left"
    /\ \A s \in Ranks : s # r => /\ ready'[s] = ready[s] /\ completed'[s] = completed[s]
                                 /\ consumed'[s] = consumed[s] /\ exit_at'[s] = exit_at[s]

\* A step of one rank disturbs its own counts only.
LEMMA RankStepKeepsCounts ==
    ASSUME TypeOK, JobInv, AnswerInv, CountInv, NEW r \in Ranks, RankStep(r)
    PROVE  CountInv'
<1>1. /\ epoch_len \in Nat /\ global_step \in Nat /\ exits_before \in Nat
      /\ 0 \in Ranks /\ job.read_batch \in BOOLEAN
      /\ DOMAIN pc = Ranks /\ DOMAIN exit_at = Ranks
      /\ ready \in [Ranks -> Nat] /\ completed \in [Ranks -> Nat] /\ consumed \in [Ranks -> Nat]
      /\ \A s \in Ranks : pc[s] \in {"before_preemption", "before_sigterm", "before_timer"} => job.read_batch
  BY PreemptionAssumption DEF TypeOK, JobInv, BeforeChecks
<1>2. pc[r] # "left" /\ pc[0] # "left"
  <2>1. pc[r] # "left"
    BY RankSteps, CheckCases DEF SigtermCheck, BatchCompleted, StartBatch, EndEpoch, Fetch,
       Broadcasts, EndChecks, BeforeChecks
  <2> QED
    BY <1>1, <2>1 DEF AnswerInv, AllLeave
<1>3. RankCounts(r)
  BY DEF CountInv
<1>4. SUFFICES OnlyRankMoves(r) /\ RankCounts(r)'
  <2>1. SavedCounts'
    BY <1>1, <1>2, <1>4 DEF SavedCounts, OnlyRankMoves
  <2>2. ASSUME NEW s \in Ranks, s # r PROVE RankCounts(s)'
    <3>1. RankCounts(s)
      BY DEF CountInv
    <3>2. /\ pc'[s] = pc[s] /\ ready'[s] = ready[s] /\ completed'[s] = completed[s]
          /\ consumed'[s] = consumed[s] /\ exit_at'[s] = exit_at[s]
      BY <1>1, <1>4, <2>2 DEF OnlyRankMoves
    <3> QED
      BY <1>4, <3>1, <3>2 DEF RankCounts, OnlyRankMoves
  <2>3. Ranks' = Ranks
    BY <1>4 DEF OnlyRankMoves, Ranks
  <2> QED
    BY <1>4, <2>1, <2>2, <2>3 DEF CountInv
<1> USE DEF BatchEnding, BetweenBatches, InBatch, Broadcasts, EndChecks, BeforeChecks
<1>5. ASSUME NEW c \in Broadcasts, CheckAt(r, c)
      PROVE  OnlyRankMoves(r) /\ RankCounts(r)'
  <2>1. CASE /\ pc' = [pc EXCEPT ![r] = After(c)]
             /\ UNCHANGED <<completed, exit_at>>
    <3>1. After(c) \in {"end_timer", "completed", "loop", "before_sigterm", "fetch"}
      BY DEF After
    <3>2. OnlyRankMoves(r)
      BY <1>5, <2>1, <3>1, <1>1, CheckCases DEF OnlyRankMoves, asking
    <3>3. /\ pc[r] = c /\ pc'[r] = After(c)
          /\ ready'[r] = ready[r] /\ completed'[r] = completed[r] /\ consumed'[r] = consumed[r]
      BY <1>1, <1>5, <2>1, CheckCases
    <3>4. RankCounts(r)'
      BY <1>1, <1>3, <3>2, <3>3 DEF RankCounts, After, OnlyRankMoves
    <3> QED
      BY <3>2, <3>4
  <2>2. CASE /\ pc' = [pc EXCEPT ![r] = "save"]
             /\ exit_at' = [exit_at EXCEPT ![r] = c]
             /\ completed' = [completed EXCEPT ![r] = _flush_in_flight_batch_progress(r)]
    <3>1. OnlyRankMoves(r)
      BY <1>5, <2>2, <1>1, CheckCases DEF OnlyRankMoves, asking
    <3>2. /\ pc[r] = c /\ pc'[r] = "save" /\ exit_at'[r] = c
          /\ ready'[r] = ready[r] /\ completed'[r] = _flush_in_flight_batch_progress(r)
          /\ consumed'[r] = consumed[r]
      BY <1>1, <1>5, <2>2, CheckCases
    <3>3. RankCounts(r)'
      BY <1>1, <1>3, <3>1, <3>2 DEF RankCounts, OnlyRankMoves, _flush_in_flight_batch_progress
    <3> QED
      BY <3>1, <3>3
  <2> QED
    BY <1>5, <2>1, <2>2, CheckCases
<1>6. CASE SigtermCheck(r)
  BY <1>1, <1>3, <1>6 DEF SigtermCheck, OnlyRankMoves, SaveAndExit, Pass, RankCounts, _flush_in_flight_batch_progress
<1>7. CASE BatchCompleted(r)
  BY <1>1, <1>3, <1>7 DEF BatchCompleted, OnlyRankMoves, RankCounts
<1>8. CASE StartBatch(r)
  BY <1>1, <1>3, <1>8 DEF StartBatch, OnlyRankMoves, RankCounts
<1>9. CASE EndEpoch(r)
  BY <1>1, <1>3, <1>9 DEF EndEpoch, OnlyRankMoves, RankCounts, progress
<1>10. CASE Fetch(r)
  BY <1>1, <1>3, <1>10 DEF Fetch, OnlyRankMoves, RankCounts
<1> QED
  BY <1>5, <1>6, <1>7, <1>8, <1>9, <1>10, RankSteps

\* Every step keeps the counts.
LEMMA StepKeepsCounts ==
    ASSUME TypeOK, JobInv, AnswerInv, CountInv, Next
    PROVE  CountInv'
<1> USE DEF TypeOK, JobInv, Ranks
<1>1. ASSUME NEW r \in Ranks, Signal(r) PROVE CountInv'
  BY <1>1 DEF Signal, CountInv, SavedCounts, RankCounts, progress
<1>2. CASE Deadline
  BY <1>2 DEF Deadline, CountInv, SavedCounts, RankCounts, progress
<1> USE DEF BatchEnding, BetweenBatches, InBatch
<1>3. CASE Reduce
  BY <1>3 DEF Reduce, CountInv, SavedCounts, RankCounts, progress
<1>4. CASE SaveLast
  <2> DEFINE early == EndChecks \cup {"fit_start"}
             late == BeforeChecks \cup {"before_sigterm"}
  <2>1. \A r \in Ranks : exit_at[r] \in early <=> exit_at[0] \in early
    <3>1. ASSUME NEW r \in Ranks, exit_at[r] = "before_sigterm",
                 \A c \in Behind("before_sigterm") : InUse(c) => posted[c] = "no"
          PROVE  exit_at[0] \notin early
      <4>1. CASE exit_at[0] \in Broadcasts /\ posted[exit_at[0]] = "yes"
        BY <3>1, <4>1 DEF AnswerInv, YesIsRankZeros, Behind
      <4>2. CASE exit_at[0] = "before_sigterm"
        BY <4>2 DEF EndChecks
      <4> QED
        BY <1>4, <4>1, <4>2 DEF AnswerInv, LeftOnYes, SaveLast, Exited
    <3>2. ASSUME NEW r \in Ranks, posted[exit_at[r]] = "yes", exit_at[r] \in Broadcasts
          PROVE  exit_at[r] = exit_at[0]
      BY <3>2 DEF AnswerInv, YesIsRankZeros
    <3> QED
      BY <1>4, <3>1, <3>2 DEF AnswerInv, LeftOnYes, SaveLast, Exited, EndChecks
  <2>2. exit_at[0] \in late <=> exit_at[0] \notin early
    BY <1>4 DEF AnswerInv, LeftOnYes, SaveLast, Exited, Broadcasts, EndChecks, BeforeChecks
  <2>3. SavedCounts'
    BY <1>4 DEF SaveLast, SavedCounts, progress
  <2>4. \A r \in Ranks : RankCounts(r)'
    BY <1>4, <2>1, <2>2 DEF SaveLast, CountInv, RankCounts, progress
  <2> QED
    BY <1>4, <2>3, <2>4 DEF SaveLast, CountInv
<1>5. CASE Resume
  <2>1. pc[0] = "left"
    BY <1>5 DEF Resume
  <2> QED
    BY <1>5, <2>1 DEF Resume, CountInv, SavedCounts, RankCounts
<1> QED
  BY <1>1, <1>2, <1>3, <1>4, <1>5, RankStepKeepsCounts DEF Next

-----------------------------------------------------------------------------
\* Where a step takes a rank, as far as it matters for a job that was asked to stop.
LEMMA RankMoves ==
    ASSUME TypeOK, JobInv, NEW r \in Ranks, RankStep(r)
    PROVE  /\ UNCHANGED <<job, global_step, asking, saved>>
           /\ pc[r] \notin Exited \cup {"done"}
           /\ \A s \in Ranks \ {r} : pc'[s] = pc[s]
           /\ pc[r] = "end_preemption" =>
                 /\ pc'[r] \in {"end_timer", "save"}
                 /\ r = 0 /\ job.preemption_enabled /\ _interrupted => pc'[r] = "save"
           /\ pc[r] = "end_timer" =>
                 /\ pc'[r] \in {"completed", "save"}
                 /\ r = 0 /\ job.timer /\ deadline_passed => pc'[r] = "save"
           /\ pc[r] = "completed" => pc'[r] = "loop"
           /\ pc[r] = "loop" /\ job.read_batch => pc'[r] \in {"before_preemption", "done"}
           /\ pc[r] = "before_preemption" => pc'[r] \in {"before_sigterm", "save"}
           /\ pc[r] = "before_sigterm" /\ r \in received_sigterm => pc'[r] = "save"
<1>1. DOMAIN pc = Ranks
  BY DEF TypeOK
<1> USE DEF Exited
<1>2. ASSUME NEW c \in Broadcasts, CheckAt(r, c)
      PROVE  /\ UNCHANGED <<job, global_step, asking, saved>> /\ pc[r] = c
             /\ \A s \in Ranks \ {r} : pc'[s] = pc[s]
             /\ pc'[r] = After(c) \/ pc'[r] = "save"
             /\ r = 0 /\ InUse(c) /\ FlagOf(c) => pc'[r] = "save"
  BY <1>1, <1>2, CheckCases
<1>3. CASE \E c \in Broadcasts : CheckAt(r, c)
  <2>1. PICK c \in Broadcasts : CheckAt(r, c)
    BY <1>3
  <2> QED
    BY <1>2, <2>1 DEF After, InUse, FlagOf, Broadcasts, EndChecks, BeforeChecks
<1>4. CASE SigtermCheck(r)
  BY <1>1, <1>4 DEF SigtermCheck, SaveAndExit, Pass
<1>5. CASE BatchCompleted(r)
  BY <1>1, <1>5 DEF BatchCompleted
<1>6. CASE StartBatch(r)
  BY <1>1, <1>6 DEF StartBatch
<1>7. CASE EndEpoch(r)
  BY <1>1, <1>7 DEF EndEpoch
<1>8. CASE Fetch(r)
  BY <1>1, <1>8 DEF Fetch
<1> QED
  BY <1>3, <1>4, <1>5, <1>6, <1>7, <1>8, RankSteps

\* A rank that is about to see that it must stop does not pass the place.
LEMMA RankStepStopsNext ==
    ASSUME TypeOK, JobInv, NEW r \in Ranks, RankStep(r), StopsNext
    PROVE  StopsNext'
<1> USE DEF StopsNext, Exited
<1>1. /\ UNCHANGED <<job, _interrupted, deadline_passed, received_sigterm>>
      /\ 0 \in Ranks /\ received_sigterm \subseteq Ranks
  BY RankMoves DEF asking, TypeOK, JobInv
<1>2. CASE /\ job.preemption_enabled /\ _interrupted
           /\ pc[0] \in Exited \cup {"end_preemption", "done"}
  BY <1>1, <1>2, RankMoves
<1>3. CASE /\ job.timer /\ deadline_passed
           /\ pc[0] \in Exited \cup {"end_preemption", "end_timer", "done"}
  BY <1>1, <1>3, RankMoves
<1>4. ASSUME NEW s \in received_sigterm, job.read_batch,
             pc[s] \in Exited \cup BatchEnding
                         \cup {"loop", "before_preemption", "before_sigterm", "done"}
      PROVE  StopsNext'
  <2>1. s \in Ranks
    BY <1>1
  <2>2. pc'[s] \in Exited \cup BatchEnding
                     \cup {"loop", "before_preemption", "before_sigterm", "done"}
    BY <1>4, <2>1, RankMoves DEF BatchEnding
  <2> QED
    BY <1>1, <1>4, <2>2 DEF BatchEnding
<1> QED
  BY <1>2, <1>3, <1>4

\* A run that was asked to stop passes no check that sees it.
LEMMA StepKeepsPrompt ==
    ASSUME TypeOK, JobInv, PromptInv, Next
    PROVE  PromptInv'
<1>1. /\ global_step \in Nat /\ asked_step \in Nat /\ DOMAIN pc = Ranks /\ 0 \in Ranks
      /\ _interrupted \in BOOLEAN /\ deadline_passed \in BOOLEAN
      /\ received_sigterm \subseteq Ranks
  BY DEF TypeOK, JobInv
<1>2. ASSUME NEW r \in Ranks, RankStep(r) PROVE PromptInv'
  <2>1. UNCHANGED <<job, global_step, asking>>
    BY <1>2, RankMoves
  <2>2. AskedToStop' = AskedToStop /\ asked_step' = asked_step
    BY <2>1 DEF AskedToStop, asking
  <2> QED
    BY <1>2, <2>1, <2>2, RankStepStopsNext DEF PromptInv
<1>3. ASSUME NEW r \in Ranks, Signal(r) PROVE PromptInv'
  <2>1. AskedToStop => AskedToStop'
    BY <1>3 DEF Signal, AskedToStop, Handler, CallbackHandler, LightningHandler, release
  <2>2. StopsNext => StopsNext'
    BY <1>3 DEF Signal, StopsNext, Handler, CallbackHandler, LightningHandler, release
  <2> QED
    BY <1>1, <1>3, <2>1, <2>2 DEF Signal, NoteAsking, PromptInv
<1>4. CASE Deadline
  <2>1. (AskedToStop => AskedToStop') /\ (StopsNext => StopsNext')
    BY <1>4 DEF Deadline, AskedToStop, StopsNext
  <2> QED
    BY <1>1, <1>4, <2>1 DEF Deadline, NoteAsking, PromptInv
<1>5. CASE Reduce
  <2>1. /\ AskedToStop' = AskedToStop /\ asked_step' = asked_step
        /\ global_step' = global_step + 1
    BY <1>5 DEF Reduce, AskedToStop, asking
  <2>2. ~StopsNext
    BY <1>1, <1>5 DEF Reduce, StopsNext, Exited, BatchEnding
  <2>3. AskedToStop => StopsNext'
    BY <1>1, <1>5 DEF Reduce, AskedToStop, StopsNext, asking, BatchEnding
  <2> QED
    BY <1>1, <2>1, <2>2, <2>3 DEF PromptInv
<1>6. CASE SaveLast
  <2>1. AskedToStop' = AskedToStop /\ UNCHANGED <<asked_step, global_step>>
    BY <1>6 DEF SaveLast, AskedToStop, asking
  <2>2. StopsNext => StopsNext'
    BY <1>1, <1>6 DEF SaveLast, StopsNext, Exited, asking
  <2> QED
    BY <2>1, <2>2 DEF PromptInv
<1>7. CASE Resume
  BY <1>7 DEF Resume, LoadTimerState, PromptInv, AskedToStop
<1> QED
  BY <1>2, <1>3, <1>4, <1>5, <1>6, <1>7 DEF Next

\* The invariant is inductive.
LEMMA StepInv == IndInv /\ [Next]_vars => IndInv'
<1>1. ASSUME IndInv, Next PROVE IndInv'
  BY <1>1, StepKeepsTypes, StepKeepsAnswers, StepKeepsCounts, StepKeepsPrompt DEF IndInv
<1>2. ASSUME IndInv, UNCHANGED vars PROVE IndInv'
  <2> USE <1>2 DEF IndInv, vars, progress, asking, Ranks
  <2>1. TypeOK' /\ JobInv'
    BY DEF TypeOK, JobInv
  <2>2. AnswerInv'
    BY DEF AnswerInv, AnsweredBehind, YesIsRankZeros, PassedOnNo, LeftOnYes, AllLeave, InUse
  <2>3. CountInv'
    BY DEF CountInv, SavedCounts, RankCounts
  <2>4. PromptInv'
    BY DEF PromptInv, StopsNext, AskedToStop
  <2> QED
    BY <2>1, <2>2, <2>3, <2>4
<1> QED
  BY <1>1, <1>2

\* IndInv holds in every reachable state.
THEOREM Invariance == Spec => []IndInv
<1>1. Spec => Init /\ [][Next]_vars
  BY PTL DEF Spec, Safety
<1> QED
  BY <1>1, InitInv, StepInv, PTL

\* Type correctness.
THEOREM TypeCorrect == Spec => []TypeOK
<1>1. IndInv => TypeOK
  BY DEF IndInv
<1> QED
  BY <1>1, Invariance, PTL

\* The exit of the ranks is one exit: when a rank has decided to leave by an answer of
\* rank 0, none has gone past the place where it did, and those that have decided did so
\* there, or just before the timer's check by their own flag, with the same progress
\* (the broadcasts in on_train_batch_end, on_fit_start, read_batch).
THEOREM RanksLeaveTogether == Spec => []LeaveTogether
<1>1. ASSUME IndInv PROVE LeaveTogether
  <2> USE <1>1 DEF IndInv
  <2> SUFFICES ASSUME NEW r \in Ranks, NEW s \in Ranks, pc[r] = "save", exit_at[r] \in Broadcasts
               PROVE  \/ pc[s] \in Underway /\ Order(pc[s]) <= Order(exit_at[r])
                      \/ /\ pc[s] = "save" /\ completed[s] = completed[r]
                         /\ \/ exit_at[s] = exit_at[r]
                            \/ /\ exit_at[r] = "before_timer" /\ exit_at[s] = "before_sigterm"
                               /\ s \in received_sigterm
    BY DEF LeaveTogether
  <2> DEFINE c == exit_at[r]
  <2>1. pc[s] \in Places /\ pc[s] # "left"
    BY DEF TypeOK, AnswerInv, AllLeave
  <2>2. posted[c] = "yes"
    BY DEF AnswerInv, LeftOnYes, Exited, Broadcasts, EndChecks, BeforeChecks
  <2>3. pc[0] \in Exited /\ exit_at[0] = c /\ InUse(c)
    BY <2>2 DEF AnswerInv, YesIsRankZeros
  <2>4. CASE pc[s] = "save"
    <3>1. CASE exit_at[s] \in Broadcasts /\ posted[exit_at[s]] = "yes"
      <4>1. exit_at[s] = c
        BY <2>3, <3>1 DEF AnswerInv, YesIsRankZeros
      <4> QED
        BY <2>4, <4>1 DEF CountInv, RankCounts, TypeOK
    <3>2. CASE /\ exit_at[s] = "before_sigterm" /\ s \in received_sigterm
               /\ \A d \in Behind("before_sigterm") : InUse(d) => posted[d] = "no"
      <4>1. c = "before_timer"
        BY <2>2, <2>3, <3>2 DEF Behind, Broadcasts, EndChecks, BeforeChecks
      <4> QED
        BY <2>4, <3>2, <4>1 DEF CountInv, RankCounts, TypeOK, EndChecks
    <3> QED
      BY <2>4, <3>1, <3>2 DEF AnswerInv, LeftOnYes, Exited
  <2>5. CASE pc[s] # "save"
    <3>1. ~ (c \in Behind(pc[s])) /\ (c = "fit_start" => pc[s] \notin BatchEnding)
      BY <2>2, <2>3 DEF AnswerInv, PassedOnNo
    <3>2. pc[s] = "done" => c \in EndChecks \cup {"fit_start"}
      BY PreemptionAssumption DEF CountInv, RankCounts, BetweenBatches, TypeOK
    <3> QED
      BY <2>1, <2>5, <3>1, <3>2
         DEF Places, Underway, Broadcasts, EndChecks, BeforeChecks, Behind, BatchEnding, Order
  <2> QED
    BY <2>4, <2>5
<1> QED
  BY <1>1, Invariance, PTL

\* Across exits and resumptions progress is what was trained, but for the batches that
\* an exit before a batch counted (the flush of _save_last_checkpoint_and_exit, the
\* order of counter and hooks).
THEOREM ProgressCounted == Spec => []ProgressMatchesSteps
<1>1. IndInv => ProgressMatchesSteps
  BY DEF IndInv, CountInv, RankCounts, BetweenBatches, ProgressMatchesSteps, TypeOK
<1> QED
  BY <1>1, Invariance, PTL

\* Whenever SIGTERM or the deadline comes, at most one more batch is trained.
THEOREM ExitIsPrompt == Spec => []PromptExit
<1>1. IndInv => PromptExit
  BY DEF IndInv, PromptInv, PromptExit
<1> QED
  BY <1>1, Invariance, PTL

-----------------------------------------------------------------------------
\* While a rank is in the save, rank 0 has decided to leave too or is in the same batch:
\* it does not end the epoch.
LEMMA EpochGoesOn ==
    ASSUME IndInv, NEW r \in Ranks,
           pc[r] = "before_sigterm" \/ pc[r] = "save" \/ (RankStep(r) /\ pc'[r] = "save")
    PROVE  pc[0] # "done" /\ ~EndEpoch(0)
<1> USE DEF IndInv
<1>1. /\ epoch_len \in Nat /\ global_step \in Nat /\ exits_before \in Nat
      /\ 0 \in Ranks /\ ready[0] \in Nat /\ ready[r] \in Nat
  BY PreemptionAssumption DEF TypeOK, JobInv
<1>2. /\ pc[0] \in {"loop", "done"} => ready[0] = global_step + exits_before
      /\ pc[0] = "done" => ready[0] >= epoch_len
  BY <1>1 DEF CountInv, RankCounts, BetweenBatches
<1>3. ASSUME ready[r] = global_step + exits_before + 1, ready[r] <= epoch_len
      PROVE  pc[0] # "done" /\ ~EndEpoch(0)
  BY <1>1, <1>2, <1>3 DEF EndEpoch
<1>4. CASE pc[r] = "before_sigterm"
  BY <1>3, <1>4 DEF CountInv, RankCounts, InBatch
<1>5. CASE pc[0] \in Exited
  BY <1>5 DEF EndEpoch, Exited
<1>6. CASE pc[r] = "save"
  <2>1. pc[0] \in Exited \/ exit_at[r] = "before_sigterm"
    BY <1>6 DEF AnswerInv, LeftOnYes, YesIsRankZeros, Exited
  <2>2. exit_at[r] = "before_sigterm" =>
           ready[r] = global_step + exits_before + 1 /\ ready[r] <= epoch_len
    BY <1>6 DEF CountInv, RankCounts, EndChecks
  <2> QED
    BY <1>3, <1>5, <2>1, <2>2
<1>7. ASSUME RankStep(r), pc'[r] = "save", pc[r] # "before_sigterm"
      PROVE  pc[0] \in Exited \/ (r = 0 /\ pc[0] \in Broadcasts)
  <2>1. PICK c \in Broadcasts : CheckAt(r, c)
    BY <1>7, RankSteps DEF SigtermCheck, BatchCompleted, StartBatch, EndEpoch, Fetch, TypeOK
  <2>2. pc[r] = c /\ (r = 0 \/ posted[c] = "yes")
    BY <1>7, <2>1, CheckCases DEF TypeOK, After, Broadcasts, EndChecks, BeforeChecks
  <2> QED
    BY <2>1, <2>2 DEF AnswerInv, YesIsRankZeros
<1>8. CASE RankStep(r) /\ pc'[r] = "save" /\ pc[r] # "before_sigterm"
  BY <1>5, <1>7, <1>8 DEF EndEpoch, Broadcasts, EndChecks, BeforeChecks
<1> QED
  BY <1>4, <1>6, <1>8

\* A rank decides to leave only in a job that was asked to stop.
LEMMA LeavesWhenAsked ==
    ASSUME IndInv, NEW r \in Ranks, RankStep(r), pc'[r] = "save"
    PROVE  AskedToStop \/ \E s \in Ranks : pc[s] = "save"
<1> USE DEF IndInv
<1>1. CASE SigtermCheck(r)
  <2>1. pc[r] = "before_sigterm" /\ r \in received_sigterm
    BY <1>1 DEF SigtermCheck, Pass, TypeOK
  <2> QED
    BY <2>1 DEF JobInv, AskedToStop
<1>2. ASSUME NEW c \in Broadcasts, CheckAt(r, c)
      PROVE  AskedToStop \/ \E s \in Ranks : pc[s] = "save"
  <2>1. \/ InUse(c) /\ FlagOf(c)
        \/ posted[c] = "yes"
    BY <1>2, CheckCases DEF TypeOK, After, Broadcasts, EndChecks, BeforeChecks
  <2>2. InUse(c) /\ FlagOf(c) => AskedToStop
    BY DEF InUse, FlagOf, AskedToStop, Broadcasts, EndChecks, BeforeChecks
  <2>3. posted[c] = "yes" => pc[0] = "save"
    <3>1. pc[r] \notin Exited
      BY RankMoves
    <3> QED
      BY <3>1 DEF AnswerInv, YesIsRankZeros, AllLeave, Exited, JobInv
  <2> QED
    BY <2>1, <2>2, <2>3 DEF JobInv
<1> QED
  BY <1>1, <1>2, RankSteps DEF BatchCompleted, StartBatch, EndEpoch, Fetch, TypeOK

\* A step of a rank: the job decides to stop, ends its epoch, or does not move.
LEMMA RankStepIsJobStep ==
    ASSUME IndInv, NEW r \in Ranks, RankStep(r)
    PROVE  OneJob!Decide \/ OneJob!Finish \/ UNCHANGED OneJob!jobVars
<1> USE DEF IndInv
<1>1. /\ 0 \in Ranks /\ pc[r] \notin {"left", "save", "done"}
      /\ UNCHANGED <<job, global_step, asking, saved>>
      /\ \A s \in Ranks \ {r} : pc'[s] = pc[s]
  BY RankMoves DEF JobInv, Exited
<1>2. AskedToStop' = AskedToStop /\ asked_step' = asked_step /\ Ranks' = Ranks
  BY <1>1 DEF AskedToStop, asking, Ranks
<1>3. pc[0] # "left" /\ pc'[r] # "left"
  <2>1. pc'[r] # "left"
    BY RankSteps, CheckCases
       DEF TypeOK, After, SigtermCheck, Pass, SaveAndExit, BatchCompleted, StartBatch, EndEpoch,
           Fetch, Broadcasts, EndChecks, BeforeChecks
  <2> QED
    BY <1>1, <2>1 DEF AnswerInv, AllLeave
<1>4. pc'[0] # "left"
  BY <1>1, <1>3
<1>5. CASE \E s \in Ranks : pc[s] = "save"
  <2>1. JobState = "stopping" /\ JobState' = "stopping"
    BY <1>1, <1>2, <1>3, <1>4, <1>5 DEF JobState
  <2> QED
    BY <1>1, <1>2, <2>1 DEF OneJob!jobVars
<1>6. CASE pc'[r] = "save" /\ ~ \E s \in Ranks : pc[s] = "save"
  <2>1. AskedToStop /\ pc[0] # "done"
    BY <1>6, LeavesWhenAsked, EpochGoesOn
  <2>2. JobState = "training" /\ JobState' = "stopping"
    BY <1>1, <1>2, <1>3, <1>4, <1>6, <2>1 DEF JobState
  <2> QED
    BY <1>1, <1>2, <2>1, <2>2 DEF OneJob!Decide
<1>7. CASE pc'[r] # "save" /\ ~ \E s \in Ranks : pc[s] = "save"
  <2>1. ~ \E s \in Ranks' : pc'[s] = "save"
    BY <1>1, <1>2, <1>7
  <2>2. CASE r = 0 /\ pc'[0] = "done"
    <3>1. JobState = "training" /\ JobState' = "finished"
      BY <1>1, <1>3, <1>4, <1>7, <2>1, <2>2 DEF JobState
    <3> QED
      BY <1>1, <1>2, <3>1 DEF OneJob!Finish
  <2>3. CASE ~ (r = 0 /\ pc'[0] = "done")
    <3>1. JobState' = JobState
      BY <1>1, <1>3, <1>4, <1>7, <2>1, <2>3 DEF JobState
    <3> QED
      BY <1>1, <1>2, <3>1 DEF OneJob!jobVars
  <2> QED
    BY <2>2, <2>3
<1> QED
  BY <1>5, <1>6, <1>7

\* Every step of the ranks is a step of the one job, or none.
LEMMA StepSimulation == IndInv /\ [Next]_vars => [OneJob!Next]_(OneJob!jobVars)
<1> SUFFICES ASSUME IndInv, [Next]_vars PROVE [OneJob!Next]_(OneJob!jobVars)
  OBVIOUS
<1> USE DEF IndInv
<1>1. /\ global_step \in Nat /\ asked_step \in Nat /\ 0 \in Ranks /\ AskedToStop \in BOOLEAN
      /\ DOMAIN pc = Ranks
  BY DEF TypeOK, JobInv, AskedToStop
<1>2. ASSUME NEW r \in Ranks, RankStep(r) PROVE [OneJob!Next]_(OneJob!jobVars)
  BY <1>2, RankStepIsJobStep DEF OneJob!Next
<1>3. ASSUME UNCHANGED <<job, pc, global_step, saved>>, pc[0] # "left",
             AskedToStop => AskedToStop', NoteAsking
      PROVE  [OneJob!Next]_(OneJob!jobVars)
  <2>1. JobState' = JobState /\ JobState # "stopped"
    BY <1>3 DEF JobState, Ranks
  <2>2. CASE AskedToStop \/ ~AskedToStop'
    <3>1. (AskedToStop' <=> AskedToStop) /\ asked_step' = asked_step
      BY <1>3, <2>2 DEF NoteAsking
    <3> QED
      BY <1>3, <2>1, <3>1 DEF OneJob!jobVars
  <2>3. CASE ~AskedToStop /\ AskedToStop'
    <3>1. asked_step' = global_step
      BY <2>3, <1>3 DEF NoteAsking
    <3> QED
      BY <1>1, <1>3, <2>1, <2>3, <3>1 DEF OneJob!Ask, OneJob!Next
  <2> QED
    BY <2>2, <2>3
<1>4. ASSUME NEW r \in Ranks, Signal(r) PROVE [OneJob!Next]_(OneJob!jobVars)
  <2>1. AskedToStop => AskedToStop'
    BY <1>4 DEF AskedToStop, Signal, Handler, CallbackHandler, LightningHandler, release
  <2>2. pc[0] # "left"
    BY <1>1, <1>4 DEF Signal, AnswerInv, AllLeave
  <2> QED
    BY <1>3, <1>4, <2>1, <2>2 DEF Signal
<1>5. CASE Deadline
  BY <1>3, <1>5 DEF Deadline, AskedToStop
<1>6. CASE Reduce
  <2>1. JobState = "training" /\ JobState' = "training"
    BY <1>1, <1>6 DEF Reduce, JobState, Ranks
  <2>2. AskedToStop' = AskedToStop /\ asked_step' = asked_step
    BY <1>6 DEF Reduce, AskedToStop, asking
  <2>3. ~StopsNext
    BY <1>1, <1>6 DEF Reduce, StopsNext, Exited, BatchEnding, TypeOK
  <2>4. AskedToStop => asked_step = global_step
    BY <1>1, <2>3 DEF PromptInv
  <2> QED
    BY <1>1, <1>6, <2>1, <2>2, <2>4 DEF Reduce, OneJob!Train, OneJob!Next
<1>7. CASE SaveLast
  <2>1. JobState = "stopping" /\ JobState' = "stopped"
    BY <1>1, <1>7 DEF SaveLast, JobState, Ranks
  <2>2. AskedToStop' = AskedToStop /\ asked_step' = asked_step
    BY <1>7 DEF SaveLast, AskedToStop, asking
  <2> QED
    BY <1>7, <2>1, <2>2 DEF SaveLast, OneJob!Leave, OneJob!Next
<1>8. CASE Resume
  <2>1. JobState = "stopped" /\ JobState' = "training"
    BY <1>1, <1>8 DEF Resume, JobState, Ranks
  <2>2. ~AskedToStop'
    BY <1>8 DEF Resume, LoadTimerState, AskedToStop
  <2> QED
    BY <1>8, <2>1, <2>2 DEF Resume, OneJob!Resume, OneJob!Next
<1>9. CASE UNCHANGED vars
  BY <1>9 DEF vars, asking, OneJob!jobVars, JobState, AskedToStop, Ranks
<1> QED
  BY <1>2, <1>4, <1>5, <1>6, <1>7, <1>8, <1>9 DEF Next

\* The ranks, their broadcasts and their collectives together do what one process
\* would: once asked they train at most one more batch, nothing is trained after a rank
\* decided to leave, and the job goes on from the step at which it was saved (SingleJob).
THEOREM ImplementsSingleJob == Spec => StopsAsOneJob
<1>1. Init => OneJob!Init
  <2> SUFFICES ASSUME Init PROVE OneJob!Init
    OBVIOUS
  <2>1. 0 \in Ranks
    BY PreemptionAssumption DEF Init, Ranks
  <2> QED
    BY <2>1 DEF Init, OneJob!Init, JobState, AskedToStop, Ranks
<1> QED
  BY <1>1, StepSimulation, Invariance, PTL DEF Spec, Safety, StopsAsOneJob, OneJob!Safety
=============================================================================
