-------------------------- MODULE CheckResumeProofs --------------------------
(***************************************************************************)
(* Proofs about check_resume for directories of any number of checkpoints, *)
(* of any steps.                                                           *)
(***************************************************************************)
EXTENDS CheckResume, FiniteSetTheorems, TLAPS

\* The directory is what it was at the start, and the outcome is still to come or one
\* that check_resume may end with.
IndInv ==
    /\ dir \subseteq Last \cup End /\ IsFiniteSet(dir)
    /\ opt \in Options
    /\ outcome = Verdict("pending") \/ check_resume(dir, opt, outcome)

\* A directory of finitely many checkpoints.
LEMMA DirectoryFinite ==
    ASSUME NEW c \in [1 .. max_files -> Last \cup End]
    PROVE  IsFiniteSet({c[i] : i \in 1 .. max_files})
<1>1. IsFiniteSet(1 .. max_files)
  BY ResumeAssumption, FS_Interval
<1> DEFINE files == {c[i] : i \in 1 .. max_files}
<1>2. c \in Surjection(1 .. max_files, files)
  BY DEF Surjection
<1> QED BY <1>1, <1>2, FS_Surjection

\* The initial directories and outcomes satisfy the invariant and check_resume keeps it.
THEOREM Invariance == ResumeSpec => []IndInv
<1>1. ResumeInit => IndInv
  <2> SUFFICES ASSUME ResumeInit PROVE IndInv
    OBVIOUS
  <2>1. dir \subseteq Last \cup End /\ IsFiniteSet(dir)
    <3>1. CASE dir = {}
      BY <3>1, FS_EmptySet
    <3>2. ASSUME NEW c \in [1 .. max_files -> Last \cup End], dir = {c[i] : i \in 1 .. max_files}
          PROVE  dir \subseteq Last \cup End /\ IsFiniteSet(dir)
      BY <3>2, DirectoryFinite
    <3> QED BY <3>1, <3>2 DEF ResumeInit
  <2> QED BY <2>1 DEF ResumeInit, IndInv
<1>2. IndInv /\ [ResumeNext]_resumeVars => IndInv'
  BY DEF IndInv, ResumeNext, StartJob, resumeVars, check_resume
<1> QED BY <1>1, <1>2, PTL DEF ResumeSpec

-----------------------------------------------------------------------------
\* The finished checkpoints of a kind that the elif chain looks at.
Candidates(k) == _filter_out_unfinished_checkpoints(Matching(dir, k))

\* A path comes from the candidates: a *last of them, without a finished *end, or with
\* resume_past_end one of several sharded *end.
LEMMA WhatIsLoaded ==
    ASSUME IndInv, NEW c \in outcome.path
    PROVE  \/ /\ opt.sharded /\ c \in Candidates("end")
           \/ /\ Candidates("end") = {} /\ c \in Candidates("last")
              /\ \/ opt.sharded
                 \/ \A e \in Candidates("last") : e.step <= c.step
                 \/ Cardinality(Candidates("last")) = 1
<1> DEFINE ends == Candidates("end")
           lasts == Candidates("last")
<1>1. outcome.path # {}
  OBVIOUS
<1>2. \A v : outcome # Verdict(v)
  BY <1>1 DEF Verdict
<1>3. outcome # Initially(opt)
  BY <1>2 DEF Initially
<1>4. Choose(ends, lasts, opt, outcome)
  BY <1>2, <1>3 DEF IndInv, check_resume, Candidates
<1>5. \A d : outcome = Resume(d) => c = d
  BY DEF Resume
<1> HIDE DEF ends, lasts
<1>6. CASE ends # {}
  BY <1>2, <1>3, <1>4, <1>5, <1>6 DEF Choose, ends
<1>7. CASE ends = {} /\ Cardinality(lasts) > 1
  <2>1. SelectLast(lasts, opt, outcome) \/ (Cardinality(lasts) = 1 /\ c \in lasts)
    BY <1>2, <1>3, <1>4, <1>5, <1>7 DEF Choose
  <2> QED BY <1>2, <1>5, <1>7, <2>1 DEF SelectLast, ends, lasts
<1>8. CASE ends = {} /\ ~(Cardinality(lasts) > 1)
  BY <1>2, <1>3, <1>4, <1>5, <1>8 DEF Choose, ends, lasts
<1> QED BY <1>6, <1>7, <1>8

\* No checkpoint whose unfinished marker is set is loaded, whatever is in the directory.
THEOREM OnlyFinishedLoaded == ResumeSpec => []UnfinishedNeverLoaded
<1>1. IndInv => UnfinishedNeverLoaded
  BY WhatIsLoaded DEF UnfinishedNeverLoaded, Candidates, _filter_out_unfinished_checkpoints
<1> QED BY <1>1, Invariance, PTL

\* The checkpoint taken is the newest finished one of its form.
THEOREM NewestIsChosen == ResumeSpec => []NewestLastChosen
<1>1. IndInv => NewestLastChosen
  <2> SUFFICES ASSUME IndInv, ~opt.sharded, NEW c \in outcome.path, NEW e \in Finished("last"),
                      e.dist = c.dist
               PROVE  e.step <= c.step
    BY DEF NewestLastChosen
  <2>1. /\ c \in Candidates("last")
        /\ \/ \A f \in Candidates("last") : f.step <= c.step
           \/ Cardinality(Candidates("last")) = 1
    BY WhatIsLoaded
  <2>2. e \in Candidates("last")
    BY <2>1 DEF Candidates, _filter_out_unfinished_checkpoints, Matching, Finished
  <2>3. e.step \in Int
    <3>1. e \in Last \cup End
      BY DEF Finished, IndInv
    <3>2. e.step \in steps \cup {NoStep}
      <4>1. CASE e \in Last
        BY <4>1 DEF Last
      <4>2. CASE e \in End
        BY <4>2 DEF End
      <4> QED BY <3>1, <4>1, <4>2
    <3>3. NoStep \in Int
      BY DEF NoStep
    <3>4. \A s \in steps : s \in Int
      BY ResumeAssumption
    <3> HIDE DEF NoStep
    <3> QED BY <3>2, <3>3, <3>4
  <2>4. CASE Cardinality(Candidates("last")) = 1
    <3>1. Candidates("last") \subseteq dir
      BY DEF Candidates, _filter_out_unfinished_checkpoints, Matching
    <3>2. IsFiniteSet(Candidates("last"))
      BY <3>1, FS_Subset DEF IndInv
    <3>3. e = c
      BY <2>1, <2>2, <2>4, <3>2, FS_Singleton
    <3> QED BY <2>3, <3>3
  <2> QED BY <2>1, <2>2, <2>4
<1> QED BY <1>1, Invariance, PTL

\* A job that was told to resume drops the progress of no run: in a directory that is
\* not empty it resumes, takes the path it was given or raises, but for a finished *end
\* with resume_past_end.
THEOREM ProgressKept == ResumeSpec => []NeverSilentlyFromScratch
<1>1. IndInv => NeverSilentlyFromScratch
  <2> SUFFICES ASSUME IndInv, opt.resume_if_exists, dir # {}, outcome.verdict = "scratch",
                      ~opt.resume_past_end \/ Finished("end") = {}
               PROVE  FALSE
    BY DEF NeverSilentlyFromScratch
  <2>1. /\ outcome # Verdict("pending") /\ outcome # Verdict("ValueError")
        /\ outcome # Verdict("NotFoundError") /\ \A c : outcome # Resume(c)
    BY DEF Verdict, Resume
  <2>2. /\ ~OnlyUnfinished(dir, "end") /\ ~OnlyUnfinished(dir, "last")
        /\ Choose(Candidates("end"), Candidates("last"), opt, outcome)
    BY <2>1 DEF IndInv, check_resume, Candidates
  <2>3. Candidates("end") \subseteq Finished("end")
    BY DEF Candidates, _filter_out_unfinished_checkpoints, Matching, Finished
  <2>4. Candidates("end") = {} /\ Candidates("last") = {}
    BY <2>1, <2>2, <2>3 DEF Choose, SelectLast
  <2>5. Matching(dir, "end") = {} /\ Matching(dir, "last") = {}
    BY <2>2, <2>4 DEF OnlyUnfinished, Candidates
  <2>6. \A c \in dir : c.kind \in {"last", "end"}
    BY DEF IndInv, Last, End
  <2> QED BY <2>5, <2>6 DEF Matching
<1> QED BY <1>1, Invariance, PTL

\* A run that completed is left alone.
THEOREM CompletedStays == ResumeSpec => []CompletedRunStays
<1>1. IndInv => CompletedRunStays
  <2> SUFFICES ASSUME IndInv, opt.resume_if_exists, ~opt.resume_past_end,
                      NEW c \in Finished("end"), outcome # Verdict("pending")
               PROVE  outcome.verdict = "ValueError"
    BY DEF CompletedRunStays, Verdict
  <2>1. Matching(dir, "end") # {}
    BY DEF Matching, Finished
  <2>2. CASE Candidates("end") = {}
    BY <2>1, <2>2 DEF IndInv, check_resume, OnlyUnfinished, Candidates, Verdict
  <2>3. CASE Candidates("end") # {}
    BY <2>3 DEF IndInv, check_resume, Candidates, Choose, Verdict
  <2> QED BY <2>2, <2>3
<1> QED BY <1>1, Invariance, PTL
=============================================================================
