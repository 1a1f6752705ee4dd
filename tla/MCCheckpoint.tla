----------------------------- MODULE MCCheckpoint -----------------------------
(***************************************************************************)
(* The checkpoint directory: either a training that writes and reads it    *)
(* over crashes, exits and starts, or one start in any directory of at     *)
(* most max_files checkpoints, those no training of ours leaves included.  *)
(***************************************************************************)
EXTENDS MCCheckpointLifecycle, CheckResume

VARIABLE any_directory  \* which of the two, fixed

DirectoryInit ==
    /\ any_directory \in BOOLEAN
    /\ Init /\ (any_directory => training = MCFiles)
    /\ ResumeInit /\ (~any_directory => dir = {} /\ \A o \in DOMAIN opt : ~opt[o])

DirectoryNext ==
    \/ ~any_directory /\ Next /\ UNCHANGED <<resumeVars, any_directory>>
    \/ any_directory /\ ResumeNext /\ UNCHANGED <<vars, any_directory>>

\* The fairness of FairSpec, for a training.
DirectorySpec ==
    /\ DirectoryInit /\ [][DirectoryNext]_<<vars, resumeVars, any_directory>>
    /\ WF_vars(~any_directory /\ Main) /\ WF_vars(~any_directory /\ WriterDone)
=============================================================================
