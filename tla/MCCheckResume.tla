--------------------------- MODULE MCCheckResume ---------------------------
(***************************************************************************)
(* check_resume in any directory of at most max_files checkpoints.        *)
(***************************************************************************)
EXTENDS CheckResume
============================================================================
