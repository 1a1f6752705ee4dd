----------------------- MODULE MCCheckpointLifecycle -----------------------
(***************************************************************************)
(* Trainings that save single files or directories, synchronously or       *)
(* asynchronously, and rank the best one or the best two.                  *)
(***************************************************************************)
EXTENDS CheckpointLifecycle

MCFiles == [async_save |-> FALSE, dist_ckpt |-> FALSE, read_batch |-> TRUE, select_latest |-> TRUE,
            save_top_k |-> 1, val_check_interval |-> 2, max_step |-> 5, max_starts |-> 4]

MCDirectories == [MCFiles EXCEPT !.dist_ckpt = TRUE, !.select_latest = FALSE, !.max_starts = 3]

MCTopTwo == [MCFiles EXCEPT !.save_top_k = 2, !.val_check_interval = 1,
                            !.max_step = 3, !.max_starts = 3]

MCAsync == [MCDirectories EXCEPT !.async_save = TRUE, !.read_batch = FALSE,
            !.select_latest = TRUE, !.val_check_interval = 1, !.max_step = 3]

MCAsyncTopTwo == [MCAsync EXCEPT !.save_top_k = 2, !.read_batch = TRUE]

MCTrainings == {MCFiles, MCDirectories, MCTopTwo, MCAsync, MCAsyncTopTwo}
============================================================================
