------------------------------ MODULE SingleJob ------------------------------
(***************************************************************************)
(* What a graceful stop promises, as if the job were one process: once it  *)
(* is asked to stop it trains at most one more batch, then decides, saves  *)
(* at the step it is at, and goes on from that step when it is resumed.    *)
(***************************************************************************)
EXTENDS Naturals

VARIABLES
    state,       \* "training" | "stopping" | "stopped" | "finished"
    step,        \* optimizer steps
    asked,       \* the job was asked to stop
    late,        \* batches trained since
    saved_step

jobVars == <<state, step, asked, late, saved_step>>

Init ==
    /\ state = "training" /\ step = 0 /\ asked = FALSE /\ late = 0 /\ saved_step = 0

Ask ==
    /\ ~asked /\ state # "stopped"
    /\ asked' = TRUE
    /\ UNCHANGED <<state, step, late, saved_step>>

Train ==
    /\ state = "training" /\ late = 0
    /\ step' = step + 1
    /\ late' = IF asked THEN 1 ELSE 0
    /\ UNCHANGED <<state, asked, saved_step>>

Decide ==
    /\ state = "training" /\ asked
    /\ state' = "stopping"
    /\ UNCHANGED <<step, asked, late, saved_step>>

Leave ==
    /\ state = "stopping"
    /\ state' = "stopped" /\ saved_step' = step
    /\ UNCHANGED <<step, asked, late>>

Resume ==
    /\ state = "stopped"
    /\ state' = "training" /\ step' = saved_step
    /\ asked' = FALSE /\ late' = 0
    /\ UNCHANGED saved_step

Finish ==
    /\ state = "training"
    /\ state' = "finished"
    /\ UNCHANGED <<step, asked, late, saved_step>>

Next == Ask \/ Train \/ Decide \/ Leave \/ Resume \/ Finish

Safety == Init /\ [][Next]_jobVars
==============================================================================
