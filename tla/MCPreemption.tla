---------------------------- MODULE MCPreemption ----------------------------
(* Jobs of one to three ranks, with and without the callback, the timer and   *)
(* read_batch, three ranks only with read_batch and not with both ways to      *)
(* stop; and the single jobs of the two counterexamples.                      *)
EXTENDS PreemptionProtocol

MCJobs ==
    {j \in [ranks : {{0}, {0, 1}, {0, 1, 2}}, preemption_enabled : BOOLEAN,
            timer : BOOLEAN, read_batch : BOOLEAN] :
       j.ranks = {0, 1, 2} => j.read_batch /\ ~(j.preemption_enabled /\ j.timer)}

Job(ranks, preemption_enabled, timer) ==
    {[ranks |-> ranks, preemption_enabled |-> preemption_enabled, timer |-> timer,
      read_batch |-> TRUE]}

TimerJob == Job({0}, FALSE, TRUE)
BareJob == Job({0, 1}, FALSE, FALSE)
=============================================================================
