------------------------ MODULE MCSimulstreamAdapter ------------------------
(* More streams, one after another, than there are slots. *)
EXTENDS SimulstreamAdapter
=============================================================================
