---------------------------- MODULE MCPipelineRun ----------------------------
(* Files of one to three frames of two samples (the last one short), one to   *)
(* three files a session, two streams at a time.                              *)
EXTENDS PipelineRun

MCAudioLists == UNION {[1 .. n -> {1, 3, 6}] : n \in 1 .. 3}
=============================================================================
