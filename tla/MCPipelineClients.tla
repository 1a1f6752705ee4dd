-------------------------- MODULE MCPipelineClients --------------------------
(* run: files of one to three frames of two samples (the last one short), one *)
(* to three files a session, two streams at a time.  The adapter: more        *)
(* streams, one after another, than there are slots.                          *)
EXTENDS PipelineClients

MCAudioLists == UNION {[1 .. n -> {1, 3, 6}] : n \in 1 .. 3}
=============================================================================
