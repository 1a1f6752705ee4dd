---------------------------- MODULE StreamBatches ----------------------------
(***************************************************************************)
(* The batches a slot table may be driven with: any sequence of distinct   *)
(* streams, as transcribe_step requires of its requests.                   *)
(***************************************************************************)
EXTENDS Naturals, Sequences

CONSTANTS
    Streams,    \* stream ids
    max_batch,  \* longest batch
    NoStream    \* stands for "nobody" in the abstract slot table

ASSUME BatchesAssumption ==
    /\ max_batch \in Nat \ {0}
    /\ NoStream \notin Streams

Batches == {b \in UNION {[1 .. n -> Streams] : n \in 1 .. max_batch} :
              \A i, j \in DOMAIN b : b[i] = b[j] => i = j}
Members(b) == {b[i] : i \in DOMAIN b}
=============================================================================
