---------------------------- MODULE MCStreamParts ----------------------------
(***************************************************************************)
(* What a streaming pipeline keeps for its streams, each part alone under  *)
(* any caller: the request generator, the slots of the two tables, and the *)
(* biasing models.  Nothing is shared between them here, so a behaviour is *)
(* one of a single part; the others stay as they are at first.             *)
(*                                                                         *)
(* Files: every list of at most four whose lengths are none or straddle    *)
(* the frame boundaries.  Slots: a caller may open more streams than there *)
(* are slots.  Biasing: three configs with models of different sizes, one  *)
(* of them the user's own, and tensors small enough to grow.               *)
(***************************************************************************)
EXTENDS FrameStreamer, SlotTables, BiasedStreams, TLC

CONSTANTS m1, m2, m3, c1, c2, c3

VARIABLE part  \* "generator" | "tables" | "biasing", fixed

MCAudioLists == UNION {[1 .. n -> 0 .. 5] : n \in 0 .. 4}

mc_states == (m1 :> 1) @@ (m2 :> 2) @@ (m3 :> 1)
mc_arcs == (m1 :> 2) @@ (m2 :> 1) @@ (m3 :> 0)
mc_extended_arcs == (m1 :> 2) @@ (m2 :> 2) @@ (m3 :> 1)
mc_alpha == (m1 :> 1) @@ (m2 :> 2) @@ (m3 :> 1)
mc_model_of == (c1 :> m1) @@ (c2 :> m2) @@ (c3 :> m3)

partsVars == <<streamerVars, tableVars, biasingVars, part>>

PartsInit ==
    /\ part \in {"generator", "tables", "biasing"}
    /\ StreamerInit /\ (part # "generator" => audio = <<>>)
    /\ TablesInit /\ (part # "tables" => table = "bufferer")
    /\ BiasingInit

\* The generator has ended; the other parts always go on.
GeneratorDone ==
    /\ part = "generator" /\ generator \in {"stopped", "raised"}
    /\ UNCHANGED partsVars

PartsNext ==
    \/ part = "generator" /\ StreamerNext /\ UNCHANGED <<tableVars, biasingVars, part>>
    \/ GeneratorDone
    \/ part = "tables" /\ TablesNext /\ UNCHANGED <<streamerVars, biasingVars, part>>
    \/ part = "biasing" /\ BiasingNext /\ UNCHANGED <<streamerVars, tableVars, part>>

PartsSpec ==
    /\ PartsInit /\ [][PartsNext]_partsVars
    /\ WF_streamerVars(part = "generator" /\ StreamerNext)

\* The generator ends, as EventuallyEnds says, when it is the part that runs.
GeneratorEnds == part = "generator" => EventuallyEnds
=============================================================================
