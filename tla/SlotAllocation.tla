--------------------------- MODULE SlotAllocation ---------------------------
(***************************************************************************)
(* What a slot table promises its pipeline: every stream that holds a slot *)
(* is alone in it, keeps it until it is released, and never holds two.     *)
(* CacheAwareContextManager and BatchedCacheFeatureBufferer each keep two  *)
(* dictionaries and a queue of free slots; both are shown to implement     *)
(* this specification.                                                     *)
(***************************************************************************)
EXTENDS FiniteSets

CONSTANTS Streams, Slots, NoStream

VARIABLE owner  \* the stream that holds each slot, or NoStream

Init == owner = [s \in Slots |-> NoStream]

Holders == {owner[s] : s \in Slots} \ {NoStream}

\* Some streams that hold no slot each get a free slot of their own.
Acquire ==
    \E new \in SUBSET (Streams \ Holders) :
    \E place \in [new -> {s \in Slots : owner[s] = NoStream}] :
        /\ \A a, b \in new : place[a] = place[b] => a = b
        /\ owner' = [s \in Slots |->
                       IF \E a \in new : place[a] = s
                       THEN CHOOSE a \in new : place[a] = s
                       ELSE owner[s]]

\* Some slots are given back.
Release ==
    \E freed \in SUBSET Slots :
        owner' = [s \in Slots |-> IF s \in freed THEN NoStream ELSE owner[s]]

Next == Acquire \/ Release

Spec == Init /\ [][Next]_owner
=============================================================================
