----------------------------- MODULE StreamSlots -----------------------------
(***************************************************************************)
(* What the bufferer and the context manager have in common: num_slots     *)
(* rows, and Python dictionaries between streams and slots.                *)
(***************************************************************************)
EXTENDS Naturals, Sequences

CONSTANT num_slots  \* rows of the tensors

ASSUME SlotsAssumption == num_slots \in Nat \ {0}

Slots == 0 .. num_slots - 1

\* Python dictionaries: none, d after d[x] = y, d after del d[x].
NoEntries == [k \in {} |-> k]
Put(d, x, y) == [k \in DOMAIN d \cup {x} |-> IF k = x THEN y ELSE d[k]]
Delete(d, x) == [k \in DOMAIN d \ {x} |-> d[k]]
=============================================================================
