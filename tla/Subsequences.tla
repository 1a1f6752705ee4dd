---------------------------- MODULE Subsequences ----------------------------
(***************************************************************************)
(* The elements of a sequence that lie in a set, in their order: Python's  *)
(* [x for x in s if x in T].  It is SelectSeq for a set, written as a      *)
(* recursive function because the proofs have to look into it.             *)
(***************************************************************************)
EXTENDS Naturals, Sequences

Only(s, T) ==
    LET only[n \in 0 .. Len(s)] ==
            IF n = 0 THEN <<>>
            ELSE IF s[n] \in T THEN Append(only[n - 1], s[n]) ELSE only[n - 1]
    IN  only[Len(s)]
=============================================================================
