----------------------------- MODULE Selections -----------------------------
(***************************************************************************)
(* std::erase_if and copy_if on a vector: what they leave of a sequence.   *)
(* SelectSeq of the standard module says the same with a test in place of  *)
(* a set; written as a recursive function over the positions, the lemmas   *)
(* of Selections_proofs can be proved of it.                               *)
(***************************************************************************)
EXTENDS Naturals, Sequences

\* The elements of s that are in T, in their order.
Selected(s, T) ==
    LET upTo[n \in 0 .. Len(s)] ==
            IF n = 0 THEN <<>>
            ELSE IF s[n] \in T THEN Append(upTo[n - 1], s[n]) ELSE upTo[n - 1]
    IN  upTo[Len(s)]
=============================================================================
