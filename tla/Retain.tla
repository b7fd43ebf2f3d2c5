------------------------------- MODULE Retain -------------------------------
(***************************************************************************)
(* What Vec::retain and Iterator::filter leave of a sequence, in its order.*)
(***************************************************************************)
EXTENDS Naturals, Sequences

\* The elements of s whose places are in I.
Keep(s, I) ==
  LET kept[i \in 0 .. Len(s)] ==
        IF i = 0 THEN <<>>
        ELSE IF i \in I THEN Append(kept[i - 1], s[i]) ELSE kept[i - 1]
  IN kept[Len(s)]
=============================================================================
