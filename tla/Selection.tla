----------------------------- MODULE Selection -----------------------------
(* Selecting from a sequence, and a function with one more value. Unlike     *)
(* SelectSeq, what is kept is given by a set of positions and the selection  *)
(* is a recursive function, so that it can be reasoned about (BookLemmas).   *)
EXTENDS Naturals, Sequences

\* The elements of s at the positions in I, in their order.
Picked(s, I) ==
  LET upTo[n \in 0 .. Len(s)] ==
        IF n = 0 THEN <<>>
        ELSE IF n \in I THEN Append(upTo[n - 1], s[n]) ELSE upTo[n - 1]
  IN upTo[Len(s)]

\* f with y at x, whether or not f had a value there.
Assigned(f, x, y) == [z \in DOMAIN f \cup {x} |-> IF z = x THEN y ELSE f[z]]
=============================================================================
