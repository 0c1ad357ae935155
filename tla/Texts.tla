-------------------------------- MODULE Texts --------------------------------
(***************************************************************************)
(* Texts as the OT engine and the library under it see them: sequences of  *)
(* characters, cut at positions that count from 0, as in the code.         *)
(***************************************************************************)
EXTENDS Integers, Sequences

Blank == {" ", "\n"}
Letters == {"a", "b", "c", "x", "y"}

\* A text of the user: no control characters.
Characters == Letters \cup Blank \cup {"."}

Larger(a, b) == IF a > b THEN a ELSE b
Smaller(a, b) == IF a < b THEN a ELSE b

\* substring and slice
Cut(t, from, to) == SubSeq(t, Larger(from, 0) + 1, Smaller(to, Len(t)))
From(t, i) == Cut(t, i, Len(t))
Upto(t, i) == Cut(t, 0, i)
=============================================================================
