------------------------------ MODULE MCServod ------------------------------
(* An instance of Servod for TLC.                                              *)
EXTENDS Servod

\* A cycle of four samples: the pulse may be the whole cycle, and wraps around its end.
Width(sign, n, unit) == [sign |-> sign, n |-> n, unit |-> unit]
MCCommands == {Width("", n, "steps") : n \in {0, 1, 2, 4}} \cup {Width(s, 1, "steps") : s \in {"+", "-"}}
              \cup {Width("", 67, "%"), Width("", 25, "us")}
MCNarrowing == {Width("", n, "steps") : n \in {1, 4}}
MCStart == {2}
=============================================================================
