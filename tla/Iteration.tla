----------------------------- MODULE Iteration -----------------------------
(* A step repeated a number of times: the recursions and loops of the library  *)
(* modules that are proved about, as one recursive function.                   *)
EXTENDS Integers

\* F applied k times to x.
Iterated(F, x, k) == LET f[i \in 0 .. k] == IF i = 0 THEN x ELSE F[f[i - 1]] IN f[k]
=============================================================================
