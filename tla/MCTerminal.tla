------------------------------ MODULE MCTerminal ------------------------------
(* Instances of Terminal for TLC. *)
EXTENDS Terminal

\* Nothing tells one fatal signal from another.
Symmetry == Permutations(Fatal)
=============================================================================
