------------------------------- MODULE MCFacts -------------------------------
(***************************************************************************)
(* An instance of Facts for TLC: the extractor and one editor.  Keys and   *)
(* values are interchangeable.                                             *)
(***************************************************************************)
EXTENDS Facts, TLC

Symmetry == Permutations(Keys) \cup Permutations(Values)
=============================================================================
