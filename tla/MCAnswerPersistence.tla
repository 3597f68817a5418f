------------------------ MODULE MCAnswerPersistence -------------------------
(* Instances of AnswerPersistence for TLC. *)
EXTENDS AnswerPersistence, TLC

Symmetry == Permutations(Workers) \cup Permutations(Items)
=============================================================================
