----------------------------- MODULE MCLearning -----------------------------
(* Instances of Learning for TLC. *)
EXTENDS Learning, TLC

CONSTANTS q1, q2

QuizSymmetry == Permutations({q1, q2})
=============================================================================
