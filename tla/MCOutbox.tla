------------------------------ MODULE MCOutbox ------------------------------
(* Instances of Outbox for TLC. *)
EXTENDS Outbox, TLC

CONSTANTS t1

OneTopic == [e \in Events |-> t1]

WorkerSymmetry == Permutations(Workers)
EventSymmetry  == Permutations(Events)
Symmetry       == Permutations(Workers) \cup Permutations(Events)
=============================================================================
