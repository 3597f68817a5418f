--------------------------- MODULE AnswerEffects ----------------------------
(***************************************************************************)
(* What the learner is promised about an accepted answer: its effects on   *)
(* progress, mistakes and analytics happen at most once, and an answer     *)
(* whose effects are given up never has any.  docs/09_data_standard.md     *)
(* states the rule ("Accepted answer updates progress exactly once"); the  *)
(* outbox table and its workers are meant to keep it.                      *)
(***************************************************************************)
EXTENDS Naturals

CONSTANT Answers

VARIABLES
  effect,    \* what became of the answer
  times      \* how often its effects were applied

vars == <<effect, times>>

Init ==
  /\ effect = [a \in Answers |-> "none"]
  /\ times = [a \in Answers |-> 0]

Accept(a) ==
  /\ effect[a] = "none"
  /\ effect' = [effect EXCEPT ![a] = "waiting"]
  /\ UNCHANGED times

\* A batch of answers takes effect at once.
Apply(S) ==
  /\ \A a \in S : effect[a] = "waiting"
  /\ effect' = [a \in Answers |-> IF a \in S THEN "applied" ELSE effect[a]]
  /\ times' = [a \in Answers |-> IF a \in S THEN times[a] + 1 ELSE times[a]]

Drop(a) ==
  /\ effect[a] = "waiting"
  /\ effect' = [effect EXCEPT ![a] = "dropped"]
  /\ UNCHANGED times

Next ==
  \/ \E a \in Answers : Accept(a) \/ Drop(a)
  \/ \E S \in SUBSET Answers : Apply(S)

Spec == Init /\ [][Next]_vars

\* The promise in one formula: an answer counts once when it was applied, and
\* not at all before that or when it was given up.
CountedOnce ==
  \A a \in Answers : times[a] = IF effect[a] = "applied" THEN 1 ELSE 0
=============================================================================
