--------------------------- MODULE UpdateDelivery ---------------------------
(***************************************************************************)
(* What the webhook ingress promises about the updates of Telegram: an     *)
(* update it received is delivered until it is handled or buried, it is    *)
(* buried only after max_attempts deliveries raised, and no 200 is given   *)
(* for an update of which nothing is left.  As long as nothing disturbs    *)
(* the workers and the dedupe keys, an update that is settled is never     *)
(* delivered again; from then on it may be.                                *)
(*                                                                         *)
(* Nothing is said of streams, entries, workers and batches.               *)
(***************************************************************************)
EXTENDS Naturals

CONSTANTS Updates, MaxAttempts

VARIABLES
  told,        \* updates Telegram got a 200 for
  waiting,     \* updates that will still be delivered
  handled,     \* how often an update was handled
  raised,      \* how often its handler raised
  buried,      \* updates given up
  disturbed    \* a worker died or was robbed of an entry, or a key expired

vars == <<told, waiting, handled, raised, buried, disturbed>>

Settled(u) == handled[u] > 0 \/ u \in buried

Init ==
  /\ told = {} /\ waiting = {} /\ buried = {}
  /\ handled = [u \in Updates |-> 0]
  /\ raised = [u \in Updates |-> 0]
  /\ disturbed = FALSE

\* An update comes in for the first time, or once more after a disturbance.
Receive(u) ==
  /\ disturbed \/ (u \notin waiting /\ ~Settled(u))
  /\ waiting' = waiting \cup {u}
  /\ told' \in {told, told \cup {u}}
  /\ UNCHANGED <<handled, raised, buried, disturbed>>

\* Telegram repeats an update that is on its way or through.
Repeat(u) ==
  /\ u \in waiting \/ Settled(u)
  /\ told' = told \cup {u}
  /\ UNCHANGED <<waiting, handled, raised, buried, disturbed>>

\* Only a disturbance brings an update back that was settled.
Deliverable(u) ==
  \/ u \in waiting /\ ~Settled(u)
  \/ disturbed /\ (u \in waiting \/ Settled(u))

Handle(u) ==
  /\ Deliverable(u)
  /\ handled' = [handled EXCEPT ![u] = @ + 1]
  /\ UNCHANGED <<told, waiting, raised, buried, disturbed>>

Raise(u) ==
  /\ Deliverable(u)
  /\ raised' = [raised EXCEPT ![u] = @ + 1]
  /\ UNCHANGED <<told, waiting, handled, buried, disturbed>>

Bury(u) ==
  /\ Deliverable(u)
  /\ raised[u] >= MaxAttempts
  /\ buried' = buried \cup {u}
  /\ UNCHANGED <<told, waiting, handled, raised, disturbed>>

\* A batch of updates leaves the queue, each of them settled.
Leave(S) ==
  /\ \A u \in S : Settled(u)
  /\ waiting' = waiting \ S
  /\ UNCHANGED <<told, handled, raised, buried, disturbed>>

Disturb ==
  /\ disturbed' = TRUE
  /\ UNCHANGED <<told, waiting, handled, raised, buried>>

Next ==
  \/ \E u \in Updates : Receive(u) \/ Repeat(u) \/ Handle(u) \/ Raise(u) \/ Bury(u)
  \/ \E S \in SUBSET Updates : Leave(S)
  \/ Disturb

Spec == Init /\ [][Next]_vars
=============================================================================
