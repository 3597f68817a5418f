------------------------------- MODULE Outbox -------------------------------
(***************************************************************************)
(* The durable outbox: the outbox_events table (repositories/outbox.py) and *)
(* the worker pool that turns an accepted answer into progress, mistakes   *)
(* and analytics (workers/outbox.py, workers/outbox_batch.py).             *)
(*                                                                         *)
(* An action is one database transaction, or the unlocked read a later     *)
(* write of the same transaction rests on.  The effect of an event is one  *)
(* answer counted in the progress row of its topic (user, level, theme);   *)
(* the mistake and analytics rows commit in the same transaction.          *)
(*                                                                         *)
(*   batch --------------------------------------------> (done)            *)
(*     \-> single --> counting ------------------------> (done)            *)
(*                       \-> failing --> marking ------> (failed | dead)   *)
(*                                                                         *)
(* The backoff of mark_failed and the order of the claim query are left    *)
(* out: a claim takes any claimable events, which covers the due ones.     *)
(***************************************************************************)
EXTENDS Integers, FiniteSets, Functions, FiniteSetsExt

CONSTANTS
  Events,        \* outbox rows, one per idempotency_key
  Topics,        \* progress rows, one per (user, level, theme)
  TopicOf,       \* the topic of an event
  Workers,       \* outbox worker processes
  BatchSize,     \* batch_size
  Parallelism,   \* max_parallelism
  MaxRetries,    \* max_retries
  MaxCrashes,    \* bound: worker deaths and mark_failed calls that raise
  MaxOverruns,   \* bound: events requeued although a live worker has them
  MaxLost        \* bound: commits whose confirmation is lost

ASSUME EventAssumption == IsFiniteSet(Events)
ASSUME TopicAssumption == TopicOf \in [Events -> Topics]
ASSUME SizeAssumption ==
  BatchSize \in Nat \ {0} /\ Parallelism \in Nat \ {0} /\ MaxRetries \in Nat \ {0}
ASSUME BoundAssumption == MaxCrashes \in Nat /\ MaxOverruns \in Nat /\ MaxLost \in Nat

VARIABLES
  status,      \* OutboxEvent.status, "absent" before the insert
  retry,       \* OutboxEvent.retry_count
  progress,    \* Progress.total_answered of a topic, 0 when there is no row
  claims,      \* the events worker processes have in hand
  applied,     \* committed transactions that counted and recorded the event
  raised,      \* history: attempts at the event that raised
  crashes, overruns, lost      \* used budgets

rows    == <<status, retry>>
history == <<applied, raised>>
budgets == <<crashes, overruns, lost>>
vars    == <<rows, progress, claims, history, budgets>>

Statuses == {"absent", "pending", "processing", "done", "failed", "dead"}
Phases   == {"batch", "single", "counting", "failing", "marking"}

\* "seen" and "was" are what the last unlocked read returned; a claim is loose
\* when asyncio.gather has raised and left its coroutine running.
Claimed == [worker : Workers, event : Events, phase : Phases, loose : BOOLEAN,
            seen : Nat, was : Statuses]

Init ==
  /\ status = [e \in Events |-> "absent"]
  /\ retry = [e \in Events |-> 0]
  /\ progress = [t \in Topics |-> 0]
  /\ claims = {}
  /\ applied = [e \in Events |-> 0]
  /\ raised = [e \in Events |-> 0]
  /\ crashes = 0 /\ overruns = 0 /\ lost = 0

ClaimsOf(w)   == {c \in claims : c.worker = w}
CurrentOf(w)  == {c \in ClaimsOf(w) : ~c.loose}
BatchOf(w)    == {c \in ClaimsOf(w) : c.phase = "batch"}
EventsOf(S)   == {c.event : c \in S}
Processing    == {e \in Events : status[e] = "processing"}

Replace(c, d) == claims' = (claims \ {c}) \cup {d}

-----------------------------------------------------------------------------
(* Producer: the insert is part of the transaction that saves the answer;  *)
(* a second insert of the same key changes nothing.                        *)

Enqueue(e) ==
  /\ status[e] = "absent"
  /\ status' = [status EXCEPT ![e] = "pending"]
  /\ UNCHANGED <<retry, progress, claims, history, budgets>>

-----------------------------------------------------------------------------
(* _claim_events: requeue_stale_processing and claim_batch, one commit.    *)
(* "stale" are the events whose locked_at is older than stale_after_seconds*)
(* - those of a dead worker, and of a live one that overran its lease.     *)

\* What the claim query finds.
Claimable(stale) ==
  {e \in Events : /\ status[e] \in {"pending", "failed"} \/ e \in stale
                  /\ retry[e] < MaxRetries}

\* Mutant of Claim: requeue_stale_processing is not called.
ClaimWithoutRequeue(w) ==
  /\ CurrentOf(w) = {}
  /\ \E ids \in SUBSET Claimable({}) :
       /\ ids # {} /\ Cardinality(ids) <= BatchSize
       /\ status' = [e \in Events |-> IF e \in ids THEN "processing" ELSE status[e]]
       /\ claims' = claims \cup
            {[worker |-> w, event |-> e, phase |-> "batch", loose |-> FALSE,
              seen |-> 0, was |-> "processing"] : e \in ids}
  /\ UNCHANGED <<retry, progress, history, budgets>>

Claim(w) ==
  /\ CurrentOf(w) = {}
  /\ \E stale \in SUBSET Processing : \E ids \in SUBSET Claimable(stale) :
       /\ stale \cup ids # {}
       /\ Cardinality(ids) <= BatchSize
       /\ overruns' = overruns + Cardinality(stale \cap EventsOf(claims))
       /\ overruns' <= MaxOverruns
       /\ status' = [e \in Events |-> IF e \in ids THEN "processing"
                                      ELSE IF e \in stale THEN "failed" ELSE status[e]]
       /\ claims' = claims \cup
            {[worker |-> w, event |-> e, phase |-> "batch", loose |-> FALSE,
              seen |-> 0, was |-> "processing"] : e \in ids}
  /\ UNCHANGED <<retry, progress, history, crashes, lost>>

-----------------------------------------------------------------------------
(* _try_process_batch: the whole batch in one transaction.  The progress   *)
(* totals are incremented by an upsert, under the lock of the row.         *)

\* _insert_analytics: one more question_answered row for every answer.
Recorded(ids) == [e \in Events |-> IF e \in ids THEN applied[e] + 1 ELSE applied[e]]

CountBatch(w) ==
  LET done == EventsOf(BatchOf(w))
  IN /\ BatchOf(w) # {}
     /\ progress' = [t \in Topics |->
                       progress[t] + Cardinality({e \in done : TopicOf[e] = t})]
     /\ applied' = Recorded(done)
     /\ status' = [e \in Events |-> IF e \in done THEN "done" ELSE status[e]]

FallBack(w) ==
  claims' = (claims \ BatchOf(w)) \cup {[c EXCEPT !.phase = "single"] : c \in BatchOf(w)}

BatchCommits(w) ==
  /\ CountBatch(w)
  /\ claims' = claims \ BatchOf(w)
  /\ UNCHANGED <<retry, raised, budgets>>

\* Mutant of BatchFails: the session is not rolled back, the effects stay.
FailWithoutRollback(w) ==
  /\ CountBatch(w)
  /\ FallBack(w)
  /\ UNCHANGED <<retry, raised, budgets>>

\* Mutant of BatchFails: the exception is swallowed, the events pass as done.
FailSilently(w) ==
  /\ BatchOf(w) # {}
  /\ status' = [e \in Events |-> IF e \in EventsOf(BatchOf(w)) THEN "done" ELSE status[e]]
  /\ claims' = claims \ BatchOf(w)
  /\ UNCHANGED <<retry, progress, history, budgets>>

\* Mutant of BatchFails: the progress upsert was committed on its own.
FailKeepingTotals(w) ==
  /\ BatchOf(w) # {}
  /\ progress' = [t \in Topics |->
       progress[t] + Cardinality({e \in EventsOf(BatchOf(w)) : TopicOf[e] = t})]
  /\ FallBack(w)
  /\ UNCHANGED <<rows, history, budgets>>

\* Something raised: rollback, then the events one by one.
BatchFails(w) ==
  /\ BatchOf(w) # {}
  /\ FallBack(w)
  /\ UNCHANGED <<rows, progress, history, budgets>>

\* The commit went through, but the worker was told otherwise.
BatchReplyLost(w) ==
  /\ lost < MaxLost
  /\ lost' = lost + 1
  /\ CountBatch(w)
  /\ FallBack(w)
  /\ UNCHANGED <<retry, raised, crashes, overruns>>

-----------------------------------------------------------------------------
(* _process_event, at most max_parallelism at a time.                      *)

InFlight(w) == {c \in CurrentOf(w) : c.phase \in {"counting", "failing", "marking"}}

\* The progress row is read without a lock...
ReadProgress(c) ==
  /\ c.phase = "single"
  /\ c.loose \/ Cardinality(InFlight(c.worker)) < Parallelism
  /\ Replace(c, [c EXCEPT !.phase = "counting", !.seen = progress[TopicOf[c.event]]])
  /\ UNCHANGED <<rows, progress, history, budgets>>

\* _record_answer_analytics.
RecordedAlone(e) == [applied EXCEPT ![e] = @ + 1]

\* ... and written back as an absolute value.  Two inserts of one row collide
\* on uq_progress_user_level_theme.
CountSingle(c) ==
  LET t == TopicOf[c.event]
  IN /\ c.phase = "counting"
     /\ c.seen = 0 => progress[t] = 0
     /\ progress' = [progress EXCEPT ![t] = c.seen + 1]
     /\ applied' = RecordedAlone(c.event)
     /\ status' = [status EXCEPT ![c.event] = "done"]

SingleCommits(c) ==
  /\ CountSingle(c)
  /\ claims' = claims \ {c}
  /\ UNCHANGED <<retry, raised, budgets>>

Raises(c) ==
  /\ Replace(c, [c EXCEPT !.phase = "failing", !.seen = 0])
  /\ raised' = [raised EXCEPT ![c.event] = @ + 1]

SingleFails(c) ==
  /\ c.phase = "counting"
  /\ Raises(c)
  /\ UNCHANGED <<rows, progress, applied, budgets>>

SingleReplyLost(c) ==
  /\ lost < MaxLost
  /\ lost' = lost + 1
  /\ CountSingle(c)
  /\ Raises(c)
  /\ UNCHANGED <<retry, crashes, overruns>>

-----------------------------------------------------------------------------
(* mark_failed_by_id: the row is loaded without a lock; the flush writes   *)
(* the columns whose value differs from the loaded one.                    *)

LoadFailed(c) ==
  /\ c.phase = "failing"
  /\ Replace(c, [c EXCEPT !.phase = "marking", !.seen = retry[c.event],
                          !.was = status[c.event]])
  /\ UNCHANGED <<rows, progress, history, budgets>>

\* Mutants of AfterFailure: a status the table does not know; one attempt too
\* few.
UnknownStatus(c) == IF c.seen + 1 >= MaxRetries THEN "dead" ELSE "retry"
DeadEarly(c) == IF c.seen + 2 >= MaxRetries THEN "dead" ELSE "failed"

AfterFailure(c) == IF c.seen + 1 >= MaxRetries THEN "dead" ELSE "failed"

MarkFailed(c) ==
  /\ c.phase = "marking"
  /\ retry' = [retry EXCEPT ![c.event] = c.seen + 1]
  /\ status' = [status EXCEPT ![c.event] =
                  IF AfterFailure(c) = c.was THEN @ ELSE AfterFailure(c)]
  /\ claims' = claims \ {c}
  /\ UNCHANGED <<progress, history, budgets>>

\* The database is gone while a failure is recorded: the exception leaves
\* process_once.  One by one, the rest of the batch is given up with it; in a
\* gather the other coroutines go on by themselves.
MarkFailedRaises(c) ==
  LET others == CurrentOf(c.worker) \ {c}
  IN /\ c.phase \in {"failing", "marking"}
     /\ crashes < MaxCrashes
     /\ crashes' = crashes + 1
     /\ claims' = IF c.loose THEN claims \ {c}
                  ELSE IF Parallelism = 1 THEN claims \ CurrentOf(c.worker)
                  ELSE (claims \ CurrentOf(c.worker))
                         \cup {[d EXCEPT !.loose = TRUE] : d \in others}
     /\ UNCHANGED <<rows, progress, history, overruns, lost>>

\* A worker dies, or its rollback raises and run_forever starts over: what it
\* had in hand stays "processing" until the lease is over.
Crash(w) ==
  /\ ClaimsOf(w) # {}
  /\ crashes < MaxCrashes
  /\ crashes' = crashes + 1
  /\ claims' = claims \ ClaimsOf(w)
  /\ UNCHANGED <<rows, progress, history, overruns, lost>>

Next ==
  \/ \E e \in Events : Enqueue(e)
  \/ \E w \in Workers : \/ Claim(w) \/ Crash(w)
                        \/ BatchCommits(w) \/ BatchFails(w) \/ BatchReplyLost(w)
  \/ \E c \in claims : \/ ReadProgress(c)
                       \/ SingleCommits(c) \/ SingleFails(c) \/ SingleReplyLost(c)
                       \/ LoadFailed(c) \/ MarkFailed(c) \/ MarkFailedRaises(c)

Spec == Init /\ [][Next]_vars

\* run_forever polls without end and the event loop runs every coroutine.
\* Crashes, lost confirmations and overrun leases are never owed.
Fairness ==
  \A w \in Workers :
    /\ WF_vars(Claim(w) /\ UNCHANGED overruns)
    /\ WF_vars(BatchCommits(w) \/ BatchFails(w))
    /\ WF_vars(\E c \in ClaimsOf(w) : ReadProgress(c))
    /\ WF_vars(\E c \in ClaimsOf(w) : SingleCommits(c) \/ SingleFails(c))
    /\ WF_vars(\E c \in ClaimsOf(w) : LoadFailed(c) \/ MarkFailed(c))

FairSpec == Spec /\ Fairness

-----------------------------------------------------------------------------
(* Properties. *)

\* Every variable holds what the table and the workers can put there; the
\* claims stay a finite set.
TypeOK ==
  /\ status \in [Events -> Statuses] /\ retry \in [Events -> Nat]
  /\ progress \in [Topics -> Nat]
  /\ claims \subseteq Claimed /\ IsFiniteSet(claims)
  /\ applied \in [Events -> Nat] /\ raised \in [Events -> Nat]
  /\ crashes \in 0 .. MaxCrashes /\ overruns \in 0 .. MaxOverruns /\ lost \in 0 .. MaxLost

Undisturbed == overruns = 0 /\ lost = 0

\* Crashes alone never repeat or lose an effect: while no lease is overrun and
\* no confirmation lost, an event has been applied once if it is "done" and
\* not at all otherwise (effects and mark_done share a transaction; a dead
\* worker's event is requeued only because nothing of it was committed).
AppliedExactlyWhenDone ==
  Undisturbed => \A e \in Events : applied[e] = IF status[e] = "done" THEN 1 ELSE 0

\* Whatever goes wrong, "done" is never a lie: mark_done commits with the effect.
DoneWasApplied == \A e \in Events : status[e] = "done" => applied[e] > 0

\* An event goes "dead" only after max_retries attempts at it raised, however
\* many workers overlap on it: the unlocked read-modify-write of retry_count
\* can lose a failure but never invent one.
DeadOnlyAfterMaxFailures ==
  \A e \in Events : status[e] = "dead" => raised[e] >= MaxRetries

\* No event is stuck in a status the claim query would take but for its
\* retry_count, which nothing would ever settle; and only one worker at a time
\* has an event in hand.
NoLimbo ==
  Undisturbed => \A e \in Events :
    /\ status[e] \in {"pending", "failed"} => retry[e] < MaxRetries
    /\ \A c, d \in claims : c.event = e /\ d.event = e => c = d

Applications(t) == SumFunctionOnSet(applied, {e \in Events : TopicOf[e] = t})

\* Lost updates of the progress row only ever lose: a topic never counts more
\* answers than transactions have applied to it.
ProgressNeverOvercounts == \A t \in Topics : progress[t] <= Applications(t)

\* docs/09_data_standard.md:1412, "Accepted answer updates progress exactly
\* once": without an overrun lease or a lost confirmation, the answers that are
\* "done" are all counted.
AcceptedAnswerUpdatesProgress ==
  Undisturbed => \A t \in Topics :
    progress[t] >= Cardinality({e \in Events : TopicOf[e] = t /\ status[e] = "done"})

\* What the status of a row says of the answer's effects.
EffectOf(s) == CASE s = "absent" -> "none"
                 [] s = "done"   -> "applied"
                 [] s = "dead"   -> "dropped"
                 [] OTHER        -> "waiting"

Effects == INSTANCE AnswerEffects
             WITH Answers <- Events, times <- applied,
                  effect <- [e \in Events |-> EffectOf(status[e])]

\* As long as no lease is overrun and no confirmation lost, the outbox keeps
\* the promise of AnswerEffects through crashes, fallbacks and retries.
ImplementsAnswerEffects == Effects!Spec

\* Every accepted answer is settled for good, and no worker keeps at it.
EventuallySettled ==
  <>[](claims = {} /\ \A e \in Events : status[e] \in {"absent", "done", "dead"})
=============================================================================
