------------------------- MODULE AnswerPersistence --------------------------
(***************************************************************************)
(* Write-behind answers of one training session, the path production runs: *)
(* showing questions (services/training_question_flow.py), accepting a tap *)
(* against the cached question (services/training_answer_write_behind.py), *)
(* the Redis stream of answer events (runtime/answer_persistence_queue.py) *)
(* and the workers that write batches of them to PostgreSQL                *)
(* (workers/answer_persistence.py).                                        *)
(*                                                                         *)
(* The learner is ahead of the database: a tap is answered as soon as the  *)
(* event is on the stream, and the next question is chosen and numbered    *)
(* from the answers the database has at that time.                         *)
(*                                                                         *)
(* A worker's batch goes  held -> stored -> (ack, delete)  or, when the     *)
(* transaction raises,  held -> failed -> added -> (ack, delete)  message   *)
(* by message.  Metric keys and the left-over of a crash between XACK and  *)
(* XDEL are as in WebhookIngress and not repeated here.                    *)
(***************************************************************************)
EXTENDS Integers, FiniteSets, Sequences

CONSTANTS
  Items,         \* catalog items of the session's level and theme
  NoItem,        \* no pending question yet
  Total,         \* QuizSession.total_questions
  Workers,       \* consumers of the group
  BatchSize,     \* COUNT of XREADGROUP and XAUTOCLAIM
  MaxAttempts,   \* max_attempts
  MaxFaults      \* bound: crashes, claims from slow workers and expired keys

ASSUME ItemAssumption == NoItem \notin Items /\ IsFiniteSet(Items)
ASSUME SizeAssumption == Total \in Nat \ {0} /\ BatchSize \in Nat \ {0} /\ MaxAttempts \in Nat \ {0}
ASSUME BoundAssumption == MaxFaults \in Nat

VARIABLES
  status,          \* QuizSession.status
  answered,        \* QuizSession.answered_count
  stored,          \* items with a user_answers row of the session
  outboxed,        \* items whose answer has an answer.accepted outbox row
  itemStatus,      \* TrainingSessionItem.status
  current,         \* pending_question of the session: its item ...
  shownAt,         \* ... and its answered_count
  cached,          \* answered_count of the cached question, -1 without one
  keys,            \* items whose question and event dedupe keys are set
  log,             \* every entry ever XADDed to the answer stream
  lastDelivered, pending,          \* the consumer group
  dead,            \* items on the dead-letter stream
  tasks,           \* messages in the hands of a worker
  accepted,        \* history: taps answered with a result
  hasty,           \* history: a question was chosen while an answer was under way
  crashes,         \* worker deaths so far
  steals,          \* XAUTOCLAIMs that took a message from a live worker
  expiries         \* dedupe keys that reached their TTL

session == <<status, answered>>
tables  == <<session, stored, outboxed, itemStatus>>
shown   == <<current, shownAt, cached, hasty>>
queue   == <<log, lastDelivered, pending, dead>>
budgets == <<crashes, steals, expiries>>
vars    == <<tables, shown, keys, queue, tasks, accepted, budgets>>

Faults == crashes + steals + expiries

Event == [item : Items, count : 1 .. Total, attempt : 0 .. MaxAttempts - 1]
Task  == [worker : Workers, id : Nat, phase : {"held", "stored", "failed", "added"}]

Init ==
  /\ status = "active" /\ answered = 0
  /\ stored = {} /\ outboxed = {}
  /\ itemStatus = [i \in Items |-> "none"]
  /\ current = NoItem /\ shownAt = 0
  /\ cached = [i \in Items |-> -1]
  /\ keys = {}
  /\ log = <<>> /\ lastDelivered = 0 /\ pending = {} /\ dead = {}
  /\ tasks = {}
  /\ accepted = {} /\ hasty = FALSE
  /\ crashes = 0 /\ steals = 0 /\ expiries = 0

-----------------------------------------------------------------------------
(* The learner. *)

\* A question goes out: it is cached unless Redis refuses.
Send(item, count) == cached' \in {cached, [cached EXCEPT ![item] = count]}

\* get_or_create_current_question, at the start and on "next" (a button that
\* comes with the result of an accepted answer).  "seen" items and the number
\* of the question are read from user_answers.
ShowQuestion(i) ==
  /\ status = "active"
  /\ current = NoItem \/ current \in accepted
  /\ Cardinality(stored) < Total
  /\ i \notin stored
  /\ itemStatus' = [itemStatus EXCEPT ![i] = "shown"]
  /\ current' = i
  /\ shownAt' = Cardinality(stored)
  /\ Send(i, Cardinality(stored))
  /\ hasty' = (hasty \/ accepted \ stored # {})
  /\ UNCHANGED <<session, stored, outboxed, keys, queue, tasks, accepted, budgets>>

\* "Continue": the pending question is sent again as it was saved.
ResendQuestion ==
  /\ status = "active" /\ current # NoItem
  /\ Cardinality(stored) < Total
  /\ Send(current, shownAt)
  /\ UNCHANGED <<tables, current, shownAt, hasty, keys, queue, tasks, accepted, budgets>>

\* cancel_active_session, or a new session that replaces this one.
CancelSession ==
  /\ status = "active"
  /\ status' = "cancelled"
  /\ current' = NoItem
  /\ UNCHANGED <<answered, stored, outboxed, itemStatus, shownAt, cached, hasty, keys, queue,
                 tasks, accepted, budgets>>

\* Mutant of CountOf: one answer too many.
CountTooHigh(i) == IF cached[i] + 2 >= Total THEN Total ELSE cached[i] + 2

\* _answer_result and _answer_event_payload: the counters the event carries.
CountOf(i) == IF cached[i] + 1 >= Total THEN Total ELSE cached[i] + 1

\* enqueue_answer_event: the script sets the two dedupe keys and adds the event.
EnqueueAnswer(i) ==
  /\ i \notin keys
  /\ keys' = keys \cup {i}
  /\ log' = Append(log, [item |-> i, count |-> CountOf(i), attempt |-> 0])

\* A tap on an option: checked against the cached question only.
AcceptAnswer(i) ==
  /\ cached[i] >= 0
  /\ EnqueueAnswer(i)
  /\ accepted' = accepted \cup {i}
  /\ UNCHANGED <<tables, shown, lastDelivered, pending, dead, tasks, budgets>>

\* A second tap, or the same update again, is answered from the stored result
\* and changes nothing until the keys reach their TTL.
ExpireKeys(i) ==
  /\ i \in keys
  /\ Faults < MaxFaults
  /\ expiries' = expiries + 1
  /\ keys' = keys \ {i}
  /\ UNCHANGED <<tables, shown, queue, tasks, accepted, crashes, steals>>

ExpireCache(i) ==
  /\ cached[i] >= 0
  /\ cached' = [cached EXCEPT ![i] = -1]
  /\ UNCHANGED <<tables, current, shownAt, hasty, keys, queue, tasks, accepted, budgets>>

-----------------------------------------------------------------------------
(* process_once of a persistence worker. *)

TasksOf(w)    == {t \in tasks : t.worker = w}
InPhase(w, p) == {t \in TasksOf(w) : t.phase = p}
Held          == {t.id : t \in tasks}
IdsOf(S)      == {t.id : t \in S}
ItemsOf(ids)  == {log[i].item : i \in ids}

TakeOver(w, ids) ==
  tasks' = tasks \cup {[worker |-> w, id |-> i, phase |-> "held"] : i \in ids}

MoveAll(w, from, to) ==
  tasks' = (tasks \ InPhase(w, from)) \cup {[t EXCEPT !.phase = to] : t \in InPhase(w, from)}

Read(w) ==
  LET newest == IF lastDelivered + BatchSize <= Len(log)
                THEN lastDelivered + BatchSize ELSE Len(log)
      batch  == lastDelivered + 1 .. newest
  IN /\ TasksOf(w) = {}
     /\ lastDelivered < Len(log)
     /\ lastDelivered' = newest
     /\ pending' = pending \cup batch
     /\ TakeOver(w, batch)
     /\ UNCHANGED <<tables, shown, keys, log, dead, accepted, budgets>>

\* Mutant of ClaimOrphans: the messages of a dead worker stay where they are.
ClaimNothing(w) ==
  /\ TasksOf(w) = {}
  /\ \E ids \in SUBSET (pending \cap Held) :
       ids # {} /\ ids \cap Held = {} /\ TakeOver(w, ids)
  /\ UNCHANGED <<tables, shown, keys, queue, accepted, budgets>>

ClaimOrphans(w) ==
  /\ TasksOf(w) = {}
  /\ \E ids \in SUBSET (pending \ Held) :
       ids # {} /\ Cardinality(ids) <= BatchSize /\ TakeOver(w, ids)
  /\ UNCHANGED <<tables, shown, keys, queue, accepted, budgets>>

ClaimFromSlow(w) ==
  /\ TasksOf(w) = {}
  /\ Faults < MaxFaults
  /\ steals' = steals + 1
  /\ \E ids \in SUBSET pending :
       ids \cap Held # {} /\ Cardinality(ids) <= BatchSize /\ TakeOver(w, ids)
  /\ UNCHANGED <<tables, shown, keys, queue, accepted, crashes, expiries>>

\* latest_by_session: of the events of a batch, in stream order, the last one
\* overwrites the counters, and completes the session if it says so.
Latest(ids) == log[CHOOSE i \in ids : \A j \in ids : j <= i]

\* Mutant of UpdateSession: the counter is incremented instead.
AddToSession(ids) ==
  /\ answered' = answered + Cardinality(ids)
  /\ status' = IF Latest(ids).count = Total THEN "completed" ELSE status

UpdateSession(ids) ==
  /\ answered' = Latest(ids).count
  /\ status' = IF Latest(ids).count = Total THEN "completed" ELSE status

\* The rows of user_answers and of the outbox, ON CONFLICT DO NOTHING.
InsertAnswers(ids) == stored' = stored \cup ItemsOf(ids)
InsertOutbox(ids)  == outboxed' = outboxed \cup ItemsOf(ids)

MarkAnswered(ids) ==
  itemStatus' = [i \in Items |-> IF i \in ItemsOf(ids) THEN "answered" ELSE itemStatus[i]]

\* Mutant of Persist: outbox rows are written for the last event only.
PersistLastOutbox(w) ==
  LET ids == IdsOf(InPhase(w, "held"))
  IN /\ ids # {}
     /\ InsertAnswers(ids)
     /\ outboxed' = outboxed \cup {Latest(ids).item}
     /\ MarkAnswered(ids)
     /\ UpdateSession(ids)
     /\ MoveAll(w, "held", "stored")
     /\ UNCHANGED <<shown, keys, queue, accepted, budgets>>

\* persist_answer_events, one transaction: answers and outbox rows that exist
\* already are skipped, item statuses and the session counters overwritten.
Persist(w) ==
  LET ids == IdsOf(InPhase(w, "held"))
  IN /\ ids # {}
     /\ InsertAnswers(ids)
     /\ InsertOutbox(ids)
     /\ MarkAnswered(ids)
     /\ UpdateSession(ids)
     /\ MoveAll(w, "held", "stored")
     /\ UNCHANGED <<shown, keys, queue, accepted, budgets>>

\* Anything raised, or one payload did not parse: the whole batch is retried.
PersistFails(w) ==
  /\ InPhase(w, "held") # {}
  /\ MoveAll(w, "held", "failed")
  /\ UNCHANGED <<tables, shown, keys, queue, accepted, budgets>>

\* Mutant of MarkPersisted: also acknowledges a batch that failed.
MarkAnyway(w) ==
  LET done == InPhase(w, "stored") \cup InPhase(w, "failed")
  IN /\ done # {}
     /\ pending' = pending \ IdsOf(done)
     /\ tasks' = tasks \ done
     /\ UNCHANGED <<tables, shown, keys, log, lastDelivered, dead, accepted, budgets>>

\* mark_persisted: XACK and XDEL of the batch in one MULTI.
MarkPersisted(w) ==
  LET done == InPhase(w, "stored")
  IN /\ done # {}
     /\ pending' = pending \ IdsOf(done)
     /\ tasks' = tasks \ done
     /\ UNCHANGED <<tables, shown, keys, log, lastDelivered, dead, accepted, budgets>>

\* retry_or_dead: the copy first ...
Exhausted(t) == log[t.id].attempt + 1 >= MaxAttempts

Requeue(t) ==
  /\ t.phase = "failed"
  /\ tasks' = (tasks \ {t}) \cup {[t EXCEPT !.phase = "added"]}
  /\ IF Exhausted(t)
     THEN dead' = dead \cup {log[t.id].item} /\ UNCHANGED log
     ELSE log' = Append(log, [log[t.id] EXCEPT !.attempt = @ + 1]) /\ UNCHANGED dead
  /\ UNCHANGED <<tables, shown, keys, lastDelivered, pending, accepted, budgets>>

\* ... then XACK and XDEL of the original.
Release(t) ==
  /\ t.phase = "added"
  /\ tasks' = tasks \ {t}
  /\ pending' = pending \ {t.id}
  /\ UNCHANGED <<tables, shown, keys, log, lastDelivered, dead, accepted, budgets>>

\* A worker dies: a redis error of mark_persisted or retry_or_dead leaves
\* run_forever, or the host stops it.
Crash(w) ==
  /\ TasksOf(w) # {}
  /\ Faults < MaxFaults
  /\ crashes' = crashes + 1
  /\ tasks' = tasks \ TasksOf(w)
  /\ UNCHANGED <<tables, shown, keys, queue, accepted, steals, expiries>>

Next ==
  \/ \E i \in Items : \/ ShowQuestion(i) \/ AcceptAnswer(i)
                      \/ ExpireKeys(i) \/ ExpireCache(i)
  \/ ResendQuestion \/ CancelSession
  \/ \E w \in Workers : \/ Read(w) \/ ClaimOrphans(w) \/ ClaimFromSlow(w)
                        \/ Persist(w) \/ PersistFails(w) \/ MarkPersisted(w) \/ Crash(w)
  \/ \E t \in tasks : Requeue(t) \/ Release(t)

Spec == Init /\ [][Next]_vars

\* The workers poll without end and finish what they took; nothing obliges
\* the learner, a TTL, a crash or a claim from a slow worker.
Fairness ==
  \A w \in Workers :
    /\ WF_vars(ClaimOrphans(w) \/ Read(w))
    /\ WF_vars(Persist(w) \/ PersistFails(w))
    /\ WF_vars(MarkPersisted(w))
    /\ WF_vars(\E t \in TasksOf(w) : Requeue(t) \/ Release(t))

FairSpec == Spec /\ Fairness

-----------------------------------------------------------------------------
(* Properties. *)

\* Every variable holds what the code can put there; among others, counters
\* respect ck_quiz_sessions_answered_count_lte_total and no message is
\* redelivered more than max_attempts times by a retry.
TypeOK ==
  /\ status \in {"active", "completed", "cancelled"}
  /\ answered \in 0 .. Total
  /\ stored \subseteq Items /\ outboxed \subseteq Items
  /\ itemStatus \in [Items -> {"none", "shown", "answered"}]
  /\ current \in Items \cup {NoItem} /\ shownAt \in 0 .. Total - 1
  /\ cached \in [Items -> -1 .. Total - 1]
  /\ keys \subseteq Items
  /\ log \in Seq(Event)
  /\ lastDelivered \in 0 .. Len(log) /\ pending \subseteq 1 .. lastDelivered
  /\ dead \subseteq Items
  /\ tasks \subseteq Task /\ \A t \in tasks : t.id \in 1 .. lastDelivered
  /\ accepted \subseteq Items /\ hasty \in BOOLEAN
  /\ crashes \in Nat /\ steals \in Nat /\ expiries \in Nat /\ Faults <= MaxFaults

InPlay(i) == i > lastDelivered \/ i \in pending

\* An answer the learner got a result for is stored, on the dead-letter stream,
\* or still to be delivered - whatever crashes, fails or is claimed twice.
AcceptedNeverLost ==
  \A i \in accepted :
    i \in stored \/ i \in dead \/ \E k \in 1 .. Len(log) : log[k].item = i /\ InPlay(k)

\* The atomic group: a stored answer has its outbox row and its item is marked,
\* also when the message had been written before or two workers had it.
StoredWithEffects ==
  stored = outboxed /\ \A i \in Items : itemStatus[i] = "answered" => i \in stored

\* The counter never runs ahead of the rows: stale reads, redelivered and
\* reordered events only ever make it too small.
CountNeverAhead == answered <= Cardinality(stored)

\* A session is never completed before all its answers are stored, although
\* the completing event is computed from a cache and may overtake others.
CompletedOnlyWhenAllStored == status = "completed" => Cardinality(stored) >= Total

AtRest == tasks = {} /\ pending = {} /\ lastDelivered = Len(log)

\* docs/09_data_standard.md:242, answered_count is the "number of accepted
\* answers": once every event has been written and none was buried, the
\* session says so.
AnsweredCountIsAccepted ==
  AtRest /\ dead = {} => answered = Cardinality(accepted)

\* Every accepted answer is eventually stored or buried.
AcceptedEventuallyStored ==
  \A i \in Items : i \in accepted ~> (i \in stored \/ i \in dead)
=============================================================================
