# Deutsch-Trainer-Bot in TLA+

TLA+ modules of the parts of the bot in which an update, an answer, a payment or
a choice can get lost, repeated, mixed up or applied out of order; TLC
configurations that check them on small instances; and TLAPS proofs of the main
results for every value of the constants.

Paths below are relative to `src/`; the application is in `src/app/`.

- [The system](#the-system)
- [Modules](#modules)
- [Runs](#runs)
- [Fairness](#fairness)
- [Proofs](#proofs)
- [Findings](#findings)
- [Observations](#observations)
- [What is not modelled](#what-is-not-modelled)
- [Plan](#plan)
- [Running it](#running-it)

## The system

A learner talks to a Telegram bot. Telegram posts an *update* to the webhook;
the endpoint puts it on a Redis stream and answers; an ingress worker dispatches
it to the bot handlers. A handler chooses a level and a theme, starts a session,
shows a question of the local catalog, charges the daily limit, takes a payment.
A tap on an answer option is either stored in the handler's own transaction or
checked against a question cached in Redis and answered at once: then the answer
event goes on a second Redis stream and a persistence worker writes batches of
events to PostgreSQL together with rows of an outbox table. An outbox worker
turns those rows into progress, mistakes and analytics.

```
Telegram --webhook--> endpoint and batcher --> ingress stream --> ingress worker
                      (WebhookAck)             (WebhookIngress)        |
                                                                       v
  catalog (Catalog) --question--> handlers: level and theme  (LearnerProfile)
  quiz bank (QuizBankClient,                sessions, limits (TrainingSessions)
             QuizBankCache)                 payments         (Payments)
                                               |  tap
                        stored at once         |  cached question
                     (TrainingSessions) <------+------> answer stream + worker
                              |                         (AnswerPersistence)
                              v                                 |
                          outbox rows <-------------------------+
                              |
 progress, mistakes <-- outbox worker
 analytics              (Outbox: whether and how often; Learning: what)
```

When the webhook feeds the dispatcher directly on several replicas, an update
first passes a shared in-flight limit, a duplicate guard and a rate limit
(`UpdateAdmission`).

Every arrow is at-least-once: Telegram repeats an update until it sees a 200,
the two streams redeliver entries of dead and of slow workers, the outbox
requeues rows whose lease is over. What makes the effect of a tap happen once
are dedupe keys in Redis with a TTL, unique keys in PostgreSQL, and transactions
that commit an effect together with its mark. The database runs at READ
COMMITTED and almost nothing is read with a lock, so that the handlers decide on
what they read first and write absolute values. Most of the hazards are at the
places where two of these mechanisms meet.

### Inventory

| Component | State it keeps | Operations | Hard behaviour | What makes it correct |
|---|---|---|---|---|
| ASGI endpoint and batcher: `runtime/webhook_ingress_asgi.py` | in-memory buffer, flush task, futures | post, collect, flush, direct call, restart | one Redis call answers many requests; acknowledging before Redis has the update | a 200 means that the update is on the stream (or that early acknowledgement is configured) |
| Webhook ingress: `runtime/webhook_ingress_{handler,queue,lua}.py`, `workers/webhook_ingress.py` | dedupe keys, stream, consumer group, dead-letter stream | enqueue (Lua script), read, auto-claim, dispatch, mark processed, retry or dead-letter | at-least-once both ways; retry is four Redis commands; slow and dead workers; fast answers first, the rest in parallel slices | no acknowledged update is lost or given up early, each is handled once in the absence of faults, all are settled |
| Admission: `runtime/admission.py`, `runtime/backpressure.py`, `security/rate_limits.py`, `bot/middlewares/*.py` | leases, seen keys, hits, all in Redis | acquire, wait, renew, release, guard, limit | lost replies, failed releases, crashed replicas, leases that lapse | no more updates run than slots, slots come back, no window gets too many |
| Level and theme: `bot/handlers/{start,level,theme,menu}.py`, `bot/keyboards/*.py`, `repositories/users.py` | level and theme columns | /start, choose level, open group, choose theme, continue, new training | keyboards that outlive a change; two columns written by different presses | the saved pair can be played |
| Question flow and sessions: `services/training_session*.py`, `services/training_question_flow.py`, `bot/handlers/training*.py` | sessions, items shown, pending question, daily limit | start, replace, review, resume, next, cancel | unlocked lookups; positions and charges counted from unlocked reads | one active session, one charge per shown question, a learner can always go on |
| Synchronous answers: `services/training_answer_flow.py`, `..._fast_path.py`, `runtime/idempotency_locks.py` | Redis lock per question, answer rows, session counters | tap, lock, write, commit | lock released before the commit, TTL without renewal, absolute status writes | one row per question, counted once; an ended session stays ended |
| Answer persistence: `services/training_answer_write_behind.py`, `runtime/answer_persistence_queue.py`, `workers/answer_persistence.py` | question cache, dedupe keys, answer stream and group, answer rows, outbox rows, counters | accept a tap, read, claim, persist a batch, retry or bury | the learner is ahead of the database; redelivery after commit; whole-batch failure; later events overwrite counters | no accepted answer is lost, a stored answer has its outbox row, counters never run ahead |
| Outbox: `repositories/outbox.py`, `workers/outbox.py` | `outbox_events` (status, retry count, lease) | enqueue, requeue stale, claim, batch transaction, per-event transaction, mark failed | overlapping workers, leases that run out, unlocked read-modify-write, lost commit confirmation | effects exactly once; given up only after its attempts; every event is settled |
| Learning effects: `workers/outbox_batch*.py`, `services/{mistakes,progress,progress_model}.py` | mistakes, progress rows and scores | replay a batch, handle one event, recompute scores | two implementations of one state machine; identity map; days | a mistake is what the answers make it; scores rest on all mistakes |
| Payments: `services/payments.py`, `services/subscription_credits.py`, `bot/handlers/payments.py` | payments, subscriptions | invoice, pre-checkout, confirmation, credit, renewal, upgrade | repeated and overlapping confirmations; status read before the row lock | access only for a charge, credited once, periods add up |
| Catalog: `catalog/*.py` | catalog version, items, cached counts | import in four steps, seek, wrap around, count | imports beside each other and beside readers; no invalidation | one version; "no more questions" only when true; stale counts end |
| Quiz bank client: `quiz_bank/{client,transport,service}.py` | circuit breaker, local and Redis caches | call, retry, refuse, succeed, cache | retries of a call that charged; late results around the breaker; caches of caches | at most one item per call; values wear out |
| Configuration, health, logging, scripts | none of their own | - | - | - |

The lines where each hazard bites are listed in `PROJECT.json`.

## Modules

| Module | Models |
|---|---|
| `WebhookAck` | the endpoint and its batcher: what a reply to Telegram means |
| `WebhookIngress`, `UpdateDelivery` | the stream, the consumer group and the workers, Redis command by Redis command; what they promise |
| `UpdateAdmission` | in-flight limit, duplicate guard, rate limit on several replicas |
| `LearnerProfile` | saved level and theme, keyboards, the presses that write them |
| `TrainingSessions` | sessions, questions, daily limit and synchronous answers of one learner |
| `AnswerPersistence` | write-behind answers of one session |
| `Outbox`, `AnswerEffects` | the outbox and its workers; what they promise |
| `Learning` | mistakes, progress row and scores of one topic |
| `Payments` | invoices, charges, credits and the access they give |
| `Catalog` | imports, selection of a question, cached counts |
| `QuizBankClient`, `QuizBankCache` | retries and circuit breaker; two levels of caches |
| `MCWebhookIngress`, `MCOutbox`, `MCAnswerPersistence`, `MCPayments`, `MCLearning`, `MCServices` | instances for TLC: symmetry, constraints, functions of constants |
| `WebhookIngressProofs`, `OutboxProofs`, `AnswerPersistenceProofs`, `TrainingSessionsProofs`, `PaymentsProofs`, `LearnerProofs`, `ServicesProofs` | theorems |
| `Sums` | lemmas about sums over finite sets |

`MCServices` puts eight modules that share no state into one state graph: the
initial state chooses one (`focus`), and only that one moves. A state of it is a
state of one of the eight, so an invariant of a module is checked exactly as in
a run of its own. It saves eight configurations that differ in nothing else.
That this is sound is a theorem (`ServicesStandAlone`): a behaviour of all is a
behaviour of each.

Operators named as a mutant of another (a comment says of which) are the bugs
the properties were tried against; no specification uses them.

### WebhookIngress

*State.* `log` is everything ever added to the stream, in id order; an entry is
named by its position and carries `update` and `attempt`. `live` are the
positions not XDELed; `lastDelivered` and `pending` are the group's
last-delivered-id and pending entries list; `dead` is the dead-letter stream.
`dedupe` are the updates whose key is set and `acked` those Telegram got a 200
for. `tasks` are the entries in a worker's hands, each with a phase.
`dispatched` and `failures` are history variables: they count what handlers did.

| Action | Code |
|---|---|
| `Enqueue`, `Duplicate` | the Lua script (atomic) and the endpoint's reply, which may be lost |
| `ExpireDedupe` | the key's TTL |
| `Read`, `ClaimOrphans`, `ClaimFromSlow` | `process_once`: XAUTOCLAIM, else XREADGROUP `>` |
| `DispatchReturns`, `DispatchRaises` | the handler of one message, in the order `_process_messages` allows |
| `MarkProcessed` | `mark_processed_many`: XACK, XDEL and INCRBY in one MULTI |
| `AddRetry`/`AddDead`, `Ack`, `Delete`, `CountRetry` | the four commands of `retry_or_dead`, each its own action |
| `Crash` | a worker dies, or a Redis error leaves `run_forever`; its entries stay pending |

Abstractions: payloads, names and timestamps are left out. A claim takes any
pending entries up to the batch size; the code takes the oldest idle ones.
Whether an entry is idle long enough is a choice, split in two: an entry of a
dead worker can always be claimed (it will be idle in the end), one of a live
worker only within the bound `MaxSteals`. One worker's marking and dispatching
interleave in any order the event loop can produce.

`UpdateDelivery` is the promise: an update received is delivered until it is
handled or buried, buried only after its attempts raised, and no 200 is given for
an update of which nothing is left; undisturbed, a settled update never comes
back. It knows no streams, entries or workers. `WebhookIngress!ImplementsUpdateDelivery`
maps the entries in play to `waiting`, `acked` to `told`, the counters of
dispatches to `handled` and `raised`, and any crash, claim from a slow worker or
expired key to `disturbed`.

### Outbox and AnswerEffects

*State.* `status` and `retry` are the columns of `outbox_events`; `progress`
the answers counted in the row of a topic (`Progress.total_answered`). `claims`
are the events in a worker's hands, with a phase and the values its last
unlocked read returned (`seen`, `was`). `applied` and `raised` are history.

| Action | Code |
|---|---|
| `Enqueue` | the insert, in the transaction that saves the answer; a second insert of the key is ignored |
| `Claim` | `_claim_events`: `requeue_stale_processing` and `claim_batch` in one commit |
| `BatchCommits`, `BatchFails`, `BatchReplyLost` | `_try_process_batch`; on any exception, roll back and go event by event |
| `ReadProgress`, `SingleCommits`, `SingleFails`, `SingleReplyLost` | `_process_event` up to `Parallelism` at a time: unlocked read, absolute write |
| `LoadFailed`, `MarkFailed`, `MarkFailedRaises` | `mark_failed_by_id`: unlocked read, `retry_count + 1`, `dead` or `failed`; the exception that leaves `gather` |
| `Crash` | a worker dies |

Abstractions: the effect of an event is one answer counted for its topic; the
mistake and analytics rows commit in the same transaction, so they are applied
exactly when it is. Backoff and the order of the claim query are left out: a
claim may take any claimable events. A row of `progress` that does not exist is
0, and an insert that meets an existing row fails (unique constraint): that
transaction can only take `SingleFails`.

`AnswerEffects` is the promise: an answer is accepted, then applied once (a
batch takes effect at once) or dropped. `Outbox!ImplementsAnswerEffects` maps
`applied` to `times` and a row's status to what it says of the effect.

### AnswerPersistence

*State.* The session (`status`, `answered`), the items with a `user_answers` row
(`stored`) and with an outbox row (`outboxed`), `itemStatus`, the pending
question (`current`, `shownAt`), the cached questions with the number each
carries (`cached`), the dedupe keys, the answer stream and group, the dead
letters, and the messages in workers' hands. `accepted` (the learner saw a
result) and `hasty` (a question was chosen while an accepted answer was not yet
stored) are history.

| Action | Code |
|---|---|
| `ShowQuestion`, `ResendQuestion` | `get_or_create_current_question`, "continue"; a cache write may fail |
| `CancelSession` | cancelling, or a new session that replaces this one |
| `AcceptAnswer` | the tap, checked against the cached question only; enqueue with dedupe keys |
| `ExpireKeys`, `ExpireCache` | TTLs |
| `Read`, `ClaimOrphans`, `ClaimFromSlow` | as for the ingress |
| `Persist`, `PersistFails` | `persist_answer_events`: one transaction for the batch |
| `MarkPersisted` | XACK and XDEL of the batch |
| `Requeue`, `Release` | `retry_or_dead`, message by message: the copy, then XACK and XDEL |
| `Crash` | a worker dies |

Abstractions: an item stands for its question token (`question_token` is a hash
of the item id, so an item shown again has the same keys); the question key and
the event key, set and read together, are one key. The counters of correct and
wrong answers follow `answered`. `Release` merges XACK and XDEL: the left-over
entry between them is checked in `WebhookIngress`, whose queue code is the same.

### WebhookAck

*State.* `posts` are the requests with their reply; `buffer`, `flushing` and
`direct` the requests whose script call is to come or under way; `onStream` what
the stream has. `batched` and `early` are the two settings, chosen at the start.

`Post` is `_handle_webhook` up to its first await, `Collect` the batcher's loop,
`FlushLands`/`FlushFails` and `DirectLands`/`DirectFails` the one script call of a
batch and of a single request, `Restart` a shutdown or a crash. A call that
raises may have run. The deadline of a batch is a choice of its length.

### UpdateAdmission

*State.* For each arrival of an update its stage and its lease, the keys of the
duplicate guard with their end, the timestamps of the rate limiter, the clock.

`Arrive`, `TryAgain`, `TurnAway` acquire a slot or give up; `Renew` and `Release`
keep and return it; `Guard` and `LimitRate` are the two middlewares behind it;
`HandlerEnds`, `ReplicaCrash` end a handler; `ClockTick` lets a renewal interval
pass. `BackendDown` and the failing variants of each call cover Redis errors,
with the script run or not. The process-local limiter used without Redis has the
same rule and no failures and is left out.

### LearnerProfile

*State.* `learner` is the users row (level, theme); `round` the pair of the active
session, `missed` the pairs of open mistakes; `shown` the keyboards in the chat,
which stay for ever; `presses` the handlers under way with the row each has read.
`overlapped` and `levelAlone` are history.

`Start`, `SelectLevel`, `SelectTheme`, `StartNewRound`, `LoadSaved`/`OpenSaved`
begin a transaction; `CommitPress` writes the columns the press changed from what
it read (this is what the ORM does), starts a session where the code does, and
shows the next keyboard; `FailPress` rolls back. A theme has an id (in buttons)
and a slug (in questions and mistakes); both are saved by one handler or the
other.

### TrainingSessions

*State.* `sessionStatus`, `flow`, `counted`, `planned` and `pending` are columns
of a session; `shownRows`, `answerRows` the items shown and answered; `daily` the
daily row; `cached` the questions in Redis. `handlers` are transactions under way
with what they have read; `showsCrossed`, `startsCrossed`, `endsCrossed` and
`asksCrossed` are history: which kinds of handlers have overlapped, the last two
for each session.

| Action | Code |
|---|---|
| `OpenTheme`, `StartNew`, `StartReview`, `ContinueTraining`, `NextQuestion`, `OpenMenu` | the first read of a handler |
| `Show` | the question is chosen, numbered and charged; the session created or replaced |
| `Refused` | no question, no allowance, a unique key: rolled back |
| `Cancel` | `cancel_active_session` |
| `Tap`, `Write`, `Duplicate`, `Answered` | the answer: lock, insert, commit |
| `LockExpires`, `Abort` | the TTL of the lock, a handler that dies or raises |

What the catalog returns for a question is a choice here; how it is looked for
is `Catalog`. With write-behind answers a session behaves as in
`AnswerPersistence`; the two modules model the two settings of one switch.

### Learning

*State.* `accepted` are the answers in the order they were given, each with its
day; `mistakes` the rows of `mistakes`; `topic` the row of `progress` with the
scores and what they were computed from; `jobs` the transactions under way.
`settled` records per question in which order and on which day answers took
effect.

`BatchBegin`/`BatchFinish` are a batch that locks its mistakes, replays its
answers on them, raises the totals and computes the scores from the rows the
identity map returns; `EventBegin`/`EventFinish` one event on unlocked reads;
`Fail` a rollback. Scores are integers (hundredths of a percent); streaks,
recommendation texts and history rows are left out.

### Payments

*State.* `status` and `charge` of a payment; `sub`, `started`, `expires` of its
subscription; `work` the handlers under way. `charged` is what Telegram took.
`credits`, `into`, `raced`, `mixed` are history.

`CreateInvoice`, `BeginCheckout`/`CommitCheckout`, `Refuse` are invoice and
pre-checkout; `Deliver` is the arrival of a confirmation (again: at most
`MaxRepeats` times), `Lock` the flush that waits for the row, `CommitConfirm` the
credit (`StartSubscription`, renewal or upgrade), `Raise` and `Die` the two ways
to fail. The access page and the entitlement check read `Best`: the code's order
leaves ties to the database, and the model takes any.

### Catalog

*State.* `catalogs` and `catalogItems` are committed rows; `imports` the scripts
under way with what they loaded and saw; `searches` and `countReaders` handlers
between two queries; `cachedCount` the count in Redis.

An import goes `Load`, `CheckVersion`, `Upsert`, `Flush`, `Commit`, each seeing
what was committed then; `SeekFails` and `WrapAround` are the two queries of a
search; `CountItems` and `CacheCount` the two halves of a cached count. An item's
content is its checksum.

### QuizBankClient and QuizBankCache

`QuizBankClient`: `bankCalls` are calls with their current request, attempt and
how many items the bank has served them; `failures` and `openTicks` the circuit
breaker. `QuizBankCache`: the age and remaining TTL of the themes and counts each
process and Redis remember; `CountsFromThemes` is the fallback that builds one
cached value from another. The client is run by smoke scripts and tests and by
the service; the bot's handlers use the local catalog.

## Runs

All bounds are constants of the modules; the budgets (`MaxCrashes`, `MaxSteals`,
`MaxExpiries`, `MaxOverruns`, `MaxLost`, `MaxFaults`, `MaxAborts`,
`MaxRedisFailures`, `MaxRestarts`, `MaxBackendFaults`) cap environment actions
only, in the guard of those actions.

| Run | Question | Bounds | Distinct states |
|---|---|---|---|
| `ingress_faults` | is an acknowledged update ever lost, buried early, handled twice or acknowledged before its outcome, does the queue keep the promise of `UpdateDelivery`? | 2 updates (1 fast answer), 2 workers, batch 2, parallelism 2, 2 attempts, one fault (crash, claim from a slow worker or expired key) | 1.5 M |
| `ingress_live` | is every acknowledged update settled in the end? | 1 update, 2 workers, 1 crash and 1 claim from a slow worker | 75 k |
| `outbox_faults` | are effects applied exactly when a row is done, is an event dead only after its failures, with every fault? | 2 events of one topic, 2 workers, parallelism 2, 2 retries, 1 crash, 2 overruns, 1 lost confirmation | 1.7 M |
| `outbox_single` | does the outbox keep the promise of `AnswerEffects`, is every event settled? | 3 events, 1 worker, batch 2, 1 crash | 16 k |
| `outbox_lost_update` | *violated*: does every accepted answer update progress? | 3 events, 1 worker, parallelism 2, no fault | 158 to the violation |
| `answer_persistence_faults` | is an accepted answer lost, stored without its outbox row, or the session completed too early? | 2 items, 2 questions, 2 workers, batch 2, 2 attempts, 1 fault of any kind | 1.4 M |
| `answer_persistence_live` | is every accepted answer stored or buried? | 2 items, 1 worker, 1 fault | 245 k |
| `answer_persistence_stale` | *violated*: is `answered_count` the number of accepted answers? | 2 items, 1 worker, no fault | 230 to the violation |
| `payments` | does access rest on charges, is each payment credited once, do periods add up? | 3 invoices of 2 plans, 4 checkouts, 1 repeated delivery, 1 fault, 1 day | 1.5 M |
| `payments_twice` | *violated*: is a payment credited at most once? | 2 invoices of one plan, 1 repeated delivery, no fault | 593 to the violation |
| `learning_accuracy` | *violated*: is the stored accuracy correct over total? | 2 quizzes, 3 answers, one job at a time | 6.9 k to the violation |
| `services` | eight modules, each on its own small instance | see below | 1.2 M |

The parts of `services`:

| Part | Bounds | States |
|---|---|---|
| sessions | 2 items, 2 sessions of 2 questions, limit 2, 2 handlers, one setback (below) | 608 k |
| learning | 2 quizzes, 3 answers, 2 jobs at once, 2 days, resolved after 2 repeats on 2 days | 167 k |
| admission | 3 arrivals of 2 updates, 1 slot, 1 hit per window of 2, 1 Redis fault or crash, clock to 3 | 156 k |
| catalog | 2 items, 2 versions, 2 checksums of which one may be shown, 2 imports, 1 reader (a search or a count) | 139 k |
| profile | 2 levels with a theme each, 2 presses at once, 1 open mistake | 112 k |
| ack | 3 updates (1 malformed), 4 requests, batches of 2, both settings, 1 failed call, 1 restart | 26 k |
| bankCache | 2 processes, TTL 3 | 8 k |
| bank | 2 calls, 1 retry, threshold 2 | 0.7 k |

Why these bounds are enough to be interesting. Two updates, events or items are
the least with a batch in which one succeeds and one fails, with an event that
overtakes another, and with two concurrent transactions on one row; two workers
or handlers the least with one that acts on what the other has changed; two
attempts the least with both a retry and a dead letter, and the value at which an
off-by-one in either direction shows. Three invoices are the least with a first
payment, a renewal and an upgrade; three answers the least with a mistake and two
successes on two days; three arrivals the least with a slot taken, freed and
taken again; two levels with a theme each the least in which a pair can be mixed.
A clock of three has a window that starts between two hits. One crash per run is
enough to stop between any two commands; one claim or overrun to have an entry in
two hands. Duplicate delivery by Telegram needs no budget in `WebhookIngress`.

Three constraints keep runs small. `OneFault` (`ingress_faults`) allows one fault
of any kind; crash and claim together are in `ingress_live`, and the proofs cover
every number of faults. `OneSetback` (`services`) allows one expired answer lock,
one aborted handler, or one session that two handlers ask for a question at once;
the proofs cover any number of each. `OneMistake` (`services`) keeps the open
mistakes of the profile part to one theme. Workers, and items where no run tells
them apart, are symmetric; runs with liveness use no symmetry.

Deadlock is not checked: with the budgets spent and every entry settled, the
system may stop; Telegram and learners owe it nothing.

What the properties say:

- `OkMeansOnStream`: a 200 is never given for a neighbour's result or before the
  update is on the stream, unless the setting for early replies is on and a call
  failed or the process ended.
- `NoAckedUpdateLost`, `AckOnlyAfterOutcome`: the order of the commands of
  `retry_or_dead` (copy first) and of mark-after-dispatch makes a 200 safe.
- `ImplementsUpdateDelivery`: whatever commands, batches, crashes and claims do to
  the entries of an update, seen from outside it waits, is handled, raises or is
  buried; it stops waiting only when it is settled, and comes back after that only
  because of a fault. So without a fault an update is handled once, however often
  Telegram repeats it; `EffectivelyOnce` says this of the stream, and is proved, but
  needs no check of its own.
- `BuriedOnlyAfterMaxFailures`, `DeadOnlyAfterMaxFailures`: duplication, claims
  and unlocked counters can delay giving up but never hasten it.
- `SlotsHoldAndComeBack`, `WindowNeverExceeded`: no more updates run than slots
  while leases are held, a slot is free again one TTL after its update has gone,
  and no span of a window has more hits than the rule allows.
- `SavedPairIsPlayable`: the saved level has the saved theme, unless the level was
  changed after it or two presses overlapped.
- `ChargedPerShownQuestion`, `OneActiveSession`, `LearnerCanGoOn`,
  `AnswersCountedOnce`, `EndedStaysEnded`: what unlocked handlers can and cannot
  do to each other. Where two of them do spoil something, the property names which
  kinds must not overlap; otherwise it holds without condition. `LearnerCanGoOn`
  has two parts: an active session always has a pending question that was shown,
  so that its buttons work or, once it is answered, "next" does; and that question
  is the last one shown, unless two handlers asked for a question of the session at
  once ("next" pressed twice, or a review restarted).
- `AcceptedNeverLost`, `StoredWithEffects`, `CountNeverAhead`,
  `CompletedOnlyWhenAllStored`: write-behind answers survive with their outbox
  rows, and the session counters, although computed from a cache, are only ever
  too small.
- `AppliedExactlyWhenDone`, `ImplementsAnswerEffects`, `ProgressNeverOvercounts`:
  what the shared transaction of effect and mark buys, and what it buys only while
  leases hold.
- `MistakeMatchesAnswers`, `ResolvedOverDays`, `ScoresSeeEveryMistake`: both
  implementations of the mistake state machine give what a plain definition over
  the answers in their order gives; scores rest on all unresolved mistakes.
- `AccessImpliesPaid`, `CreditedOnceUnlessRaced`, `AccessAddsUp`,
  `AccessNeverTakenAway`: a learner has what was paid for, and no handler takes it
  away.
- `OneCatalogVersion`, `NoMoreOnlyWhenNoneLeft`, `WrongCountForOneTtl`: what
  imports can do to readers and to each other.
- `ServedAtMostOnce`, `ValuesWearOut`: a call takes at most one item out of the
  bank; a theme list lives at most two TTLs, an availability four.

## Fairness

Liveness is checked under weak fairness of what the code's own loops do:
`run_forever` polls for ever, so a worker with nothing in hand that can claim or
read does; the event loop runs every coroutine, so a message in hand is
dispatched (with either outcome) and a retry begun is ended; a batch begun
commits or fails. There is no fairness on any single outcome: a handler may
raise every time, a transaction fail every time. What then guarantees an end is
the attempt counter. Nothing is assumed of Telegram, learners, TTLs, crashes,
claims from slow workers, overrun leases or lost confirmations; those are
bounded by budgets, which says that faults stop at some point, not when. In
`Outbox`, fairness of a claim is restricted to claims that overrun nobody's
lease. The services of `MCServices` are checked for safety only: no loop of the
code promises that a learner, a script or Telegram takes the next step.

## Proofs

Checked with `tlapm`, for any sets of updates, workers, events, items and calls
and any sizes and budgets that satisfy the assumptions declared with the
constants.

**`WebhookIngressProofs`**

| Theorem | Says |
|---|---|
| `TypeCorrect` | `Spec => []TypeOK` |
| `AckedNeverLost` | `Spec => []NoAckedUpdateLost` |
| `BuriedHonestly` | `Spec => []BuriedOnlyAfterMaxFailures` |
| `AckedAfterOutcome` | `Spec => AckOnlyAfterOutcome` |
| `HandledOnce` | `Spec => []EffectivelyOnce` |
| `IngressImplementsDelivery` | `Spec => ImplementsUpdateDelivery` |

`TypeOK` alone is not inductive: it says that a pending entry is on the stream, so
`TypeInv` adds `DeliveryInv` (pending entries were delivered, undelivered entries
are on the stream, an entry a worker has acknowledged is not pending).
`NoAckedUpdateLost` speaks of acknowledged updates, but `Duplicate` acknowledges an
update because its key is set, so `CoverInv` states the same for `acked \cup
dedupe`; and since XACK takes an entry out of play, the copy that stands for it
must be covered in turn: by a copy of a *higher attempt* that is in play, or by a
settled update, which is why the argument cannot be circular.
`BuriedOnlyAfterMaxFailures` needs the bookkeeping of attempts: in `FailureInv` an
entry's attempt is at most the number of failures of its update, and below it when
a task has just failed on the entry. `AckOnlyAfterOutcome` needs `OutcomeInv`: a task about
to acknowledge has left a copy with the next attempt, or a dead letter.
`EffectivelyOnce` says nothing of what is still under way; `Once` does, for the
behaviours without a fault: an entry is in one hand only, and a pending one in
somebody's, so that there is nothing to claim; the dedupe key stands for every
entry of the update; an update has at most one entry that may still be dispatched
or retried, and none once it is settled.

The refinement of `UpdateDelivery` holds for any number of faults. Three things are
not in the mapping and come from the invariants. An update may stop waiting only when
it is settled: `EntriesInv` says that every entry ever written is covered, so an update
whose last entry in play is acknowledged was handled or buried (`OutcomeInv` says so
of the message about to be acknowledged, `CoverInv` of the copies). A repetition by
Telegram is answered from the dedupe key, and `Repeat` wants the update to be waiting
or settled: again `CoverInv`. And while nothing is disturbed a dispatch must be of an
update that waits and is not settled: that is `Once`. The mapping of the
steps: `Enqueue` is `Receive`, a duplicate `Repeat`; a dispatch is `Handle` or `Raise`;
marking a batch, `XACK` and `XDEL` are `Leave` of the updates that stop waiting,
possibly none; `XADD` of a copy stutters or, after a fault, is `Receive`; a dead
letter is `Bury`; reading and claiming orphans stutter; an expired key, a claim from
a slow worker and a crash are `Disturb`.

**`AnswerPersistenceProofs`**

| Theorem | Says |
|---|---|
| `TypeCorrect` | `Spec => []TypeOK` |
| `AcceptedSafe` | `Spec => []AcceptedNeverLost` |
| `EffectsWithAnswers` | `Spec => []StoredWithEffects` |
| `CountTrails` | `Spec => []CountNeverAhead` |
| `CompletedHonestly` | `Spec => []CompletedOnlyWhenAllStored` |

`AcceptedSafe` has the shape of `AckedNeverLost`: `CoverInv` says that every
accepted answer is stored, buried or carried by an event in play, and that a
message about to be acknowledged has its answer stored, or buried or copied with a
higher attempt. `CoverGrows` names what all steps have in common (tables and log
only grow, an event is given up only for something that covers its answer), so
each action has only that to show. The counters need another idea. The number an
event carries was read from the rows long before the event is written, and other
events are written in between, in any order and possibly twice. What survives all
of this is that the number was taken while its own item was not among the rows:
`CountInv` says that with the item there are at least that many rows, for the
pending question, for every cached question and for every event of the log.
Persisting an event adds its item, and so the counter it writes is covered,
however stale. The last message of a batch is a `CHOOSE`; `LargestExists` shows that
there is one, from the well-foundedness of the natural numbers.

**`OutboxProofs`**

| Theorem | Says |
|---|---|
| `TypeCorrect` | `Spec => []TypeOK` |
| `DoneIsTrue` | `Spec => []DoneWasApplied` |
| `EffectsExactlyOnce` | `Spec => []AppliedExactlyWhenDone` |
| `NeverInLimbo` | `Spec => []NoLimbo` |
| `DeadHonestly` | `Spec => []DeadOnlyAfterMaxFailures` |
| `TotalsNeverInvented` | `Spec => []ProgressNeverOvercounts` |
| `OutboxImplementsAnswerEffects` | with `MaxOverruns = 0` and `MaxLost = 0`, `Spec => ImplementsAnswerEffects` |

Exactly-once rests on exclusive ownership: an event is applied twice only if two
claims of it overlap, and claims overlap only if an event in hand is not
`processing`. So `ExclusiveInv` carries, while no lease was overrun and no
confirmation lost: applied once if and only if done; one claim per event; a
claimed event is `processing`; a row that may be claimed has retries left; and
the values a marking claim has read are still those of the row. Each of the five
needs the others. `DeadOnlyAfterMaxFailures` holds without any such condition,
but for overlapping workers the retry counter alone says too little: `FailureInv`
counts the failures not yet recorded as well. For each event, its retry count
plus the claims that failed and have not yet marked it is at most the number of
times it raised; and so is the count each such claim has read. A lost update
lowers the left side only. The refinement proof maps each transaction that
applies events to `Apply`, a row that goes dead to `Drop`, and everything else
to a stutter, from `ExclusiveInv`. `DoneWasApplied` and `NoLimbo` are stated for the
proofs and not checked by a run of their own. `ProgressNeverOvercounts` compares
a counter with a sum over events. What keeps it is `SeenInv`: the total a
coroutine has read, and will write back plus one, is at most what was applied when
it read, and sums only grow. That a `SumFunctionOnSet` grows by what one of its
terms grows is proved by counting: the sum over a finite set is the cardinality of
a set that has as many elements per member as the member's value (`SumCounts` in
`Sums`).

**`PaymentsProofs`**

| Theorem | Says |
|---|---|
| `PaymentTypeCorrect` | `PaymentSpec => []PaymentTypeOK` |
| `AccessIsPaid` | `PaymentSpec => []AccessImpliesPaid` |
| `CreditedOnce` | `PaymentSpec => []CreditedOnceUnlessRaced` |
| `AccessIsTheSum` | `PaymentSpec => []AccessAddsUp` |
| `AccessStays` | `PaymentSpec /\ []ShortTransactions => AccessNeverTakenAway` |

`Confirmed` is about handlers: Telegram charges only what it asked about, a handler
that confirms has a checkout that was charged, and only such handlers lock a
payment. `PaidFor` is about the rows: a credited payment carries a charge made for
its invoice. So a subscription that gives access leads back to a charge. `CreditedFirst` is the invariant behind `CreditedOnce`: while
handlers of a payment have not overlapped there is one of them at a time, it
loaded the payment before anything was credited, and a credited payment keeps
that status. `Copies` (a second handler of a checkout is a repeated delivery)
bounds the numbers that tell such handlers apart, so that a free one exists.
Access is decided long before it is written: a handler chooses what to renew or to
close, waits, and commits. `Unraced` says what a decision is worth whatever else
was committed meanwhile (a new period starts no earlier than the decision and is
as long as was paid for), `InTurn` what it is worth while confirmations come one at
a time: the subscription it found is still the only one that gives access. That is
enough for both theorems. The second needs `ShortTransactions`, a hypothesis on
behaviours: the period a locked handler is about to write has not ended when it
commits. A transaction takes milliseconds, a plan lasts days; without it an upgrade
could close a subscription that gives access for one that no longer does.

**`LearnerProofs`** (`LearnerProfile`, `Learning`)

| Theorem | Says |
|---|---|
| `ProfileTypeCorrect` | `ProfileSpec => []ProfileTypeOK` |
| `SavedPairStaysPlayable` | `ProfileSpec => []SavedPairIsPlayable` |
| `ScoresRestOnMistakes` | `LearningSpec => []ScoresSeeEveryMistake` |
| `MistakesAddUp` | `LearningSpec => []MistakeMatchesAnswers` |
| `ResolutionTakesDays` | with `RequiredDays <= 2`, `LearningSpec => []ResolvedOverDays` |
| `LearningTypeCorrect` | `LearningSpec => []LearningTypeOK` |

A press writes a pair it read or built before, so the invariant is about what
presses under way hold. `LevelStays`: a level once chosen is never taken back.
`Alone`: while no two presses have overlapped, the one under way has read the row
as it still is, and "continue" has found no active session. `PressOK` says what a
press of each kind carries, for a theme button a theme its level offers.

`MistakesAddUp` compares what two implementations leave in a row, answer by answer
or a batch at a time, with `MistakeOf`, which looks at the whole history of settled
answers and knows neither rows nor order of transactions. Three lemmas carry it.
`AccountNext`: one answer more changes `MistakeOf` as `AfterAnswer` changes the row;
its hard case is a success that counts (`AccountSuccess`), where the positions used,
the days among them and the verdict change together. `ReplayAccounts`: a history
continued by a batch in the order it was given accounts for what `Replay` makes of
the row. And the invariant `AccountInv`: the row a batch is about to write is the
replay of its answers on the row as it is *now*, although both the row's history
and other rows move on meanwhile; no two batches hold the same row (`Holds`); a row
a batch held to be untouched has only answers that change nothing. An answer settled
by an event in between does not upset this, because an event that would change a
held row waits.

`ResolutionTakesDays` needs that a row is backed by days on which answers were given
(`RowBacked`): its last success is one of them, and where it counts two days, two of
them differ. More than that cannot be said of the code, which compares a success with
the day of the last one only: with three required days the property is false, and
TLC shows it (see Observations), hence the hypothesis. The code requires two
(`app/repositories/mistakes.py:15`). `ScoresRestOnMistakes` is inductive once the
rows are functions; its work is that a row an answer left alone is the same row, and
that no rows give no signals.

`LearningTypeCorrect` has the arithmetic of `progress_model.py` in it: every score stays
between nothing and everything. Accuracy and coverage are rounded quotients
(`QuotientInRange`); stability is a mean of item scores, which are tokens counted
(`SumBounded`); weakness is a weighted sum of shares brought to one denominator,
nonlinear, and proved from the products of its factors (`ProductFacts`). The other half
is what single events do: one writes the columns it changed into rows that other
transactions may have changed since it read them. Column by column the result has its
type, but a weakness is not in range unless every unresolved mistake counts at least one
answer, so `TypeInv` says of every row, stored or held (`WholeRow`), that it tells of no
mistake or counts one, and that a mistake an event has read as one is one still. That
`correct + wrong <= answered` survives such a merge is not a fact of the code but of the
table: its check constraint refuses the row, and the guard of `EventFinish` with it.
That an answer is settled once needs `TurnsInv`, the turns of a history being different
answers to its own question: with it there are as many settled answers as turns
(`SettledCounted`).

**`TrainingSessionsProofs`**

| Theorem | Says |
|---|---|
| `SessionTypeCorrect` | `SessionSpec => []SessionTypeOK` |
| `AnswersCounted` | `SessionSpec => []AnswersCountedOnce` |
| `ShownAreCharged` | `SessionSpec => []ChargedPerShownQuestion` |
| `ActiveAlone` | `SessionSpec => []OneActiveSession` |
| `ActiveCanGoOn` | `SessionSpec => []LearnerCanGoOn` |
| `EndedForGood` | `SessionSpec => EndedStaysEnded` |

A handler writes absolute values computed from what it read before others
committed, so `SessionInv` is about what handlers under way may still believe. A
tap carries the counter it read (`HandlersOK`, `TapOK`): that counter is out of
date only if the question tapped was answered meanwhile, and then the unique key
refuses the insert. This in turn holds because of a fact about the rows: the
questions of a session are numbered without a gap (`Numbered`), and only the last
one shown may be open (`Counts`), so two answers of one session are never under
way for different questions. `Charges`: while questions of one session only are
being shown, the charge a handler has read is the present one, or the position it
will try is taken, and the unique key rolls it back. `StartsAlone`, `AsksAlone` and
`EndsAlone` say what a handler that starts a session, asks for a question or may
end a session knows while no other of its kind has overlapped it. `RoomLeft` says
that every handler that inserts a session finds a number for it, which the bound
on sessions makes necessary. The whole of it was checked with TLC, on four
questions and three handlers, before it was proved.

**`ServicesProofs`** (`WebhookAck`, `UpdateAdmission`, `QuizBankClient`, `QuizBankCache`,
`Catalog`, `MCServices`)

| Theorem | Says |
|---|---|
| `AckTypeCorrect` | `AckSpec => []AckTypeOK` |
| `OkIsOnStream` | `AckSpec => []OkMeansOnStream` |
| `AdmissionTypeCorrect` | `AdmissionSpec => []AdmissionTypeOK` |
| `SlotsComeBack` | `AdmissionSpec => []SlotsHoldAndComeBack` |
| `WindowHolds` | `AdmissionSpec => []WindowNeverExceeded` |
| `BankTypeCorrect` | `BankSpec => []BankTypeOK` |
| `BankServesOnce` | `BankSpec => []ServedAtMostOnce` |
| `CacheTypeCorrect` | `CacheSpec => []CacheTypeOK` |
| `CachesWearOut` | `CacheSpec => []ValuesWearOut` |
| `CatalogTypeCorrect` | `CatalogSpec => []CatalogTypeOK` |
| `CatalogKeepsVersion` | `CatalogSpec => []OneCatalogVersion` |
| `SearchSeesEverything` | `CatalogSpec => []NoMoreOnlyWhenNoneLeft` |
| `WrongCountsExpire` | `CatalogSpec => []WrongCountForOneTtl` |
| `ServicesStandAlone` | `ServicesSpec` implies the specification of each of the eight services |
| `ServicesTypeCorrect` | `ServicesSpec => []ServicesTypeOK` |

Queue and batch are sequences of requests, and a flush answers several of them at
once. The lemma `RequestsAnswered` proves what is common to the steps that answer requests:
what they answer 200 is on the stream, and what leaves memory otherwise does so
because a call failed or the process ended. `OkIsWellFormed` keeps malformed
payloads out of the argument. For the slots the invariant counts leases instead of
handlers (`SlotsInv`): every active handler has a lease or was overrun, there are
never more leases than slots, and only active handlers renew, so that a lease left
behind ends in its time. For the window, `WindowInv` says that the bucket still
holds every accepted hit of the present window; a hit that would be one too many
for some span is one too many for the span that ends with it (`AcceptFits`), and
that one the script has counted.

`ServedAtMostOnce` alone is not inductive: nothing in it says that a call whose
request may still be sent again has been served nothing. That is `Unserved`
(`request # "done" => served = 0`), and `BankInv` joins it to the types. It holds
because a question request is never retried: after any outcome in which the bank
may have served, the call's request is over. No bound on calls, retries or the
threshold is needed. For the caches the invariant is `Freshness`: the age of a
cached value plus the time it has left is at most one TTL per cache it has passed,
up to the two of a theme list and the four of an availability.

Of the catalog, `VersionInv` says what importers under way know: unless two first
imports crossed, they all carry one version, and one that has passed the check still
passes it. One row per item rests on `RowsKeyed`: of two imports that have flushed
the same new item the unique key lets one wait and fail. `SearchInv` is what a search
knows between its two queries, `CountInv` what the time left to a cached count and the
time since the last commit add up to.

`ServicesStandAlone` is about the model checked by `services`: each step of it is a
step of one service and a stutter of the seven others, so that a behaviour of all is
one of each. `ServicesTypeCorrect` then is the eight type theorems together, those of
sessions, learning and profile from their own modules.

**Folds.** Sums over events and the replay of a batch are folds over sets, and the
library's induction theorems take an operator as a parameter, which the provers
cannot instantiate. The proofs use the well-foundedness of strict inclusion on the
subsets of a finite set instead (`FS_StrictSubsetOrderingWellFounded` and `WFMin`): of
the subsets on which a claim about a fold fails there is a smallest, and it has
either no element, or one whose removal makes a smaller one. In the same way there
is a largest element, a solution of the recursion (`ReplayExists`) and only one
(`ReplayUnique`).

**Model-checked only.** Every liveness property (fairness and ENABLED are out of
the prover's reach here): `AckedEventuallySettled`, `EventuallySettled` and
`AcceptedEventuallyStored`. Every invariant and every action property of a passing
run is the subject of a theorem. The properties of the four violation runs are refuted, not proved.

## Findings

1. **Concurrent fallback loses progress** (`outbox_lost_update`). When a batch
   fails, up to `max_parallelism` transactions read the same progress row without
   a lock and write absolute totals (`app/workers/outbox.py:192-198`,
   `app/repositories/progress.py:17-32` and `:116`). Two answers of one topic are
   `done`, one is counted. `docs/09_data_standard.md:1412` says "Accepted answer
   updates progress exactly once." One worker and no fault are enough.
2. **`answered_count` misses answers of a fast learner**
   (`answer_persistence_stale`). The next question is numbered from the stored
   answers (`app/services/training_question_flow.py:83`), the number comes back
   with the tap, and the worker overwrites the session's counter with it
   (`app/workers/answer_persistence.py:282`). If the learner asks for the next
   question before the previous answer is written, two answers carry the same
   number. `docs/09_data_standard.md:242` defines the column as the number of
   accepted answers.
3. **A renewal confirmed twice is credited twice** (`payments_twice`).
   `confirm_payment` decides on the status it loaded before it waited for the row
   (`app/services/payments.py:204`); for a renewal no subscription carries the
   payment's id, and the period is added again (`app/services/payments.py:246`,
   `app/services/subscription_credits.py:123`). `docs/09_data_standard.md:1416`
   says "Payment is credited at most once."
4. **The stored accuracy lags one batch behind its totals** (`learning_accuracy`).
   A batch raises the totals with a Core upsert and loads the rows again, but the
   session's identity map returns the objects with the old totals
   (`app/workers/outbox_batch.py:309`). `docs/05_progress_model.md:1141` defines
   accuracy as correct / total.

## Observations

Seen while modelling; no run is devoted to them.

*Ingress.*

- A message whose handling kills the process never increases its attempt number:
  it is claimed again for ever. In the model crashes are bounded.
- An entry left by a crash between XACK and XDEL counts in the depth and lag of
  the readiness probe for good; so does one dead letter or one dead outbox event
  (`app/main.py:215-217`).
- With early replies (`webhook_ingress_ack_before_redis`) an answered update is
  lost when its flush fails or the process ends; `OkMeansOnStream` says so.
- Admission: an update whose duplicate key was set but whose reply was lost, whose
  handler failed, or that was rate-limited is ignored when it is delivered again
  within the TTL. A holder whose lease was purged runs outside the limit. A failed
  acquire whose script ran leaves a lease until its TTL.

*Choosing and training.*

- A change of level keeps the theme, so "continue" opens the old theme under the
  new level and says that no question is left until a theme is chosen.
- A learner with an active session who picks another level or theme and then
  presses "Neue Runde" gets a session of the *old* session's pair, and the pair
  just saved is overwritten with it (`app/bot/handlers/training.py:339-346`).
  `tests/test_training_handler_edges.py:108` shows it as intended.
- "Neue Runde" of a review session saves the slug of its theme, which
  `is_known_theme_id` rejects, so that "continue" shows the theme groups.
- "Continue" loads the pair in an earlier transaction and can undo a level chosen
  meanwhile; a level press beside a theme press can save a mixed pair. Two /start
  at once: the second insert fails, and that press asks for a level again.
- Review sessions under the local catalog ignore `mistake_item_ids`
  (`app/services/training_question_flow.py:112-125`; `docs/03_use_cases.md:809`).
  Restarting a review with an unanswered pending question runs into the unique key
  of session and position. When all mistakes are resolved meanwhile,
  `_review_item_ids` marks the session failed and raises, the handler rolls back,
  and the session stays active.
- "Next" is pressed twice; one handler shows a question, the learner answers it and
  presses "next" once more, and only then the other handler goes on: it may pick the
  question just answered, finds it shown, and makes it pending while the newer one
  is open (`app/services/training_question_flow.py:221-304`). Restarting a review
  beside an answer does the same. Pressing "next" again leads to the newer question
  or fails on the key of session and position.
- "Next" that overlaps a cancellation charges a question of a cancelled session;
  a cancellation and a completing answer overwrite each other's status.
- Two first showings of one item collide in `question_references` (read, then
  insert), and one handler is rolled back.
- In the write-behind path a tap is not checked against the status of its session;
  the answer is accepted after a cancellation and can turn `cancelled` into
  `completed`. A redelivered older event can lower `answered_count` again, and in
  a batch a completing event can be shadowed by a later one
  (`app/workers/answer_persistence.py:259`). Both only make the counter too small.
- `mark_completed` in the question flow is rolled back with the exception raised
  right after it (`app/services/training_question_flow.py:83-88`).

*Effects.*

- With an overrun lease two outbox workers apply the same event; `mark_done` and
  `mark_failed` do not look at `locked_by`. A commit whose confirmation is lost
  has the same effect through the fallback.
- The single-event path passes no `answered_at` (`app/workers/outbox.py:47-84`): a
  review success handled after midnight counts as another day
  (`docs/05_progress_model.md:616`), and its recency is always 0. The last return
  of `determine_topic_status` is unreachable. A batch writes the final status as
  `new_status` of every history row.
- `record_review_success` compares a success with the day of the last success only
  (`app/repositories/mistakes.py`). With two required days that is the same as
  counting days. With three it would not be: an answer that a retry brings in late
  has its day counted once more, and a mistake could be resolved on two days.
- The statement of `docs/05_progress_model.md:505-506` that weakness never falls
  with more mistakes is not true of the formula.

*Payments.* A confirmation that fails with a transient error is never tried again:
the handler reports it and returns (`app/bot/handlers/payments.py:161`). A late
pre-checkout can write `pending` over `credited`. `mark_failed` and
`mark_cancelled` have no caller.

*Catalog and quiz bank.*

- The import script creates no Redis client, so the invalidation that the tests
  exercise (`tests/test_local_catalog_cache.py:198`) does nothing in production.
- `_checksum_payload` leaves out the prompt, the theme slug and other fields, so
  that changes of these are skipped; it includes the row number, so that sorting
  the file changes every checksum and selection key.
- Two first imports of different versions both pass the version check; every later
  import then raises. Two imports of one version at once can leave an item mixed
  from both. Items missing from a snapshot stay active.
- The availability fallback stamps `generated_at` with the current time on themes
  up to two TTLs old. The failure counter is not reset when the circuit opens or
  half-opens, and a late success closes an open circuit.
- `QuizCatalogRepository` and `QuizCatalogSourceReader` are used by tests only.

## What is not modelled

- Configuration, health probes, logging, engine and Redis client creation:
  settings and wiring, no protocol of their own. The profile and subscription
  pages only read. Keyboards other than level and theme, messages and wording.
- Operational scripts: they drive the application from outside.
- CSV parsing, payload validation, token hashing: abstracted to what they let
  through.
- Loss of Redis or PostgreSQL data, and trimming of streams. The model takes both
  stores to be durable. The Lua script is atomic: SET done and XADD failed is not
  modelled.
- The process-local variants of locks, limits and guards used without Redis, and
  the ORM answer path of dialects other than PostgreSQL.
- Time, where a choice will do: TTLs, idle times and backoff are choices whose
  number is bounded by a budget. Days (`Learning`, `Payments`) and ticks
  (`UpdateAdmission`, `Catalog`, `QuizBank*`) are modelled where a property is
  about them. The daily limit has one day: its reset at midnight is left out.
- Two learners: no state is shared between learners except the streams, whose
  workers are modelled with any number of updates and events.

## Plan

Every module of the plan is written, and every invariant and action property the
runs check is proved. What could be added, in order of importance:

1. The change of day in the daily limit, and the paid plans that lift it, composed
   with `Payments`: today a learner has one limit and one day.
2. Trimming of the streams, as a fault of `WebhookIngress` and `AnswerPersistence`.

The liveness properties stay with TLC: fairness and ENABLED are out of the
prover's reach.

## Running it

In this directory: `tlc -config MCOutboxFaults.cfg MCOutbox` checks one
configuration, `tlapm OutboxProofs.tla` the proofs of a module. The list of runs
with their modules and configurations is in `PROJECT.json`.
