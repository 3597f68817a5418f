--------------------------- MODULE WebhookIngress ---------------------------
(***************************************************************************)
(* Redis-backed Telegram webhook ingress: the HTTP handler that accepts an *)
(* update (runtime/webhook_ingress_handler.py), the stream, consumer group *)
(* and dead-letter stream it feeds (runtime/webhook_ingress_queue.py), and *)
(* the worker pool that drains them (workers/webhook_ingress.py).          *)
(*                                                                         *)
(* A stream entry is named by its position in "log" and never changes; XDEL*)
(* takes it out of "live".  The entries a worker has in hand are records of*)
(* "tasks", one per entry, whose phase says how far the worker got:        *)
(*                                                                         *)
(*   fresh --> done ------------------------------------> (MULTI ack+del)  *)
(*         \-> failed --> added --> acked --> deleted --> (metric)         *)
(*                                                                         *)
(* Each arrow of the lower row is one Redis command of retry_or_dead, sent *)
(* on its own; a worker may die between any two of them.                   *)
(***************************************************************************)
EXTENDS Integers, FiniteSets, Sequences

CONSTANTS
  Updates,       \* update ids Telegram may deliver
  FastAnswers,   \* the updates _fast_answer_request recognises
  Workers,       \* consumers of the group
  BatchSize,     \* COUNT of XREADGROUP and XAUTOCLAIM
  Parallelism,   \* max_parallelism of a worker
  MaxAttempts,   \* max_attempts
  MaxCrashes,    \* bound: worker deaths
  MaxSteals,     \* bound: XAUTOCLAIMs that take an entry from a live worker
  MaxExpiries    \* bound: dedupe keys that reach their TTL

ASSUME FastAssumption == FastAnswers \subseteq Updates
ASSUME SizeAssumption ==
  /\ BatchSize \in Nat \ {0}
  /\ Parallelism \in Nat \ {0}
  /\ MaxAttempts \in Nat \ {0}
ASSUME BoundAssumption ==
  MaxCrashes \in Nat /\ MaxSteals \in Nat /\ MaxExpiries \in Nat

VARIABLES
  acked,           \* updates Telegram got a 200 for
  dedupe,          \* updates whose dedupe key is set
  log,             \* every entry ever XADDed to the stream, in id order
  live,            \* positions of log not XDELed
  lastDelivered,   \* last-delivered-id of the group
  pending,         \* the group's pending entries list
  dead,            \* the dead-letter stream
  tasks,           \* entries in the hands of a worker
  processedTotal, failedTotal, deadTotal,      \* the metric keys
  dispatched,      \* history: dispatches of an update that returned
  failures,        \* history: dispatches of an update that raised
  crashes, steals, expiries                    \* used budgets

stream  == <<log, live, lastDelivered, pending>>
metrics == <<processedTotal, failedTotal, deadTotal>>
history == <<dispatched, failures>>
budgets == <<crashes, steals, expiries>>
vars    == <<acked, dedupe, stream, dead, tasks, metrics, history, budgets>>

Phases == {"fresh", "done", "failed", "added", "acked", "deleted"}
Entry  == [update : Updates, attempt : 0 .. MaxAttempts - 1]
Burial == [update : Updates, attempts : Nat, original : Nat]
Task   == [worker : Workers, id : Nat, phase : Phases]

Init ==
  /\ acked = {} /\ dedupe = {}
  /\ log = <<>> /\ live = {} /\ lastDelivered = 0 /\ pending = {}
  /\ dead = <<>> /\ tasks = {}
  /\ processedTotal = 0 /\ failedTotal = 0 /\ deadTotal = 0
  /\ dispatched = [u \in Updates |-> 0]
  /\ failures = [u \in Updates |-> 0]
  /\ crashes = 0 /\ steals = 0 /\ expiries = 0

-----------------------------------------------------------------------------
(* Redis and the tasks of a worker. *)

UpdateOf(t)  == log[t.id].update
AttemptOf(t) == log[t.id].attempt
IsFast(t)    == UpdateOf(t) \in FastAnswers

TasksOf(w)   == {t \in tasks : t.worker = w}
FastTasks(w) == {t \in TasksOf(w) : IsFast(t)}
Idle(w)      == TasksOf(w) = {}
Held         == {t.id : t \in tasks}

\* Tasks that hold a slot of the semaphore: a handler raised and the retry
\* of its message is under way.
InFlight(w)  == {t \in TasksOf(w) : t.phase \in {"failed", "added", "acked", "deleted"}}

\* Mutant of Exhausted: an off-by-one gives up one attempt early.
ExhaustedEarly(t) == AttemptOf(t) + 2 >= MaxAttempts

\* retry_or_dead's test: the next attempt would reach max_attempts.
Exhausted(t) == AttemptOf(t) + 1 >= MaxAttempts

XAdd(entry) ==
  /\ log' = Append(log, entry)
  /\ live' = live \cup {Len(log) + 1}

Advance(t, phase) == tasks' = (tasks \ {t}) \cup {[t EXCEPT !.phase = phase]}

HandOver(w, ids) ==
  tasks' = tasks \cup {[worker |-> w, id |-> i, phase |-> "fresh"] : i \in ids}

-----------------------------------------------------------------------------
(* The webhook endpoint.  Telegram repeats an update until it sees a 200;  *)
(* the reply may be lost (or be a 503 because Redis answered too late).    *)

Reply(u) == acked' \in {acked, acked \cup {u}}

\* Mutant of Enqueue: the script adds the entry and forgets the dedupe key.
EnqueueWithoutKey(u) ==
  /\ u \notin acked
  /\ u \notin dedupe
  /\ XAdd([update |-> u, attempt |-> 0])
  /\ Reply(u)
  /\ UNCHANGED <<dedupe, lastDelivered, pending, dead, tasks, metrics, history, budgets>>

Enqueue(u) ==
  /\ u \notin acked
  /\ u \notin dedupe
  /\ dedupe' = dedupe \cup {u}
  /\ XAdd([update |-> u, attempt |-> 0])
  /\ Reply(u)
  /\ UNCHANGED <<lastDelivered, pending, dead, tasks, metrics, history, budgets>>

Duplicate(u) ==
  /\ u \notin acked
  /\ u \in dedupe
  /\ Reply(u)
  /\ UNCHANGED <<dedupe, stream, dead, tasks, metrics, history, budgets>>

ExpireDedupe(u) ==
  /\ u \in dedupe
  /\ expiries < MaxExpiries
  /\ expiries' = expiries + 1
  /\ dedupe' = dedupe \ {u}
  /\ UNCHANGED <<acked, stream, dead, tasks, metrics, history, crashes, steals>>

-----------------------------------------------------------------------------
(* process_once: claim stale entries, or else read new ones.               *)

\* XREADGROUP ">": the next entries in id order, put on the pending list.
Read(w) ==
  LET newest == IF lastDelivered + BatchSize <= Len(log)
                THEN lastDelivered + BatchSize ELSE Len(log)
      batch  == lastDelivered + 1 .. newest
  IN /\ Idle(w)
     /\ lastDelivered < Len(log)
     /\ lastDelivered' = newest
     /\ pending' = pending \cup batch
     /\ HandOver(w, batch)
     /\ UNCHANGED <<acked, dedupe, log, live, dead, metrics, history, budgets>>

\* Mutant of ClaimOrphans: only entries still on nobody's list are claimed.
ClaimUndelivered(w) ==
  /\ Idle(w)
  /\ \E ids \in SUBSET ((live \ pending) \ Held) :
       /\ ids # {} /\ Cardinality(ids) <= BatchSize /\ ids \subseteq pending
       /\ HandOver(w, ids)
  /\ UNCHANGED <<acked, dedupe, stream, dead, metrics, history, budgets>>

\* XAUTOCLAIM of entries whose worker died: nobody has them in hand.
ClaimOrphans(w) ==
  /\ Idle(w)
  /\ \E ids \in SUBSET (pending \ Held) :
       /\ ids # {} /\ Cardinality(ids) <= BatchSize
       /\ HandOver(w, ids)
  /\ UNCHANGED <<acked, dedupe, stream, dead, metrics, history, budgets>>

\* XAUTOCLAIM of an entry that a live worker has held longer than
\* stale_idle_ms: both have it in hand from now on.
ClaimFromSlow(w) ==
  /\ Idle(w)
  /\ steals < MaxSteals
  /\ \E ids \in SUBSET pending :
       /\ ids \cap Held # {} /\ Cardinality(ids) <= BatchSize
       /\ HandOver(w, ids)
  /\ steals' = steals + 1
  /\ UNCHANGED <<acked, dedupe, stream, dead, metrics, history, crashes, expiries>>

-----------------------------------------------------------------------------
(* _process_messages: the fast answers of the batch first, then the rest,  *)
(* at most Parallelism of them at a time.                                  *)

MayDispatch(t) ==
  /\ t.phase = "fresh"
  /\ \/ IsFast(t)
     \/ /\ FastTasks(t.worker) = {}
        /\ Cardinality(InFlight(t.worker)) < Parallelism

DispatchReturns(t) ==
  /\ MayDispatch(t)
  /\ Advance(t, "done")
  /\ dispatched' = [dispatched EXCEPT ![UpdateOf(t)] = @ + 1]
  /\ UNCHANGED <<acked, dedupe, stream, dead, metrics, failures, budgets>>

DispatchRaises(t) ==
  /\ MayDispatch(t)
  /\ Advance(t, "failed")
  /\ failures' = [failures EXCEPT ![UpdateOf(t)] = @ + 1]
  /\ UNCHANGED <<acked, dedupe, stream, dead, metrics, dispatched, budgets>>

\* Mutant of Completed: the whole batch is marked, whatever became of it.
WholeBatch(w) == {TasksOf(w)} \ {{}}

\* The messages one mark_processed_many call takes: all fast answers at once
\* when none is left to try; of the others, Parallelism as soon as that many
\* are done, and what remains at the end of the batch.
Completed(w) ==
  LET stage == IF FastTasks(w) # {} THEN FastTasks(w) ELSE TasksOf(w)
      done  == {t \in stage : t.phase = "done"}
      flush == IF FastTasks(w) = {} /\ Cardinality(done) >= Parallelism
               THEN {some \in SUBSET done : Cardinality(some) = Parallelism}
               ELSE {done}
  IN {some \in flush :
        some # {} /\ (done = stage \/ (FastTasks(w) = {} /\ Cardinality(some) = Parallelism))}

\* MULTI XACK, XDEL, INCRBY processed_total.
MarkProcessed(w) ==
  /\ \E some \in Completed(w) :
       LET ids == {t.id : t \in some}
       IN /\ pending' = pending \ ids
          /\ live' = live \ ids
          /\ tasks' = tasks \ some
          /\ processedTotal' = processedTotal + Cardinality(some)
  /\ UNCHANGED <<acked, dedupe, log, lastDelivered, dead, failedTotal, deadTotal,
                 history, budgets>>

-----------------------------------------------------------------------------
(* retry_or_dead, one action per Redis command.                            *)

\* Failed fast answers are retried one after the other.
MayRetry(t) ==
  /\ t.phase = "failed"
  /\ IsFast(t) => \A s \in FastTasks(t.worker) :
                    s.phase \notin {"added", "acked", "deleted"}

\* _retry: XADD of the same update with the next attempt number.
AddRetry(t) ==
  /\ MayRetry(t)
  /\ ~Exhausted(t)
  /\ XAdd([update |-> UpdateOf(t), attempt |-> AttemptOf(t) + 1])
  /\ Advance(t, "added")
  /\ UNCHANGED <<acked, dedupe, lastDelivered, pending, dead, metrics, history, budgets>>

\* Mutant of AddDead: the original is given up, the dead letter never written.
DropDead(t) ==
  /\ MayRetry(t)
  /\ Exhausted(t)
  /\ Advance(t, "added")
  /\ UNCHANGED <<acked, dedupe, stream, dead, metrics, history, budgets>>

\* _dead_letter: XADD to the dead-letter stream.
AddDead(t) ==
  /\ MayRetry(t)
  /\ Exhausted(t)
  /\ dead' = Append(dead, [update |-> UpdateOf(t), attempts |-> AttemptOf(t) + 1,
                           original |-> t.id])
  /\ Advance(t, "added")
  /\ UNCHANGED <<acked, dedupe, stream, metrics, history, budgets>>

\* Mutant of Ack: XDEL before XACK.
DeleteFirst(t) ==
  /\ t.phase = "added"
  /\ live' = live \ {t.id}
  /\ Advance(t, "acked")
  /\ UNCHANGED <<acked, dedupe, log, lastDelivered, pending, dead, metrics, history, budgets>>

Ack(t) ==
  /\ t.phase = "added"
  /\ pending' = pending \ {t.id}
  /\ Advance(t, "acked")
  /\ UNCHANGED <<acked, dedupe, log, live, lastDelivered, dead, metrics, history, budgets>>

Delete(t) ==
  /\ t.phase = "acked"
  /\ live' = live \ {t.id}
  /\ Advance(t, "deleted")
  /\ UNCHANGED <<acked, dedupe, log, lastDelivered, pending, dead, metrics, history, budgets>>

CountRetry(t) ==
  /\ t.phase = "deleted"
  /\ IF Exhausted(t)
     THEN deadTotal' = deadTotal + 1 /\ UNCHANGED failedTotal
     ELSE failedTotal' = failedTotal + 1 /\ UNCHANGED deadTotal
  /\ tasks' = tasks \ {t}
  /\ UNCHANGED <<acked, dedupe, stream, dead, processedTotal, history, budgets>>

-----------------------------------------------------------------------------
\* A worker process ends: a redis error of mark_processed_many or of
\* retry_or_dead leaves run_forever, or the host stops it.  Its tasks are
\* gone, its entries stay on the pending list.
Crash(w) ==
  /\ ~Idle(w)
  /\ crashes < MaxCrashes
  /\ crashes' = crashes + 1
  /\ tasks' = tasks \ TasksOf(w)
  /\ UNCHANGED <<acked, dedupe, stream, dead, metrics, history, steals, expiries>>

Fetch(w)  == ClaimOrphans(w) \/ Read(w)
Handle(t) == DispatchReturns(t) \/ DispatchRaises(t)
Retry(t)  == AddRetry(t) \/ AddDead(t) \/ Ack(t) \/ Delete(t) \/ CountRetry(t)

Next ==
  \/ \E u \in Updates : Enqueue(u) \/ Duplicate(u) \/ ExpireDedupe(u)
  \/ \E w \in Workers : Read(w) \/ ClaimOrphans(w) \/ ClaimFromSlow(w)
                        \/ MarkProcessed(w) \/ Crash(w)
  \/ \E t \in tasks : \/ DispatchReturns(t) \/ DispatchRaises(t)
                      \/ AddRetry(t) \/ AddDead(t)
                      \/ Ack(t) \/ Delete(t) \/ CountRetry(t)

Spec == Init /\ [][Next]_vars

\* run_forever polls without end (Fetch), and the tasks of a batch are run to
\* their end by the event loop.  Nothing obliges Telegram, a crash or a claim
\* from a slow worker to happen.
Fairness ==
  \A w \in Workers :
    /\ WF_vars(Fetch(w))
    /\ WF_vars(MarkProcessed(w))
    /\ WF_vars(\E t \in TasksOf(w) : Handle(t))
    /\ WF_vars(\E t \in TasksOf(w) : Retry(t))

FairSpec == Spec /\ Fairness

-----------------------------------------------------------------------------
(* Properties. *)

StreamType ==
  /\ acked \subseteq Updates /\ dedupe \subseteq Updates
  /\ log \in Seq(Entry)
  /\ live \subseteq 1 .. Len(log)
  /\ lastDelivered \in 0 .. Len(log)
  /\ pending \subseteq live
  /\ dead \in Seq(Burial)

TasksType ==
  /\ tasks \subseteq Task
  /\ IsFiniteSet(tasks)
  /\ \A t \in tasks : t.id \in 1 .. lastDelivered

CountersType ==
  /\ processedTotal \in Nat /\ failedTotal \in Nat /\ deadTotal \in Nat
  /\ dispatched \in [Updates -> Nat] /\ failures \in [Updates -> Nat]
  /\ crashes \in 0 .. MaxCrashes /\ steals \in 0 .. MaxSteals
  /\ expiries \in 0 .. MaxExpiries

\* Every variable holds what the code can put there; in particular the stream
\* keeps every pending entry (Redis would otherwise redeliver a ghost), and a
\* worker has only entries the group delivered.
TypeOK == StreamType /\ TasksType /\ CountersType

\* An entry some worker will still be given: not delivered yet, or pending.
InPlay(i) == i \in live /\ (i > lastDelivered \/ i \in pending)

Buried(u) == \E k \in 1 .. Len(dead) : dead[k].update = u

Settled(u) == dispatched[u] > 0 \/ Buried(u)

\* A 200 to Telegram is never a lie: the update was handled, or it is on the
\* dead-letter stream, or an entry that carries it will still be delivered.
\* (retry_or_dead adds the copy before it acknowledges the original, and
\* mark_processed_many acknowledges only what was dispatched.)
NoAckedUpdateLost ==
  \A u \in acked : Settled(u) \/ \E i \in 1 .. Len(log) : log[i].update = u /\ InPlay(i)

\* An update is given up only after max_attempts dispatches of it raised,
\* however often entries were duplicated, claimed or copied on the way.
BuriedOnlyAfterMaxFailures ==
  \A k \in 1 .. Len(dead) :
    dead[k].attempts >= MaxAttempts /\ failures[dead[k].update] >= MaxAttempts

\* Without a crash, a claim from a slow worker and an expired dedupe key the
\* ingress handles an update once, and never also buries it.  (UpdateDelivery
\* promises as much: a settled update is not deliverable until disturbed.)
EffectivelyOnce ==
  crashes = 0 /\ steals = 0 /\ expiries = 0 =>
    \A u \in Updates : dispatched[u] <= 1 /\ ~(dispatched[u] = 1 /\ Buried(u))

\* The pending list gives an entry up only once its outcome is durable: it was
\* dispatched, its retry was added with the next attempt, or it was buried.
AckOnlyAfterOutcome ==
  [][\A i \in pending : i \notin pending' =>
       LET u == log[i].update
       IN \/ dispatched[u] > 0
          \/ \E j \in 1 .. Len(log) : log[j].update = u /\ log[j].attempt = log[i].attempt + 1
          \/ \E k \in 1 .. Len(dead) : dead[k].original = i]_vars

Delivery == INSTANCE UpdateDelivery
              WITH told <- acked, handled <- dispatched, raised <- failures,
                   waiting <- {log[i].update : i \in {k \in 1 .. Len(log) : InPlay(k)}},
                   buried <- {dead[k].update : k \in 1 .. Len(dead)},
                   disturbed <- crashes + steals + expiries > 0

\* Stream, pending list and dead-letter stream keep the promise of
\* UpdateDelivery through every interleaving of the commands of retry_or_dead,
\* batches, crashes and claims: what leaves the queue is settled, what comes
\* back after it was settled comes back because of a fault.
ImplementsUpdateDelivery == Delivery!Spec

\* Every acknowledged update is eventually handled or buried.
AckedEventuallySettled == \A u \in Updates : u \in acked ~> Settled(u)

=============================================================================
