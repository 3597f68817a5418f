----------------------------- MODULE WebhookAck -----------------------------
(* The ASGI endpoint that answers Telegram (app/runtime/                      *)
(* webhook_ingress_asgi.py) and its batcher: a request puts its update on the *)
(* batcher's queue and waits for a future, one task collects the queue into   *)
(* batches and sends each with one script call.  Two settings change when the *)
(* request is answered: webhook_ingress_enqueue_batch_size > 1 (batched) and  *)
(* webhook_ingress_ack_before_redis (early).  What happens to an update that  *)
(* is on the stream is WebhookIngress.  Requests that are refused before any  *)
(* state is touched (path, secret, body) are left out.                        *)
EXTENDS Naturals, Sequences, FiniteSets, SequencesExt

CONSTANTS
  TelegramUpdates,    \* updates Telegram sends, as often as it likes
  MalformedUpdates,   \* those whose update_id is not an integer
  FlushLimit,         \* webhook_ingress_enqueue_batch_size
  MaxPosts,           \* bound: requests
  MaxRedisFailures,   \* bound: script calls that raise
  MaxRestarts         \* bound: shutdowns and crashes of the process

ASSUME AckAssumption ==
  /\ IsFiniteSet(TelegramUpdates) /\ MalformedUpdates \subseteq TelegramUpdates
  /\ FlushLimit \in Nat \ {0}
  /\ {MaxPosts, MaxRedisFailures, MaxRestarts} \subseteq Nat

VARIABLES
  batched, early,   \* the two settings, fixed for a deployment
  posts,            \* Seq: the update of each request and the answer it got
  buffer,           \* asyncio.Queue _pending: requests whose update waits
  flushing,         \* the batch in the hands of _flush
  direct,           \* without a batcher: requests whose enqueue_update runs
  onStream,         \* updates the script has put on the stream
  redisFailures, restarts

ackVars == <<batched, early, posts, buffer, flushing, direct, onStream,
             redisFailures, restarts>>

Reply == {"open", "queued", "duplicate", "invalid", "unavailable", "none"}

AckInit ==
  /\ batched \in BOOLEAN /\ early \in BOOLEAN
  /\ posts = <<>> /\ buffer = <<>> /\ flushing = <<>>
  /\ direct = {} /\ onStream = {}
  /\ redisFailures = 0 /\ restarts = 0

UpdatesOf(S) == {posts[p].update : p \in S} \ MalformedUpdates

\* Mutant of ResultIn: the first update of the batch answers for all of it.
ResultOfFirst(batch, p) ==
  LET u == posts[batch[1]].update
  IN IF u \in MalformedUpdates THEN "invalid"
     ELSE IF u \in onStream THEN "duplicate" ELSE "queued"

\* What a script call tells request p of a batch: the first of an update that
\* is not on the stream yet is accepted, later ones are duplicates.
ResultIn(batch, p) ==
  LET u == posts[p].update
      before == {batch[k] : k \in 1 .. (CHOOSE k \in 1 .. Len(batch) : batch[k] = p) - 1}
  IN IF u \in MalformedUpdates THEN "invalid"
     ELSE IF u \in onStream \cup UpdatesOf(before) THEN "duplicate" ELSE "queued"

\* A future that is already done keeps its result; so does a request that was
\* answered before Redis, which has no future.
Answer(S, reply) ==
  posts' = [p \in DOMAIN posts |->
              IF p \in S /\ posts[p].reply = "open"
              THEN [posts[p] EXCEPT !.reply = reply[p]] ELSE posts[p]]

(* A request arrives: _handle_webhook, _enqueue_update.                      *)

EarlyReply(u) ==
  IF u \in MalformedUpdates THEN "invalid" ELSE "queued"

Post(u) ==
  LET p == Len(posts) + 1
      waits == ~early /\ (batched \/ u \notin MalformedUpdates)
      goesOn == waits \/ u \notin MalformedUpdates
  IN /\ p <= MaxPosts
     /\ posts' = Append(posts, [update |-> u,
                                reply |-> IF waits THEN "open" ELSE EarlyReply(u)])
     /\ buffer' = IF batched /\ goesOn THEN Append(buffer, p) ELSE buffer
     /\ direct' = IF ~batched /\ goesOn THEN direct \cup {p} ELSE direct
     /\ UNCHANGED <<batched, early, flushing, onStream, redisFailures, restarts>>

(* The batcher's task.                                                       *)

\* _run: the batch is what arrived before the flush deadline, at most a batch.
Collect ==
  /\ flushing = <<>>
  /\ \E n \in 1 .. FlushLimit :
       /\ n <= Len(buffer)
       /\ flushing' = SubSeq(buffer, 1, n)
       /\ buffer' = SubSeq(buffer, n + 1, Len(buffer))
  /\ UNCHANGED <<batched, early, posts, direct, onStream, redisFailures, restarts>>

FlushLands ==
  /\ flushing # <<>>
  /\ Answer(ToSet(flushing), [p \in ToSet(flushing) |-> ResultIn(flushing, p)])
  /\ onStream' = onStream \cup UpdatesOf(ToSet(flushing))
  /\ flushing' = <<>>
  /\ UNCHANGED <<batched, early, buffer, direct, redisFailures, restarts>>

\* The call raised; the script may have run or not.  Every future gets the
\* exception (503), what was answered before is only logged.
FlushFails ==
  /\ flushing # <<>> /\ redisFailures < MaxRedisFailures
  /\ Answer(ToSet(flushing), [p \in ToSet(flushing) |-> "unavailable"])
  /\ \E ran \in BOOLEAN :
       onStream' = IF ran THEN onStream \cup UpdatesOf(ToSet(flushing)) ELSE onStream
  /\ flushing' = <<>>
  /\ redisFailures' = redisFailures + 1
  /\ UNCHANGED <<batched, early, buffer, direct, restarts>>

(* Without a batcher: one script call per request.                           *)

DirectLands(p) ==
  /\ p \in direct
  /\ Answer({p}, [q \in {p} |-> ResultIn(<<q>>, q)])
  /\ onStream' = onStream \cup UpdatesOf({p})
  /\ direct' = direct \ {p}
  /\ UNCHANGED <<batched, early, buffer, flushing, redisFailures, restarts>>

DirectFails(p) ==
  /\ p \in direct /\ redisFailures < MaxRedisFailures
  /\ Answer({p}, [q \in {p} |-> "unavailable"])
  /\ \E ran \in BOOLEAN : onStream' = IF ran THEN onStream \cup UpdatesOf({p}) ELSE onStream
  /\ direct' = direct \ {p}
  /\ redisFailures' = redisFailures + 1
  /\ UNCHANGED <<batched, early, buffer, flushing, restarts>>

\* lifespan.shutdown cancels the task (close), a crash ends the process: what
\* was queued in memory is gone, calls on their way may still have run, open
\* requests get no answer.
Restart ==
  /\ restarts < MaxRestarts
  /\ \E ran \in SUBSET direct, batchRan \in BOOLEAN :
       onStream' = onStream \cup UpdatesOf(ran)
                   \cup (IF batchRan THEN UpdatesOf(ToSet(flushing)) ELSE {})
  /\ Answer(DOMAIN posts, [p \in DOMAIN posts |-> "none"])
  /\ buffer' = <<>> /\ flushing' = <<>> /\ direct' = {}
  /\ restarts' = restarts + 1
  /\ UNCHANGED <<batched, early, redisFailures>>

AckNext ==
  \/ \E u \in TelegramUpdates : Post(u)
  \/ Collect
  \/ FlushLands
  \/ FlushFails
  \/ \E p \in direct : DirectLands(p) \/ DirectFails(p)
  \/ Restart

AckSpec == AckInit /\ [][AckNext]_ackVars

-----------------------------------------------------------------------------
(* Properties. *)

AckTypeOK ==
  /\ batched \in BOOLEAN /\ early \in BOOLEAN
  /\ posts \in Seq([update : TelegramUpdates, reply : Reply])
  /\ buffer \in Seq(DOMAIN posts) /\ flushing \in Seq(DOMAIN posts)
  /\ direct \subseteq DOMAIN posts
  /\ onStream \subseteq TelegramUpdates \ MalformedUpdates
  /\ redisFailures \in 0 .. MaxRedisFailures /\ restarts \in 0 .. MaxRestarts

InHand(p) == p \in ToSet(buffer) \cup ToSet(flushing) \cup direct

\* A 200 to Telegram ends its redelivery, so the update must be on the stream.
\* Waiting for Redis keeps that through failed flushes, malformed neighbours in
\* a batch and restarts; with ack_before_redis an answered update is still in
\* memory, and only a failed call or a restart loses it.
OkMeansOnStream ==
  \A p \in DOMAIN posts :
    posts[p].reply \in {"queued", "duplicate"} =>
      \/ posts[p].update \in onStream
      \/ early /\ (InHand(p) \/ redisFailures + restarts > 0)
=============================================================================
