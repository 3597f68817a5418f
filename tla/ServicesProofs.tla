--------------------------- MODULE ServicesProofs ---------------------------
(***************************************************************************)
(* Theorems about the services around the learner's answers.  How updates  *)
(* get in: what the webhook answers and puts on the stream (WebhookAck),   *)
(* for any number of updates, requests, failed script calls and restarts,  *)
(* any batch size and both settings; and what passes the middlewares in    *)
(* front of a handler (UpdateAdmission), for any number of deliveries,     *)
(* limits, windows, times to live and faults.  Where questions come from:  *)
(* the local catalog (Catalog), for every number of items, versions,       *)
(* contents, imports and readers; the client of the external quiz bank     *)
(* (QuizBankClient), for every retry limit, threshold, reset time and      *)
(* number of concurrent calls; and what processes remember of it           *)
(* (QuizBankCache), for every TTL and number of processes.  Last, that the *)
(* services may be put side by side, as MCServices does.                   *)
(***************************************************************************)
EXTENDS MCServices, TrainingSessionsProofs, LearnerProofs, FiniteSetTheorems, TLAPS

Request == [update : TelegramUpdates, reply : Reply]

\* The replies that tell Telegram to forget an update.
Ok == {"queued", "duplicate"}

\* Only an update that can be queued is answered so.
OkIsWellFormed ==
  \A p \in DOMAIN posts : posts[p].reply \in Ok => posts[p].update \notin MalformedUpdates

AckInv == AckTypeOK /\ OkIsWellFormed /\ OkMeansOnStream

-----------------------------------------------------------------------------
(* Sequences of requests. *)

LEMMA SeqWider ==
  ASSUME NEW S, NEW T, S \subseteq T, NEW s \in Seq(S)
  PROVE  s \in Seq(T)
OBVIOUS

LEMMA ToSetSeq ==
  ASSUME NEW S, NEW s \in Seq(S)
  PROVE  ToSet(s) \subseteq S
BY DEF ToSet

\* A batch is the head of the buffer; what is not in it stays in the buffer.
LEMMA Split ==
  ASSUME NEW S, NEW s \in Seq(S), NEW n \in 1 .. Len(s)
  PROVE  /\ SubSeq(s, 1, n) \in Seq(S) /\ SubSeq(s, n + 1, Len(s)) \in Seq(S)
         /\ ToSet(s) \subseteq ToSet(SubSeq(s, 1, n)) \cup ToSet(SubSeq(s, n + 1, Len(s)))
<1>1. SubSeq(s, 1, n) \in Seq(S) /\ SubSeq(s, n + 1, Len(s)) \in Seq(S)
  OBVIOUS
<1>2. ASSUME NEW i \in 1 .. Len(s)
      PROVE  s[i] \in ToSet(SubSeq(s, 1, n)) \cup ToSet(SubSeq(s, n + 1, Len(s)))
  <2>1. CASE i <= n
    <3>1. i \in DOMAIN SubSeq(s, 1, n) /\ SubSeq(s, 1, n)[i] = s[i]
      BY <2>1
    <3> QED BY <3>1 DEF ToSet
  <2>2. CASE i > n
    <3>1. /\ i - n \in DOMAIN SubSeq(s, n + 1, Len(s))
          /\ SubSeq(s, n + 1, Len(s))[i - n] = s[i]
      BY <2>2
    <3> QED BY <3>1 DEF ToSet
  <2> QED BY <2>1, <2>2
<1>3. ToSet(s) = {s[i] : i \in 1 .. Len(s)}
  BY DEF ToSet
<1> QED BY <1>1, <1>2, <1>3

LEMMA ToSetAppend ==
  ASSUME NEW S, NEW s \in Seq(S), NEW e
  PROVE  ToSet(Append(s, e)) = ToSet(s) \cup {e}
<1>1. DOMAIN Append(s, e) = DOMAIN s \cup {Len(s) + 1}
  OBVIOUS
<1>2. \A i \in DOMAIN s : Append(s, e)[i] = s[i]
  OBVIOUS
<1>3. Append(s, e)[Len(s) + 1] = e
  OBVIOUS
<1> QED BY <1>1, <1>2, <1>3 DEF ToSet

-----------------------------------------------------------------------------
(* Answers. *)

\* Answers touch no update, no reply that was given, and no other request.
LEMMA AnswerFacts ==
  ASSUME AckTypeOK, NEW S, NEW reply, Answer(S, reply),
         \A p \in S \cap DOMAIN posts : reply[p] \in Reply
  PROVE  /\ posts' \in Seq(Request) /\ DOMAIN posts' = DOMAIN posts
         /\ \A p \in DOMAIN posts :
              /\ posts'[p].update = posts[p].update
              /\ posts'[p].reply = IF p \in S /\ posts[p].reply = "open"
                                   THEN reply[p] ELSE posts[p].reply
<1>1. posts \in Seq(Request)
  BY DEF AckTypeOK, Request
<1>2. DOMAIN posts = 1 .. Len(posts) /\ Len(posts) \in Nat
  BY <1>1
<1>3. posts' = [p \in 1 .. Len(posts) |-> IF p \in S /\ posts[p].reply = "open"
                                          THEN [posts[p] EXCEPT !.reply = reply[p]]
                                          ELSE posts[p]]
  BY <1>2, Zenon DEF Answer
<1>4. ASSUME NEW p \in 1 .. Len(posts)
      PROVE  /\ posts'[p] \in Request
             /\ posts'[p].update = posts[p].update
             /\ posts'[p].reply = IF p \in S /\ posts[p].reply = "open"
                                  THEN reply[p] ELSE posts[p].reply
  <2>1. posts[p] \in Request
    BY <1>1
  <2>2. p \in S => reply[p] \in Reply
    BY <1>2
  <2> QED BY <1>3, <2>1, <2>2 DEF Request
<1>5. posts' \in [1 .. Len(posts) -> Request]
  BY <1>3, <1>4
<1> QED BY <1>2, <1>4, <1>5

\* A script call gives a result that says the update is well-formed, or not.
LEMMA ResultFacts ==
  ASSUME NEW batch, NEW p
  PROVE  /\ ResultIn(batch, p) \in {"queued", "duplicate", "invalid"}
         /\ ResultIn(batch, p) \in Ok => posts[p].update \notin MalformedUpdates
BY DEF ResultIn, Ok

LEMMA SumsGrow ==
  \A a, b, c, d \in Nat : a <= c /\ b <= d /\ a + b > 0 => c + d > 0
OBVIOUS

\* What is common to the steps that answer requests: an update leaves memory for
\* the stream, or because a call failed or the process ended.
LEMMA RequestsAnswered ==
  ASSUME AckInv,
         NEW S \in SUBSET DOMAIN posts, NEW reply, Answer(S, reply),
         \A p \in S : /\ reply[p] \in Reply
                      /\ reply[p] \in Ok => /\ posts[p].update \notin MalformedUpdates
                                            /\ posts[p].update \in onStream',
         onStream \subseteq onStream', onStream' \subseteq TelegramUpdates \ MalformedUpdates,
         \A p \in DOMAIN posts :
           /\ InHand(p) /\ posts[p].update \notin MalformedUpdates
           => \/ p \in ToSet(buffer') \cup ToSet(flushing') \cup direct'
              \/ posts[p].update \in onStream'
              \/ redisFailures' + restarts' > 0,
         UNCHANGED <<batched, early>>,
         redisFailures' \in redisFailures .. MaxRedisFailures,
         restarts' \in restarts .. MaxRestarts,
         buffer' \in Seq(DOMAIN posts), flushing' \in Seq(DOMAIN posts),
         direct' \subseteq DOMAIN posts
  PROVE  AckInv'
<1>1. AckTypeOK /\ OkIsWellFormed /\ OkMeansOnStream
  BY DEF AckInv
<1>2. /\ posts' \in Seq(Request) /\ DOMAIN posts' = DOMAIN posts
      /\ \A p \in DOMAIN posts :
           /\ posts'[p].update = posts[p].update
           /\ posts'[p].reply = IF p \in S /\ posts[p].reply = "open"
                                THEN reply[p] ELSE posts[p].reply
  BY <1>1, AnswerFacts
<1>3. redisFailures \in Nat /\ restarts \in Nat /\ redisFailures' \in Nat /\ restarts' \in Nat
      /\ redisFailures <= redisFailures' /\ restarts <= restarts'
      /\ redisFailures' <= MaxRedisFailures /\ restarts' <= MaxRestarts
  BY <1>1, AckAssumption DEF AckTypeOK
<1>8. redisFailures + restarts > 0 => redisFailures' + restarts' > 0
  BY <1>3, SumsGrow
<1>4. AckTypeOK'
  <2>1. batched' \in BOOLEAN /\ early' \in BOOLEAN
    BY <1>1 DEF AckTypeOK
  <2>2. redisFailures' \in 0 .. MaxRedisFailures /\ restarts' \in 0 .. MaxRestarts
    BY <1>3, AckAssumption
  <2> QED BY <1>2, <2>1, <2>2 DEF AckTypeOK, Request
<1>5. OkIsWellFormed'
  BY <1>1, <1>2 DEF OkIsWellFormed
<1>6. ASSUME NEW p \in DOMAIN posts, posts'[p].reply \in Ok
      PROVE  \/ posts[p].update \in onStream'
             \/ early /\ (InHand(p)' \/ redisFailures' + restarts' > 0)
  <2>1. CASE p \in S /\ posts[p].reply = "open"
    BY <1>2, <1>6, <2>1
  <2>2. CASE ~(p \in S /\ posts[p].reply = "open")
    <3>1. posts[p].reply \in Ok
      BY <1>2, <1>6, <2>2
    <3>2. posts[p].update \notin MalformedUpdates
      BY <1>1, <3>1 DEF OkIsWellFormed
    <3>3. posts[p].update \in onStream \/ (early /\ (InHand(p) \/ redisFailures + restarts > 0))
      BY <1>1, <3>1 DEF OkMeansOnStream, Ok
    <3> QED BY <1>8, <3>2, <3>3 DEF InHand
  <2> QED BY <2>1, <2>2
<1>7. OkMeansOnStream'
  BY <1>2, <1>6 DEF OkMeansOnStream, Ok
<1> QED BY <1>4, <1>5, <1>7 DEF AckInv

\* The updates of a set of requests are updates that can be queued.
LEMMA UpdatesFacts ==
  ASSUME AckTypeOK, NEW S \in SUBSET DOMAIN posts
  PROVE  /\ UpdatesOf(S) \subseteq TelegramUpdates \ MalformedUpdates
         /\ \A p \in S : posts[p].update \notin MalformedUpdates => posts[p].update \in UpdatesOf(S)
<1>1. posts \in Seq(Request) /\ DOMAIN posts = 1 .. Len(posts)
  BY DEF AckTypeOK, Request
<1>2. ASSUME NEW p \in S
      PROVE  posts[p].update \in TelegramUpdates
  <2>1. p \in 1 .. Len(posts)
    BY <1>1
  <2>2. posts[p] \in Request
    BY <1>1, <2>1
  <2> QED BY <2>2 DEF Request
<1> QED BY <1>2 DEF UpdatesOf

-----------------------------------------------------------------------------
(* The invariant. *)

LEMMA AckInitial == AckInit => AckInv
<1> SUFFICES ASSUME AckInit
             PROVE  AckInv
  OBVIOUS
<1>1. DOMAIN posts = {}
  BY DEF AckInit
<1>2. AckTypeOK
  BY AckAssumption DEF AckInit, AckTypeOK
<1> QED BY <1>1, <1>2 DEF AckInv, OkIsWellFormed, OkMeansOnStream

\* A request that was answered at once is still in memory.
LEMMA PostStep ==
  ASSUME AckInv, NEW u \in TelegramUpdates, Post(u)
  PROVE  AckInv'
<1> DEFINE p == Len(posts) + 1
           waits == ~early /\ (batched \/ u \notin MalformedUpdates)
           r == IF waits THEN "open" ELSE EarlyReply(u)
<1>1. AckTypeOK /\ OkIsWellFormed /\ OkMeansOnStream
  BY DEF AckInv
<1>2. r \in Reply /\ (r \in Ok => r = "queued" /\ u \notin MalformedUpdates /\ early)
  BY <1>1 DEF EarlyReply, Reply, Ok, AckTypeOK
<1>3. posts \in Seq(Request) /\ [update |-> u, reply |-> r] \in Request
  BY <1>1, <1>2 DEF AckTypeOK, Request
<1>4. posts' = Append(posts, [update |-> u, reply |-> r])
  BY DEF Post
<1> HIDE DEF r
<1>5. /\ posts' \in Seq(Request) /\ DOMAIN posts' = DOMAIN posts \cup {p}
      /\ \A q \in DOMAIN posts : posts'[q] = posts[q]
      /\ posts'[p] = [update |-> u, reply |-> r] /\ p \notin DOMAIN posts
  BY <1>3, <1>4
<1>6. /\ buffer \in Seq(DOMAIN posts') /\ flushing \in Seq(DOMAIN posts')
      /\ direct \subseteq DOMAIN posts' /\ p \in DOMAIN posts'
  BY <1>1, <1>5, SeqWider DEF AckTypeOK
<1> DEFINE goesOn == waits \/ u \notin MalformedUpdates
<1>7. /\ buffer' = IF batched /\ goesOn THEN Append(buffer, p) ELSE buffer
      /\ direct' = IF ~batched /\ goesOn THEN direct \cup {p} ELSE direct
  BY DEF Post
<1>8. /\ Append(buffer, p) \in Seq(DOMAIN posts')
      /\ ToSet(Append(buffer, p)) = ToSet(buffer) \cup {p}
  BY <1>6, ToSetAppend
<1>14. buffer' \in Seq(DOMAIN posts') /\ direct' \subseteq DOMAIN posts'
  BY <1>6, <1>7, <1>8
<1>15. /\ ToSet(buffer) \subseteq ToSet(buffer') /\ direct \subseteq direct'
       /\ early /\ u \notin MalformedUpdates => p \in ToSet(buffer') \cup direct'
  BY <1>7, <1>8
<1>9. AckTypeOK'
  BY <1>1, <1>5, <1>6, <1>14 DEF Post, AckTypeOK, Request
<1>10. OkIsWellFormed'
  BY <1>1, <1>2, <1>5 DEF OkIsWellFormed
<1>13. OkMeansOnStream'
  <2> DEFINE kept == ToSet(buffer') \cup ToSet(flushing) \cup direct'
  <2> SUFFICES ASSUME NEW q \in DOMAIN posts', posts'[q].reply \in Ok
               PROVE  \/ posts'[q].update \in onStream
                      \/ early /\ (q \in kept \/ redisFailures + restarts > 0)
    BY DEF OkMeansOnStream, InHand, Ok, Post
  <2>1. CASE q \in DOMAIN posts
    <3>1. InHand(q) => q \in kept
      BY <1>15 DEF InHand
    <3> QED BY <1>1, <1>5, <2>1, <3>1 DEF OkMeansOnStream, Ok
  <2>2. CASE q = p
    BY <1>2, <1>5, <1>15, <2>2
  <2> QED BY <1>5, <2>1, <2>2
<1> QED BY <1>9, <1>10, <1>13 DEF AckInv

LEMMA CollectStep ==
  ASSUME AckInv, Collect
  PROVE  AckInv'
<1>1. PICK n \in 1 .. FlushLimit :
        /\ n <= Len(buffer)
        /\ flushing' = SubSeq(buffer, 1, n)
        /\ buffer' = SubSeq(buffer, n + 1, Len(buffer))
  BY DEF Collect
<1>2. buffer \in Seq(DOMAIN posts) /\ n \in 1 .. Len(buffer)
  BY <1>1, AckAssumption DEF AckInv, AckTypeOK
<1>3. /\ flushing' \in Seq(DOMAIN posts) /\ buffer' \in Seq(DOMAIN posts)
      /\ ToSet(buffer) \subseteq ToSet(flushing') \cup ToSet(buffer')
  BY <1>1, <1>2, Split
<1>4. ToSet(flushing) = {}
  BY DEF Collect, ToSet
<1>5. \A p : InHand(p) => p \in ToSet(buffer') \cup ToSet(flushing') \cup direct
  BY <1>3, <1>4 DEF InHand
<1>6. AckTypeOK'
  BY <1>3 DEF Collect, AckInv, AckTypeOK
<1>7. OkIsWellFormed'
  BY DEF Collect, AckInv, OkIsWellFormed
<1>8. OkMeansOnStream'
  <2> SUFFICES ASSUME NEW p \in DOMAIN posts, posts[p].reply \in {"queued", "duplicate"}
               PROVE  \/ posts[p].update \in onStream
                      \/ /\ early
                         /\ \/ p \in ToSet(buffer') \cup ToSet(flushing') \cup direct
                            \/ redisFailures + restarts > 0
    BY DEF OkMeansOnStream, InHand, Collect
  <2> QED BY <1>5 DEF AckInv, OkMeansOnStream
<1> QED BY <1>6, <1>7, <1>8 DEF AckInv

\* Every update of the batch that can be queued is on the stream.
LEMMA FlushLandsStep ==
  ASSUME AckInv, FlushLands
  PROVE  AckInv'
<1> DEFINE S == ToSet(flushing)
           reply == [p \in S |-> ResultIn(flushing, p)]
<1>1. AckTypeOK /\ S \subseteq DOMAIN posts
  BY ToSetSeq DEF AckInv, AckTypeOK
<1>2. /\ UpdatesOf(S) \subseteq TelegramUpdates \ MalformedUpdates
      /\ \A p \in S : posts[p].update \notin MalformedUpdates => posts[p].update \in UpdatesOf(S)
  BY <1>1, UpdatesFacts
<1>3. Answer(S, reply) /\ onStream' = onStream \cup UpdatesOf(S) /\ flushing' = <<>>
  BY DEF FlushLands
<1>4. \A p \in S : reply[p] \in Reply /\ (reply[p] \in Ok => /\ posts[p].update \notin MalformedUpdates
                                                             /\ posts[p].update \in onStream')
  BY <1>2, <1>3, ResultFacts DEF Reply
<1>5. \A p : InHand(p) /\ p \notin S => p \in ToSet(buffer) \cup direct
  BY DEF InHand
<1>6. onStream' \subseteq TelegramUpdates \ MalformedUpdates
  BY <1>1, <1>2, <1>3 DEF AckTypeOK
<1>7. /\ UNCHANGED <<batched, early, buffer, direct, redisFailures, restarts>>
      /\ <<>> \in Seq(DOMAIN posts)
      /\ redisFailures \in redisFailures .. MaxRedisFailures
      /\ restarts \in restarts .. MaxRestarts
  BY <1>1, AckAssumption DEF FlushLands, AckTypeOK
<1>8. buffer' \in Seq(DOMAIN posts) /\ flushing' \in Seq(DOMAIN posts) /\ direct' \subseteq DOMAIN posts
  BY <1>1, <1>3, <1>7 DEF AckTypeOK
<1>9. \A p \in DOMAIN posts : InHand(p) /\ posts[p].update \notin MalformedUpdates
        => p \in ToSet(buffer') \cup ToSet(flushing') \cup direct' \/ posts[p].update \in onStream'
  BY <1>2, <1>3, <1>5, <1>7
<1> HIDE DEF S, reply
<1> QED BY <1>1, <1>3, <1>4, <1>6, <1>7, <1>8, <1>9, RequestsAnswered

\* The batch that failed is answered 503; what was answered before is lost with it.
LEMMA FlushFailsStep ==
  ASSUME AckInv, FlushFails
  PROVE  AckInv'
<1> DEFINE S == ToSet(flushing)
           reply == [p \in S |-> "unavailable"]
<1>1. AckTypeOK /\ S \subseteq DOMAIN posts
  BY ToSetSeq DEF AckInv, AckTypeOK
<1>2. UpdatesOf(S) \subseteq TelegramUpdates \ MalformedUpdates
  BY <1>1, UpdatesFacts
<1>3. Answer(S, reply) /\ onStream' \in {onStream, onStream \cup UpdatesOf(S)} /\ flushing' = <<>>
  BY DEF FlushFails
<1>4. \A p \in S : reply[p] \in Reply /\ reply[p] \notin Ok
  BY DEF Reply, Ok
<1>5. onStream \subseteq onStream' /\ onStream' \subseteq TelegramUpdates \ MalformedUpdates
  BY <1>1, <1>2, <1>3 DEF AckTypeOK
<1>6. /\ UNCHANGED <<batched, early, buffer, direct, restarts>>
      /\ <<>> \in Seq(DOMAIN posts)
      /\ redisFailures' \in redisFailures .. MaxRedisFailures
      /\ restarts' \in restarts .. MaxRestarts
      /\ redisFailures' + restarts' > 0
  BY <1>1, AckAssumption DEF FlushFails, AckTypeOK
<1>7. buffer' \in Seq(DOMAIN posts) /\ flushing' \in Seq(DOMAIN posts) /\ direct' \subseteq DOMAIN posts
  BY <1>1, <1>3, <1>6 DEF AckTypeOK
<1> HIDE DEF S, reply
<1> QED BY <1>1, <1>3, <1>4, <1>5, <1>6, <1>7, RequestsAnswered

LEMMA DirectLandsStep ==
  ASSUME AckInv, NEW p \in direct, DirectLands(p)
  PROVE  AckInv'
<1> DEFINE reply == [q \in {p} |-> ResultIn(<<q>>, q)]
<1>1. AckTypeOK /\ {p} \subseteq DOMAIN posts
  BY DEF AckInv, AckTypeOK
<1>2. /\ UpdatesOf({p}) \subseteq TelegramUpdates \ MalformedUpdates
      /\ posts[p].update \notin MalformedUpdates => posts[p].update \in UpdatesOf({p})
  BY <1>1, UpdatesFacts
<1>3. Answer({p}, reply) /\ onStream' = onStream \cup UpdatesOf({p}) /\ direct' = direct \ {p}
  BY DEF DirectLands
<1>4. \A q \in {p} : reply[q] \in Reply /\ (reply[q] \in Ok => /\ posts[q].update \notin MalformedUpdates
                                                               /\ posts[q].update \in onStream')
  BY <1>2, <1>3, ResultFacts DEF Reply
<1>5. onStream' \subseteq TelegramUpdates \ MalformedUpdates
  BY <1>1, <1>2, <1>3 DEF AckTypeOK
<1>6. /\ UNCHANGED <<batched, early, buffer, flushing, redisFailures, restarts>>
      /\ redisFailures' \in redisFailures .. MaxRedisFailures
      /\ restarts' \in restarts .. MaxRestarts
  BY <1>1, AckAssumption DEF DirectLands, AckTypeOK
<1>7. buffer' \in Seq(DOMAIN posts) /\ flushing' \in Seq(DOMAIN posts) /\ direct' \subseteq DOMAIN posts
  BY <1>1, <1>3, <1>6 DEF AckTypeOK
<1>8. \A q \in DOMAIN posts : InHand(q) /\ posts[q].update \notin MalformedUpdates
        => q \in ToSet(buffer') \cup ToSet(flushing') \cup direct' \/ posts[q].update \in onStream'
  BY <1>2, <1>3, <1>6 DEF InHand
<1>9. {p} \in SUBSET DOMAIN posts /\ onStream \subseteq onStream'
  BY <1>1, <1>3
<1> HIDE DEF reply
<1> QED BY <1>3, <1>4, <1>5, <1>6, <1>7, <1>8, <1>9, RequestsAnswered, Zenon

LEMMA DirectFailsStep ==
  ASSUME AckInv, NEW p \in direct, DirectFails(p)
  PROVE  AckInv'
<1> DEFINE reply == [q \in {p} |-> "unavailable"]
<1>1. AckTypeOK /\ {p} \subseteq DOMAIN posts
  BY DEF AckInv, AckTypeOK
<1>2. UpdatesOf({p}) \subseteq TelegramUpdates \ MalformedUpdates
  BY <1>1, UpdatesFacts
<1>3. /\ Answer({p}, reply) /\ onStream' \in {onStream, onStream \cup UpdatesOf({p})}
      /\ direct' = direct \ {p}
  BY DEF DirectFails
<1>4. \A q \in {p} : reply[q] \in Reply /\ reply[q] \notin Ok
  BY DEF Reply, Ok
<1>5. onStream \subseteq onStream' /\ onStream' \subseteq TelegramUpdates \ MalformedUpdates
  BY <1>1, <1>2, <1>3 DEF AckTypeOK
<1>6. /\ UNCHANGED <<batched, early, buffer, flushing, restarts>>
      /\ redisFailures' \in redisFailures .. MaxRedisFailures
      /\ restarts' \in restarts .. MaxRestarts
      /\ redisFailures' + restarts' > 0
  BY <1>1, AckAssumption DEF DirectFails, AckTypeOK
<1>7. buffer' \in Seq(DOMAIN posts) /\ flushing' \in Seq(DOMAIN posts) /\ direct' \subseteq DOMAIN posts
  BY <1>1, <1>3, <1>6 DEF AckTypeOK
<1>8. {p} \in SUBSET DOMAIN posts
  BY <1>1
<1> HIDE DEF reply
<1> QED BY <1>1, <1>3, <1>4, <1>5, <1>6, <1>7, <1>8, RequestsAnswered, Zenon

LEMMA RestartStep ==
  ASSUME AckInv, Restart
  PROVE  AckInv'
<1> DEFINE S == DOMAIN posts
           reply == [p \in S |-> "none"]
<1>1. AckTypeOK /\ ToSet(flushing) \subseteq S /\ direct \subseteq S
  BY ToSetSeq DEF AckInv, AckTypeOK
<1>2. PICK ran \in SUBSET direct, batchRan \in BOOLEAN :
        onStream' = onStream \cup UpdatesOf(ran)
                    \cup (IF batchRan THEN UpdatesOf(ToSet(flushing)) ELSE {})
  BY DEF Restart
<1>3. /\ UpdatesOf(ran) \subseteq TelegramUpdates \ MalformedUpdates
      /\ UpdatesOf(ToSet(flushing)) \subseteq TelegramUpdates \ MalformedUpdates
  BY <1>1, UpdatesFacts
<1>4. onStream \subseteq onStream' /\ onStream' \subseteq TelegramUpdates \ MalformedUpdates
  BY <1>1, <1>2, <1>3 DEF AckTypeOK
<1>5. Answer(S, reply) /\ buffer' = <<>> /\ flushing' = <<>> /\ direct' = {}
  BY DEF Restart
<1>6. \A p \in S : reply[p] \in Reply /\ reply[p] \notin Ok
  BY DEF Reply, Ok
<1>7. /\ UNCHANGED <<batched, early, redisFailures>>
      /\ redisFailures' \in redisFailures .. MaxRedisFailures
      /\ restarts' \in restarts .. MaxRestarts
      /\ redisFailures' + restarts' > 0
  BY <1>1, AckAssumption DEF Restart, AckTypeOK
<1>8. buffer' \in Seq(DOMAIN posts) /\ flushing' \in Seq(DOMAIN posts) /\ direct' \subseteq DOMAIN posts
  BY <1>5
<1>9. S \in SUBSET DOMAIN posts
  OBVIOUS
<1> HIDE DEF S, reply
<1> QED BY <1>4, <1>5, <1>6, <1>7, <1>8, <1>9, RequestsAnswered, Zenon

LEMMA AckKeeps == AckInv /\ [AckNext]_ackVars => AckInv'
<1> SUFFICES ASSUME AckInv, [AckNext]_ackVars
             PROVE  AckInv'
  OBVIOUS
<1>1. CASE UNCHANGED ackVars
  BY <1>1 DEF ackVars, AckInv, AckTypeOK, OkIsWellFormed, OkMeansOnStream, InHand
<1> QED BY <1>1, PostStep, CollectStep, FlushLandsStep, FlushFailsStep, DirectLandsStep,
           DirectFailsStep, RestartStep DEF AckNext

\* The endpoint's requests, queue and batch keep their types.
THEOREM AckTypeCorrect == AckSpec => []AckTypeOK
<1>1. AckInv => AckTypeOK
  BY DEF AckInv
<1> QED BY AckInitial, AckKeeps, <1>1, PTL DEF AckSpec

\* A 200 to Telegram means that the update is on the stream, with any number of
\* overlapping requests, failed calls and restarts; the exception is a reply that
\* the settings allow before Redis has the update.
THEOREM OkIsOnStream == AckSpec => []OkMeansOnStream
<1>1. AckInv => OkMeansOnStream
  BY DEF AckInv
<1> QED BY AckInitial, AckKeeps, <1>1, PTL DEF AckSpec

-----------------------------------------------------------------------------
(* Slots of the in-flight limit. *)

\* Deliveries with a token in the sorted set.
Leased == {d \in Arrivals : lease[d] # 0}

\* The limit counts tokens, so the tokens are never more than it; whoever is
\* active and was not purged has one, and only active deliveries renew theirs.
SlotsInv ==
  /\ \A d \in Active : d \in overrun \/ d \in Leased
  /\ Cardinality(Leased) <= InFlightLimit
  /\ renewing \subseteq Active
  /\ \A d \in Arrivals : lease[d] <= clock + LeaseTtl
  /\ \A d \in Arrivals : stage[d] \in {"gone", "saturated"} => lease[d] <= goneAt[d] + LeaseTtl

\* Every accepted hit of the current window is in the bucket: the script drops
\* only older ones, and a failed call only adds.
WindowInv ==
  /\ IsFiniteSet(bucket) /\ IsFiniteSet(hits)
  /\ \A h \in hits : h.at <= clock /\ (Fresh(h) => h \in bucket)
  /\ WindowNeverExceeded

AdmissionInv == AdmissionTypeOK /\ SlotsInv /\ WindowInv

LEMMA AdmissionNumbers ==
  /\ InFlightLimit \in Nat \ {0} /\ LeaseTtl \in Nat \ {0} /\ SeenTtl \in Nat \ {0}
  /\ HitLimit \in Nat \ {0} /\ Window \in Nat \ {0} /\ MaxClock \in Nat \ {0}
  /\ MaxBackendFaults \in Nat
BY AdmissionAssumption

LEMMA AdmissionInitial == AdmissionInit => AdmissionInv
<1> SUFFICES ASSUME AdmissionInit PROVE AdmissionInv
  OBVIOUS
<1> USE DEF AdmissionInit
<1>1. AdmissionTypeOK
  BY AdmissionNumbers DEF AdmissionTypeOK, Stages
<1>2. SlotsInv
  <2>1. Leased = {} /\ Active = {}
    BY DEF Leased, Active
  <2>2. Cardinality(Leased) <= InFlightLimit
    BY <2>1, FS_EmptySet, AdmissionNumbers
  <2> QED BY <2>1, <2>2, AdmissionNumbers DEF SlotsInv
<1>3. WindowInv
  <2>1. \A t \in 1 .. clock : {h \in hits : h.at >= t /\ h.at < t + Window} = {}
    OBVIOUS
  <2>2. WindowNeverExceeded
    BY <2>1, FS_EmptySet, AdmissionNumbers DEF WindowNeverExceeded
  <2> QED BY <2>2, FS_EmptySet DEF WindowInv
<1> QED BY <1>1, <1>2, <1>3 DEF AdmissionInv

\* The purge of a script takes tokens that have run out and leaves the others.
LEMMA PurgeFacts ==
  ASSUME AdmissionTypeOK
  PROVE  /\ Purged \in [Arrivals -> 0 .. MaxClock + LeaseTtl]
         /\ \A d \in Arrivals : \/ Purged[d] = lease[d]
                                \/ Purged[d] = 0 /\ Expired(d)
         /\ Held = {d \in Arrivals : Purged[d] # 0} /\ Held \subseteq Leased
<1>1. /\ lease \in [Arrivals -> 0 .. MaxClock + LeaseTtl]
      /\ 0 \in 0 .. MaxClock + LeaseTtl
  BY AdmissionNumbers DEF AdmissionTypeOK
<1> QED BY <1>1 DEF Purged, Held, Leased

\* What the scripts leave of the leases: the purge, and perhaps a new token.
Leases(d) ==
  /\ overrun' = overrun \cup {e \in Active : Expired(e)}
  /\ \/ lease' = Purged
     \/ Cardinality(Held) < InFlightLimit /\ lease' = [Purged EXCEPT ![d] = clock + LeaseTtl]

LEMMA LeaseFacts ==
  ASSUME AdmissionInv, NEW d \in Arrivals, clock' = clock,
         UNCHANGED <<lease, overrun>> \/ Leases(d)
  PROVE  /\ lease' \in [Arrivals -> 0 .. MaxClock + LeaseTtl] /\ overrun' \subseteq Arrivals
         /\ Cardinality(Leased') <= InFlightLimit
         /\ \A e \in Active : e \in overrun' \/ e \in Leased'
         /\ \A e \in Arrivals : lease'[e] <= clock + LeaseTtl
         /\ \A e \in Arrivals : e # d => lease'[e] <= lease[e]
<1> USE DEF AdmissionInv
<1>0. /\ lease \in [Arrivals -> 0 .. MaxClock + LeaseTtl] /\ overrun \subseteq Arrivals
      /\ clock \in 1 .. MaxClock
      /\ \A e \in Arrivals : lease[e] \in Nat /\ lease[e] <= clock + LeaseTtl
      /\ \A e \in Active : e \in overrun \/ e \in Leased
      /\ Active \subseteq Arrivals
  BY AdmissionNumbers DEF AdmissionTypeOK, SlotsInv, Active
<1>1. CASE UNCHANGED <<lease, overrun>>
  BY <1>0, <1>1 DEF SlotsInv, Leased
<1>2. IsFiniteSet(Leased) /\ IsFiniteSet(Held) /\ Cardinality(Leased) \in Nat
      /\ Cardinality(Held) \in Nat /\ Cardinality(Held) <= Cardinality(Leased)
  <2>1. IsFiniteSet(Leased)
    BY AdmissionAssumption, FS_Subset DEF Leased
  <2> QED BY <2>1, PurgeFacts, FS_Subset, FS_CardinalityType
<1>3. CASE lease' = Purged /\ overrun' = overrun \cup {e \in Active : Expired(e)}
  <2>1. Leased' = Held
    BY <1>3, PurgeFacts DEF Leased
  <2>2. Cardinality(Leased') <= InFlightLimit
    BY <1>2, <2>1, AdmissionNumbers DEF SlotsInv
  <2>3. \A e \in Arrivals : lease'[e] = lease[e] \/ (lease'[e] = 0 /\ Expired(e))
    BY <1>3, PurgeFacts
  <2>4. \A e \in Active : e \in overrun' \/ e \in Leased'
    BY <1>0, <1>3, <2>3 DEF Leased
  <2>5. \A e \in Arrivals : lease'[e] <= lease[e] /\ lease'[e] <= clock + LeaseTtl
    BY <1>0, <2>3, AdmissionNumbers
  <2> QED BY <1>0, <1>3, <2>2, <2>4, <2>5, PurgeFacts
<1>4. CASE /\ Cardinality(Held) < InFlightLimit
           /\ lease' = [Purged EXCEPT ![d] = clock + LeaseTtl]
           /\ overrun' = overrun \cup {e \in Active : Expired(e)}
  <2>0. clock + LeaseTtl \in 0 .. MaxClock + LeaseTtl /\ clock + LeaseTtl # 0
    BY <1>0, AdmissionNumbers
  <2>1. /\ lease' \in [Arrivals -> 0 .. MaxClock + LeaseTtl]
        /\ lease'[d] = clock + LeaseTtl
        /\ \A e \in Arrivals : e # d => lease'[e] = Purged[e]
    BY <1>4, <2>0, PurgeFacts
  <2>2. Leased' = Held \cup {d}
    BY <2>0, <2>1, PurgeFacts DEF Leased
  <2>3. Cardinality(Held \cup {d}) <= Cardinality(Held) + 1
    <3> DEFINE n == Cardinality(Held)
               m == Cardinality(Held \cup {d})
    <3>1. (d \in Held => m = n) /\ (d \notin Held => m = n + 1) /\ n \in Nat
      BY <1>2, FS_AddElement
    <3> HIDE DEF n, m
    <3>2. m <= n + 1
      BY <3>1
    <3> QED BY <3>2 DEF n, m
  <2>4. Cardinality(Leased') <= InFlightLimit
    <3>1. Cardinality(Held \cup {d}) \in Nat
      BY <1>2, FS_AddElement, FS_CardinalityType
    <3> QED BY <1>2, <1>4, <2>2, <2>3, <3>1, AdmissionNumbers
  <2>5. \A e \in Arrivals : e # d => lease'[e] = lease[e] \/ (lease'[e] = 0 /\ Expired(e))
    BY <2>1, PurgeFacts
  <2>6. \A e \in Active : e \in overrun' \/ e \in Leased'
    BY <1>0, <1>4, <2>0, <2>1, <2>5 DEF Leased
  <2>7. \A e \in Arrivals : e # d => lease'[e] <= lease[e] /\ lease'[e] <= clock + LeaseTtl
    BY <1>0, <2>5, AdmissionNumbers
  <2>8. \A e \in Arrivals : lease'[e] <= clock + LeaseTtl
    BY <1>0, <2>1, <2>7, AdmissionNumbers
  <2> QED BY <1>0, <1>4, <2>1, <2>4, <2>6, <2>7, <2>8
<1> QED BY <1>1, <1>3, <1>4 DEF Leases

\* The windows hold what they held when neither time nor the hits change.
LEMMA WindowKept ==
  ASSUME WindowInv, UNCHANGED <<clock, bucket, hits>>
  PROVE  WindowInv'
BY DEF WindowInv, WindowNeverExceeded, Fresh, Rule

\* The stages in which a delivery holds a slot.
Inside == {"admitted", "accepted", "running", "leaving"}

\* One answer of the admission: a slot, another try, or the door.
LEMMA EntryStep ==
  ASSUME AdmissionInv, NEW d \in Arrivals, stage[d] \in {"new", "waiting"},
         UNCHANGED <<clock, seenUntil, bucket, hits>>,
         carries' \in [Arrivals -> Incoming \cup {"nothing"}],
         backendFaults' = backendFaults \/ Fault,
         UNCHANGED <<lease, overrun>> \/ Leases(d),
         \/ /\ stage' = [stage EXCEPT ![d] = "admitted"] /\ renewing' = renewing \cup {d}
            /\ lease'[d] # 0 /\ UNCHANGED goneAt
         \/ stage' = [stage EXCEPT ![d] = "waiting"] /\ UNCHANGED <<renewing, goneAt>>
         \/ TurnAway(d) /\ UNCHANGED renewing
  PROVE  AdmissionInv'
<1> USE DEF AdmissionInv
<1>0. /\ stage \in [Arrivals -> Stages] /\ goneAt \in [Arrivals -> 0 .. MaxClock]
      /\ renewing \subseteq Arrivals /\ clock \in 1 .. MaxClock /\ clock \in 0 .. MaxClock
      /\ Active = {e \in Arrivals : stage[e] \in Inside}
      /\ Active' = {e \in Arrivals : stage'[e] \in Inside}
  BY AdmissionNumbers DEF AdmissionTypeOK, Active, Inside
<1>1. /\ lease' \in [Arrivals -> 0 .. MaxClock + LeaseTtl] /\ overrun' \subseteq Arrivals
      /\ Cardinality(Leased') <= InFlightLimit
      /\ \A e \in Active : e \in overrun' \/ e \in Leased'
      /\ \A e \in Arrivals : lease'[e] <= clock + LeaseTtl
      /\ \A e \in Arrivals : e # d => lease'[e] <= lease[e]
  BY LeaseFacts
<1>2. d \notin renewing
  BY <1>0 DEF SlotsInv, Inside
<1>3. PICK s \in {"admitted", "waiting", "saturated"} : stage' = [stage EXCEPT ![d] = s]
  BY DEF TurnAway
<1>4. /\ stage' \in [Arrivals -> Stages] /\ stage'[d] = s
      /\ \A e \in Arrivals : e # d => stage'[e] = stage[e]
  BY <1>0, <1>3 DEF Stages
<1>5. /\ s = "admitted" => renewing' = renewing \cup {d} /\ lease'[d] # 0 /\ goneAt' = goneAt
      /\ s = "waiting" => renewing' = renewing /\ goneAt' = goneAt
      /\ s = "saturated" => renewing' = renewing /\ goneAt' = [goneAt EXCEPT ![d] = clock]
  BY <1>0, <1>3, <1>4 DEF TurnAway
<1>6. goneAt' \in [Arrivals -> 0 .. MaxClock] /\ \A e \in Arrivals : e # d => goneAt'[e] = goneAt[e]
  BY <1>0, <1>3, <1>5
<1>7. AdmissionTypeOK'
  <2>1. backendFaults' \in 0 .. MaxBackendFaults
    BY AdmissionNumbers DEF AdmissionTypeOK, Fault
  <2>2. renewing' \subseteq Arrivals
    BY <1>0, <1>3, <1>5
  <2> QED BY <1>1, <1>4, <1>6, <2>1, <2>2 DEF AdmissionTypeOK
<1>8. SlotsInv'
  <2>1. \A e \in Active' : e \in overrun' \/ e \in Leased'
    BY <1>0, <1>1, <1>3, <1>4, <1>5 DEF Inside, Leased
  <2>2. renewing' \subseteq Active'
    BY <1>0, <1>2, <1>3, <1>4, <1>5 DEF SlotsInv, Inside
  <2>3. ASSUME NEW e \in Arrivals, stage'[e] \in {"gone", "saturated"}
        PROVE lease'[e] <= goneAt'[e] + LeaseTtl
    <3>1. CASE e = d
      <4>1. goneAt'[d] = clock
        BY <1>0, <1>3, <1>4, <1>5, <2>3, <3>1
      <4> QED BY <1>1, <3>1, <4>1
    <3>2. CASE e # d
      <4>1. lease'[e] <= lease[e] /\ lease[e] <= goneAt[e] + LeaseTtl /\ goneAt'[e] = goneAt[e]
        BY <1>1, <1>4, <1>6, <2>3, <3>2 DEF SlotsInv
      <4>2. lease'[e] \in Nat /\ lease[e] \in Nat /\ goneAt[e] \in Nat
        BY <1>0, <1>1 DEF AdmissionTypeOK
      <4> QED BY <4>1, <4>2, AdmissionNumbers
    <3> QED BY <3>1, <3>2
  <2> QED BY <1>1, <2>1, <2>2, <2>3 DEF SlotsInv
<1> QED BY <1>7, <1>8, WindowKept

\* A delivery inside that stays inside.
LEMMA InsideStep ==
  ASSUME AdmissionInv, NEW d \in Arrivals, stage[d] \in Inside, NEW s \in Inside,
         stage' = [stage EXCEPT ![d] = s], UNCHANGED <<lease, renewing, overrun, goneAt, clock>>
  PROVE  /\ SlotsInv' /\ stage' \in [Arrivals -> Stages]
<1> USE DEF AdmissionInv
<1>0. stage \in [Arrivals -> Stages] /\ Inside \subseteq Stages
  BY DEF AdmissionTypeOK, Inside, Stages
<1>1. /\ stage' \in [Arrivals -> Stages] /\ stage'[d] = s
      /\ \A e \in Arrivals : e # d => stage'[e] = stage[e]
  BY <1>0
<1>2. Active' = Active /\ Leased' = Leased
  BY <1>1 DEF Active, Leased, Inside
<1>3. \A e \in Arrivals : stage'[e] \in {"gone", "saturated"} => stage'[e] = stage[e]
  BY <1>1 DEF Inside
<1> QED BY <1>1, <1>2, <1>3 DEF SlotsInv

LEMMA RenewStep ==
  ASSUME AdmissionInv, NEW d \in Arrivals, Renew(d)
  PROVE  AdmissionInv'
<1> USE DEF AdmissionInv
<1>0. /\ lease \in [Arrivals -> 0 .. MaxClock + LeaseTtl] /\ clock \in 1 .. MaxClock
      /\ clock + LeaseTtl \in 0 .. MaxClock + LeaseTtl /\ clock + LeaseTtl # 0
      /\ UNCHANGED <<clock, carries, stage, overrun, goneAt, seenUntil, bucket, hits,
                     backendFaults>>
      /\ d \in renewing /\ d \in Active
  BY AdmissionNumbers DEF AdmissionTypeOK, Renew, SlotsInv
<1>1. CASE lease[d] # 0
  <2>1. /\ lease' = [lease EXCEPT ![d] = clock + LeaseTtl] /\ renewing' = renewing
        /\ lease' \in [Arrivals -> 0 .. MaxClock + LeaseTtl]
        /\ lease'[d] = clock + LeaseTtl /\ \A e \in Arrivals : e # d => lease'[e] = lease[e]
    BY <1>0, <1>1 DEF Renew
  <2>2. Leased' = Leased /\ Active' = Active
    BY <1>0, <1>1, <2>1 DEF Leased, Active
  <2>3. stage[d] \notin {"gone", "saturated"}
    BY <1>0 DEF Active
  <2>4. SlotsInv'
    BY <1>0, <2>1, <2>2, <2>3, AdmissionNumbers DEF SlotsInv
  <2> QED BY <1>0, <2>1, <2>4, WindowKept DEF AdmissionTypeOK
<1>2. CASE lease[d] = 0
  <2>1. lease' = lease /\ renewing' = renewing \ {d}
    BY <1>2 DEF Renew
  <2> QED BY <1>0, <2>1, WindowKept DEF AdmissionTypeOK, SlotsInv, Leased, Active
<1> QED BY <1>1, <1>2

\* Deliveries that are gone hold what they had at most; a released one nothing.
LEMMA LeaveStep ==
  ASSUME AdmissionInv, NEW S \in SUBSET Arrivals,
         UNCHANGED <<clock, carries, overrun, seenUntil, bucket, hits>>,
         backendFaults' = backendFaults \/ Fault,
         \A d \in S : stage[d] \in Inside \cup {"waiting"},
         stage' = [d \in Arrivals |-> IF d \in S THEN "gone" ELSE stage[d]],
         goneAt' = [d \in Arrivals |-> IF d \in S THEN clock ELSE goneAt[d]],
         renewing' = renewing \ S,
         lease' = lease \/ \E d \in S : lease' = [lease EXCEPT ![d] = 0]
  PROVE  AdmissionInv'
<1> USE DEF AdmissionInv
<1>0. /\ lease \in [Arrivals -> 0 .. MaxClock + LeaseTtl] /\ 0 \in 0 .. MaxClock + LeaseTtl
      /\ stage \in [Arrivals -> Stages] /\ "gone" \in Stages
      /\ goneAt \in [Arrivals -> 0 .. MaxClock] /\ clock \in 1 .. MaxClock /\ clock \in 0 .. MaxClock
  BY AdmissionNumbers DEF AdmissionTypeOK, Stages
<1>1. /\ lease' \in [Arrivals -> 0 .. MaxClock + LeaseTtl]
      /\ \A e \in Arrivals : lease'[e] <= lease[e] /\ (e \notin S => lease'[e] = lease[e])
  <2>1. CASE lease' = lease
    BY <1>0, <2>1
  <2>2. ASSUME NEW d \in S, lease' = [lease EXCEPT ![d] = 0]
        PROVE  /\ lease' \in [Arrivals -> 0 .. MaxClock + LeaseTtl]
               /\ \A e \in Arrivals : lease'[e] <= lease[e] /\ (e \notin S => lease'[e] = lease[e])
    BY <1>0, <2>2
  <2> QED BY <2>1, <2>2
<1>2. AdmissionTypeOK'
  <2>1. backendFaults' \in 0 .. MaxBackendFaults
    BY AdmissionNumbers DEF AdmissionTypeOK, Fault
  <2> QED BY <1>0, <1>1, <2>1 DEF AdmissionTypeOK
<1>3. Active' = Active \ S
  BY <1>0 DEF Active
<1>4. \A e \in Active' : e \in overrun' \/ e \in Leased'
  BY <1>1, <1>3 DEF SlotsInv, Leased, Active
<1>5. Cardinality(Leased') <= InFlightLimit
  <2>1. Leased' \subseteq Leased /\ IsFiniteSet(Leased)
    <3>1. IsFiniteSet(Leased)
      BY AdmissionAssumption, FS_Subset DEF Leased
    <3>2. \A e \in Arrivals : lease'[e] \in Nat /\ lease[e] \in Nat
      BY <1>0, <1>1
    <3> QED BY <1>1, <3>1, <3>2 DEF Leased
  <2>2. Cardinality(Leased') <= Cardinality(Leased) /\ Cardinality(Leased') \in Nat
        /\ Cardinality(Leased) \in Nat
    BY <2>1, FS_Subset, FS_CardinalityType
  <2> QED BY <2>2, AdmissionNumbers DEF SlotsInv
<1>6. \A e \in Arrivals : lease'[e] <= clock' + LeaseTtl
  BY <1>0, <1>1, AdmissionNumbers DEF SlotsInv
<1>7. ASSUME NEW e \in Arrivals, stage'[e] \in {"gone", "saturated"}
      PROVE lease'[e] <= goneAt'[e] + LeaseTtl
  BY <1>0, <1>1, <1>7, AdmissionNumbers DEF SlotsInv
<1>8. renewing' \subseteq Active'
  BY <1>3 DEF SlotsInv
<1> QED BY <1>2, <1>4, <1>5, <1>6, <1>7, <1>8, WindowKept DEF SlotsInv

-----------------------------------------------------------------------------
(* The sliding window. *)

\* The accepted hits of the window that starts at t.
InWindow(t) == {h \in hits : h.at >= t /\ h.at < t + Window}

\* A hit that is accepted now falls into windows whose other hits the script
\* has just counted.
LEMMA AcceptFits ==
  ASSUME AdmissionInv, NEW hit \in Hit, hit.at = clock, UNCHANGED clock,
         Cardinality({h \in bucket : Fresh(h)}) < HitLimit,
         hits' = hits \cup {hit}, NEW t \in 1 .. clock
  PROVE  Cardinality(InWindow(t)') <= HitLimit
<1> USE DEF AdmissionInv
<1>0. /\ clock \in Nat /\ t \in Nat /\ hits \subseteq Hit
      /\ \A h \in Hit : h.at \in Nat
  BY DEF AdmissionTypeOK, Hit
<1>1. CASE t + Window <= clock
  <2>1. InWindow(t)' = InWindow(t)
    BY <1>0, <1>1, AdmissionNumbers DEF InWindow
  <2> QED BY <2>1 DEF InWindow, WindowInv, WindowNeverExceeded
<1>2. CASE t + Window > clock
  <2> DEFINE recent == {h \in bucket : Fresh(h)}
             seen == InWindow(t)'
  <2>1. seen \subseteq recent \cup {hit}
    <3> SUFFICES ASSUME NEW h \in hits, h.at >= t PROVE h \in bucket /\ Fresh(h)
      BY DEF InWindow
    <3>1. h.at + Window > clock
      BY <1>0, <1>2, AdmissionNumbers
    <3> QED BY <3>1 DEF WindowInv, Fresh, Rule
  <2>2. IsFiniteSet(recent) /\ Cardinality(recent) \in Nat /\ Cardinality(recent) < HitLimit
    <3>1. IsFiniteSet(recent)
      BY FS_Subset DEF WindowInv
    <3> QED BY <3>1, FS_CardinalityType
  <2> HIDE DEF recent, seen
  <2> DEFINE n == Cardinality(recent)
             m == Cardinality(recent \cup {hit})
  <2>3. IsFiniteSet(recent \cup {hit}) /\ (m = n \/ m = n + 1)
    BY <2>2, FS_AddElement
  <2>4. m <= HitLimit /\ m \in Nat
    <3>1. n \in Nat /\ n < HitLimit
      BY <2>2
    <3> HIDE DEF n, m
    <3> QED BY <2>3, <3>1, AdmissionNumbers
  <2>5. Cardinality(seen) <= m /\ Cardinality(seen) \in Nat
    BY <2>1, <2>3, FS_Subset, FS_CardinalityType
  <2> HIDE DEF m
  <2>6. Cardinality(seen) <= HitLimit
    BY <2>4, <2>5, AdmissionNumbers
  <2> QED BY <2>6 DEF seen
<1> QED BY <1>0, <1>1, <1>2, AdmissionNumbers

LEMMA LimitStep ==
  ASSUME AdmissionInv, NEW d \in Arrivals, LimitRate(d)
  PROVE  AdmissionInv'
<1> USE DEF AdmissionInv
<1> DEFINE recent == {h \in bucket : Fresh(h)}
           hit    == [member |-> d, at |-> clock]
           room   == Cardinality(recent) < HitLimit
<1>0. /\ stage[d] \in Inside
      /\ UNCHANGED <<clock, carries, lease, renewing, overrun, goneAt, seenUntil>>
  BY DEF LimitRate, Inside
<1>1. \E s \in Inside : stage' = [stage EXCEPT ![d] = s]
  BY DEF LimitRate, Inside
<1>2. SlotsInv' /\ stage' \in [Arrivals -> Stages]
  BY <1>0, <1>1, InsideStep
<1>3. /\ hit \in Hit /\ hit.at = clock /\ IsFiniteSet(recent) /\ recent \subseteq bucket
      /\ bucket \subseteq Hit /\ hits \subseteq Hit /\ clock \in Nat
      /\ \A h \in hits : h.at <= clock /\ (Fresh(h) => h \in recent)
      /\ Fresh(hit)
  <2>1. IsFiniteSet(recent)
    BY FS_Subset DEF WindowInv
  <2>2. hit \in Hit /\ hit.at = clock /\ clock \in Nat
    BY DEF AdmissionTypeOK, Hit
  <2> QED BY <2>1, <2>2, AdmissionNumbers DEF AdmissionTypeOK, WindowInv, Fresh, Rule
<1>4. /\ \/ room /\ bucket' = recent \cup {hit} /\ hits' = hits \cup {hit}
         \/ bucket' \in {bucket, recent, recent \cup {hit}} /\ hits' = hits
      /\ backendFaults' = backendFaults \/ Fault
  BY DEF LimitRate, Rule
<1> HIDE DEF recent, hit
<1>5. AdmissionTypeOK'
  <2>1. backendFaults' \in 0 .. MaxBackendFaults
    BY <1>4, AdmissionNumbers DEF AdmissionTypeOK, Fault
  <2> QED BY <1>0, <1>2, <1>3, <1>4, <2>1 DEF AdmissionTypeOK
<1>6. WindowInv'
  <2>1. IsFiniteSet(recent \cup {hit}) /\ IsFiniteSet(hits \cup {hit})
    BY <1>3, FS_AddElement DEF WindowInv
  <2>2. IsFiniteSet(bucket') /\ IsFiniteSet(hits')
    BY <1>3, <1>4, <2>1 DEF WindowInv
  <2>3. \A h \in hits' : h.at <= clock' /\ (Fresh(h)' => h \in bucket')
    BY <1>0, <1>3, <1>4 DEF Fresh, Rule
  <2>4. WindowNeverExceeded'
    <3>1. CASE room /\ hits' = hits \cup {hit}
      <4>1. \A t \in 1 .. clock : Cardinality(InWindow(t)') <= HitLimit
        BY <1>0, <1>3, <3>1, AcceptFits DEF recent
      <4> QED BY <1>0, <4>1 DEF InWindow, WindowNeverExceeded
    <3>2. CASE hits' = hits
      BY <1>0, <3>2 DEF WindowInv, WindowNeverExceeded
    <3> QED BY <1>4, <3>1, <3>2
  <2> QED BY <2>2, <2>3, <2>4 DEF WindowInv
<1> QED BY <1>2, <1>5, <1>6

LEMMA TickStep ==
  ASSUME AdmissionInv, ClockTick
  PROVE  AdmissionInv'
<1> USE DEF AdmissionInv
<1>0. /\ clock \in Nat /\ clock' = clock + 1 /\ clock' \in 1 .. MaxClock
      /\ UNCHANGED <<carries, stage, lease, renewing, overrun, goneAt, seenUntil, bucket, hits>>
      /\ backendFaults' = backendFaults \/ Fault
  BY AdmissionNumbers DEF AdmissionTypeOK, ClockTick
<1>1. AdmissionTypeOK'
  <2>1. backendFaults' \in 0 .. MaxBackendFaults
    BY <1>0, AdmissionNumbers DEF AdmissionTypeOK, Fault
  <2> QED BY <1>0, <2>1 DEF AdmissionTypeOK
<1>2. SlotsInv'
  <2>1. \A d \in Arrivals : lease[d] \in Nat
    BY AdmissionNumbers DEF AdmissionTypeOK
  <2> QED BY <1>0, <2>1, AdmissionNumbers DEF SlotsInv, Leased, Active
<1>3. \A h \in hits : h.at \in Nat /\ h.at <= clock
  BY DEF AdmissionTypeOK, WindowInv, Hit
<1>4. \A h \in hits : h.at <= clock' /\ (Fresh(h)' => h \in bucket')
  BY <1>0, <1>3, AdmissionNumbers DEF WindowInv, Fresh, Rule
<1>5. WindowNeverExceeded'
  <2> SUFFICES ASSUME NEW t \in 1 .. clock'
               PROVE  Cardinality({h \in hits : h.at >= t /\ h.at < t + Window}) <= HitLimit
    BY <1>0 DEF WindowNeverExceeded
  <2>1. CASE t \in 1 .. clock
    BY <2>1 DEF WindowInv, WindowNeverExceeded
  <2>2. CASE t = clock + 1
    <3>1. {h \in hits : h.at >= t /\ h.at < t + Window} = {}
      BY <1>0, <1>3, <2>2
    <3> QED BY <3>1, FS_EmptySet, AdmissionNumbers
  <2> QED BY <1>0, <2>1, <2>2
<1> QED BY <1>0, <1>1, <1>2, <1>4, <1>5 DEF WindowInv

LEMMA AdmissionKeeps == AdmissionInv /\ [AdmissionNext]_admissionVars => AdmissionInv'
<1> SUFFICES ASSUME AdmissionInv, [AdmissionNext]_admissionVars PROVE AdmissionInv'
  OBVIOUS
<1> USE DEF AdmissionInv
<1>1. ASSUME NEW d \in Arrivals,
             \/ Acquire(d) /\ UNCHANGED <<goneAt, backendFaults>>
             \/ /\ Full /\ stage' = [stage EXCEPT ![d] = "waiting"]
                /\ UNCHANGED <<goneAt, backendFaults>>
             \/ Full /\ TurnAway(d) /\ UNCHANGED backendFaults
             \/ BackendDown(d) /\ TurnAway(d)
      PROVE /\ backendFaults' = backendFaults \/ Fault
            /\ UNCHANGED <<lease, overrun>> \/ Leases(d)
            /\ \/ /\ stage' = [stage EXCEPT ![d] = "admitted"] /\ renewing' = renewing \cup {d}
                  /\ lease'[d] # 0 /\ UNCHANGED goneAt
               \/ stage' = [stage EXCEPT ![d] = "waiting"] /\ UNCHANGED <<renewing, goneAt>>
               \/ TurnAway(d) /\ UNCHANGED renewing
  <2>1. CASE Acquire(d) /\ UNCHANGED <<goneAt, backendFaults>>
    <3>1. lease' = [Purged EXCEPT ![d] = clock + LeaseTtl] /\ DOMAIN Purged = Arrivals
      BY <2>1 DEF Acquire, Purged
    <3>2. lease'[d] # 0
      BY <3>1, AdmissionNumbers DEF AdmissionTypeOK
    <3> QED BY <2>1, <3>1, <3>2 DEF Acquire, Leases
  <2>2. CASE Full /\ stage' = [stage EXCEPT ![d] = "waiting"] /\ UNCHANGED <<goneAt, backendFaults>>
    BY <2>2 DEF Full, Leases
  <2>3. CASE Full /\ TurnAway(d) /\ UNCHANGED backendFaults
    BY <2>3 DEF Full, Leases
  <2>4. CASE BackendDown(d) /\ TurnAway(d)
    BY <2>4 DEF BackendDown, Leases
  <2> QED BY <1>1, <2>1, <2>2, <2>3, <2>4
<1>2. ASSUME NEW d \in Arrivals, NEW u \in Incoming, Arrive(d, u) PROVE AdmissionInv'
  <2>1. carries' \in [Arrivals -> Incoming \cup {"nothing"}]
    BY <1>2 DEF Arrive, AdmissionTypeOK
  <2>2. stage[d] \in {"new", "waiting"} /\ UNCHANGED <<clock, seenUntil, bucket, hits>>
    BY <1>2 DEF Arrive
  <2> QED BY <1>1, <1>2, <2>1, <2>2, EntryStep DEF Arrive
<1>3. ASSUME NEW d \in Arrivals, TryAgain(d) PROVE AdmissionInv'
  <2>1. /\ carries' \in [Arrivals -> Incoming \cup {"nothing"}]
        /\ stage[d] \in {"new", "waiting"} /\ UNCHANGED <<clock, seenUntil, bucket, hits>>
    BY <1>3 DEF TryAgain, AdmissionTypeOK
  <2> QED BY <1>1, <1>3, <2>1, EntryStep DEF TryAgain
<1>4. ASSUME NEW d \in Arrivals, Release(d) PROVE AdmissionInv'
  <2> DEFINE S == {d}
  <2>1. /\ S \in SUBSET Arrivals /\ \A e \in S : stage[e] \in Inside \cup {"waiting"}
        /\ UNCHANGED <<clock, carries, overrun, seenUntil, bucket, hits>>
        /\ backendFaults' = backendFaults \/ Fault
        /\ renewing' = renewing \ S
        /\ lease' = lease \/ \E e \in S : lease' = [lease EXCEPT ![e] = 0]
    BY <1>4 DEF Release, StopRenewing, Inside
  <2>2. /\ stage' = [e \in Arrivals |-> IF e \in S THEN "gone" ELSE stage[e]]
        /\ goneAt' = [e \in Arrivals |-> IF e \in S THEN clock ELSE goneAt[e]]
    BY <1>4 DEF Release, AdmissionTypeOK
  <2> HIDE DEF S
  <2> QED BY <2>1, <2>2, LeaveStep
<1>5. ASSUME NEW d \in Arrivals, Guard(d) PROVE AdmissionInv'
  <2>1. /\ stage[d] \in Inside /\ \E s \in Inside : stage' = [stage EXCEPT ![d] = s]
        /\ UNCHANGED <<clock, carries, lease, renewing, overrun, goneAt, bucket, hits>>
        /\ backendFaults' = backendFaults \/ Fault
        /\ seenUntil' = seenUntil \/ Remember(UpdateOf(d))
    BY <1>5 DEF Guard, Inside
  <2>2. SlotsInv' /\ stage' \in [Arrivals -> Stages]
    BY <2>1, InsideStep
  <2>3. seenUntil' \in [Incoming -> 0 .. MaxClock + SeenTtl]
    <3>1. clock + SeenTtl \in 0 .. MaxClock + SeenTtl
      BY AdmissionNumbers DEF AdmissionTypeOK
    <3> QED BY <2>1, <3>1 DEF Remember, AdmissionTypeOK
  <2>4. backendFaults' \in 0 .. MaxBackendFaults
    BY <2>1, AdmissionNumbers DEF AdmissionTypeOK, Fault
  <2> QED BY <2>1, <2>2, <2>3, <2>4, WindowKept DEF AdmissionTypeOK
<1>6. ASSUME NEW d \in Arrivals, HandlerEnds(d) PROVE AdmissionInv'
  <2>1. /\ stage[d] \in Inside /\ \E s \in Inside : stage' = [stage EXCEPT ![d] = s]
        /\ UNCHANGED <<clock, carries, lease, renewing, overrun, goneAt, seenUntil, bucket,
                       hits, backendFaults>>
    BY <1>6 DEF HandlerEnds, Inside
  <2>2. SlotsInv' /\ stage' \in [Arrivals -> Stages]
    BY <2>1, InsideStep
  <2> QED BY <2>1, <2>2, WindowKept DEF AdmissionTypeOK
<1>7. ASSUME NEW S \in SUBSET (Active \cup {d \in Arrivals : stage[d] = "waiting"}), ReplicaCrash(S)
      PROVE AdmissionInv'
  <2>1. S \in SUBSET Arrivals /\ \A d \in S : stage[d] \in Inside \cup {"waiting"}
    BY <1>7 DEF Active, Inside
  <2> QED BY <1>7, <2>1, LeaveStep DEF ReplicaCrash
<1>8. CASE UNCHANGED admissionVars
  BY <1>8, WindowKept DEF admissionVars, AdmissionTypeOK, SlotsInv, Leased, Active
<1> QED
  BY <1>2, <1>3, <1>4, <1>5, <1>6, <1>7, <1>8, RenewStep, LimitStep, TickStep
     DEF AdmissionNext

\* Leases, keys, counters and hits keep their types and bounds.
THEOREM AdmissionTypeCorrect == AdmissionSpec => []AdmissionTypeOK
<1>1. AdmissionInv => AdmissionTypeOK
  BY DEF AdmissionInv
<1> QED BY AdmissionInitial, AdmissionKeeps, <1>1, PTL DEF AdmissionSpec

\* However scripts fail, leases lapse and replicas die, the deliveries whose
\* lease was not purged under them respect the limit, and a slot nobody uses
\* any more is back within the lifetime of a lease.
THEOREM SlotsComeBack == AdmissionSpec => []SlotsHoldAndComeBack
<1>1. AdmissionInv => SlotsHoldAndComeBack
  <2> SUFFICES ASSUME AdmissionInv PROVE Cardinality(Active \ overrun) <= InFlightLimit
    BY DEF AdmissionInv, SlotsInv, SlotsHoldAndComeBack
  <2>1. Active \ overrun \subseteq Leased /\ IsFiniteSet(Leased)
    <3>1. IsFiniteSet(Leased)
      BY AdmissionAssumption, FS_Subset DEF Leased
    <3> QED BY <3>1 DEF AdmissionInv, SlotsInv
  <2>2. /\ Cardinality(Active \ overrun) <= Cardinality(Leased)
        /\ Cardinality(Active \ overrun) \in Nat /\ Cardinality(Leased) \in Nat
    BY <2>1, FS_Subset, FS_CardinalityType
  <2> QED BY <2>2, AdmissionNumbers DEF AdmissionInv, SlotsInv
<1> QED BY AdmissionInitial, AdmissionKeeps, <1>1, PTL DEF AdmissionSpec

\* No window, wherever it starts, has more accepted actions than the rule
\* allows, although calls fail after the script has run.
THEOREM WindowHolds == AdmissionSpec => []WindowNeverExceeded
<1>1. AdmissionInv => WindowNeverExceeded
  BY DEF AdmissionInv, WindowInv
<1> QED BY AdmissionInitial, AdmissionKeeps, <1>1, PTL DEF AdmissionSpec

-----------------------------------------------------------------------------
(* The client. *)

\* A call that has not ended has not been served: only the last response it
\* gets can bring an item.
Unserved == \A c \in bankCalls : c.request # "done" => c.served = 0

BankInv == BankTypeOK /\ ServedAtMostOnce /\ Unserved

\* A step that changes one call keeps the invariant if the call that replaces
\* it does.
LEMMA OneCall ==
  ASSUME BankInv, NEW c \in bankCalls, NEW d \in BankCall, Replace(c, d),
         d.served <= 1, d.request # "done" => d.served = 0
  PROVE  /\ bankCalls' \subseteq BankCall
         /\ \A e \in bankCalls' : e.served <= 1 /\ (e.request # "done" => e.served = 0)
BY DEF Replace, BankInv, BankTypeOK, ServedAtMostOnce, Unserved

\* The next request of a call is a first attempt.
LEMMA AskFacts ==
  ASSUME NEW c \in BankCall, NEW request \in Requests
  PROVE  /\ Ask(c, request) \in BankCall
         /\ Ask(c, request).served = c.served
<1>1. 1 \in 1 .. MaxRetries + 1 /\ request \in Requests \cup {"done"}
  BY BankAssumption
<1>2. [c EXCEPT !.request = request] \in BankCall
  BY <1>1 DEF BankCall
<1>3. Ask(c, request) = [[c EXCEPT !.request = request] EXCEPT !.attempt = 1]
  BY DEF Ask, BankCall
<1> QED BY <1>1, <1>2, <1>3 DEF BankCall

LEMMA BankInitial == BankInit => BankInv
BY BankAssumption DEF BankInit, BankInv, BankTypeOK, ServedAtMostOnce, Unserved

LEMMA BankKeeps == BankInv /\ [BankNext]_bankVars => BankInv'
<1> SUFFICES ASSUME BankInv, [BankNext]_bankVars
             PROVE  BankInv'
  OBVIOUS
<1> USE BankAssumption
<1>1. ASSUME NEW request \in Requests, NEW themed \in BOOLEAN, StartCall(request, themed)
      PROVE  BankInv'
  <2> PICK n \in 1 .. MaxCalls :
         bankCalls' = bankCalls \cup
           {[n |-> n, request |-> request, attempt |-> 1, themed |-> themed, served |-> 0]}
    BY <1>1 DEF StartCall
  <2>1. [n |-> n, request |-> request, attempt |-> 1, themed |-> themed, served |-> 0]
           \in BankCall
    BY DEF BankCall
  <2> QED BY <1>1, <2>1 DEF StartCall, BankInv, BankTypeOK, ServedAtMostOnce, Unserved
<1>2. ASSUME NEW c \in bankCalls, Retry(c)
      PROVE  BankInv'
  <2>1. PICK d \in {c, Served(c)} : Replace(c, [d EXCEPT !.attempt = @ + 1])
    BY <1>2 DEF Retry
  <2>2. d = c /\ c \in BankCall /\ c.request # "done" /\ c.attempt <= MaxRetries
    BY <1>2, <2>1 DEF Retry, Retriable, Served, BankInv, BankTypeOK
  <2>3. [c EXCEPT !.attempt = @ + 1] \in BankCall
    BY <2>2 DEF BankCall
  <2>4. c.served = 0
    BY <2>2 DEF BankInv, Unserved
  <2> QED BY <1>2, <2>1, <2>2, <2>3, <2>4, OneCall
          DEF Retry, BankInv, BankTypeOK, ServedAtMostOnce, Unserved, BankCall
<1>3. ASSUME NEW c \in bankCalls, FailTransiently(c)
      PROVE  BankInv'
  <2>1. PICK d \in {c, Served(c)} : Replace(c, [d EXCEPT !.request = "done"])
    BY <1>3 DEF FailTransiently, EndCallOf
  <2>2. c \in BankCall /\ c.served = 0
    BY <1>3 DEF FailTransiently, BankInv, BankTypeOK, Unserved
  <2>3. d \in BankCall /\ d.served <= 1
    BY <2>1, <2>2 DEF Served, BankCall
  <2>4. [d EXCEPT !.request = "done"] \in BankCall /\ [d EXCEPT !.request = "done"].served <= 1
        /\ [d EXCEPT !.request = "done"].request = "done"
    BY <2>3 DEF BankCall
  <2>5. /\ failures' \in 0 .. Threshold /\ openTicks' \in 0 .. ResetTicks
        /\ openTicks' > 0 => failures' = Threshold
    BY <1>3 DEF FailTransiently, BankInv, BankTypeOK
  <2> QED BY <2>1, <2>4, <2>5, OneCall DEF BankInv, BankTypeOK, ServedAtMostOnce, Unserved
<1>4. ASSUME NEW c \in bankCalls, FailForGood(c)
      PROVE  BankInv'
  <2>1. c \in BankCall /\ c.served = 0 /\ Replace(c, [c EXCEPT !.request = "done"])
    BY <1>4 DEF FailForGood, EndCallOf, BankInv, BankTypeOK, Unserved
  <2>2. [c EXCEPT !.request = "done"] \in BankCall /\ [c EXCEPT !.request = "done"].served = 0
    BY <2>1 DEF BankCall
  <2> QED BY <1>4, <2>1, <2>2, OneCall
          DEF FailForGood, BankInv, BankTypeOK, ServedAtMostOnce, Unserved
<1>5. ASSUME NEW c \in bankCalls, RefuseTheme(c)
      PROVE  BankInv'
  <2>1. c \in BankCall /\ c.served = 0
    BY <1>5 DEF RefuseTheme, BankInv, BankTypeOK, Unserved
  <2>2. PICK d \in {Ask(c, "nextAnyTheme"), [c EXCEPT !.request = "done"]} : Replace(c, d)
    BY <1>5 DEF RefuseTheme, EndCallOf
  <2>3. d \in BankCall /\ d.served = 0
    <3>1. [c EXCEPT !.request = "done"] \in BankCall /\ [c EXCEPT !.request = "done"].served = 0
      BY <2>1 DEF BankCall
    <3>2. "nextAnyTheme" \in Requests
      BY DEF Requests
    <3> QED BY <2>1, <2>2, <3>1, <3>2, AskFacts
  <2> QED BY <1>5, <2>2, <2>3, OneCall
          DEF RefuseTheme, BankInv, BankTypeOK, ServedAtMostOnce, Unserved
<1>6. ASSUME NEW c \in bankCalls, Succeed(c)
      PROVE  BankInv'
  <2>1. c \in BankCall /\ c.served = 0
    BY <1>6 DEF Succeed, BankInv, BankTypeOK, Unserved
  <2>2. PICK d : Replace(c, d) /\ d \in BankCall /\ d.served <= 1
                 /\ (d.request # "done" => d.served = 0)
    <3>1. CASE EndCallOf(c, c)
      BY <2>1, <3>1 DEF EndCallOf, BankCall
    <3>2. CASE \E found \in BOOLEAN : Replace(c, [Ask(c, "next") EXCEPT !.themed = found])
      <4>1. PICK found \in BOOLEAN : Replace(c, [Ask(c, "next") EXCEPT !.themed = found])
        BY <3>2
      <4>2. Ask(c, "next") \in BankCall /\ Ask(c, "next").served = 0
        BY <2>1, AskFacts DEF Requests
      <4>3. [Ask(c, "next") EXCEPT !.themed = found] \in BankCall
            /\ [Ask(c, "next") EXCEPT !.themed = found].served = 0
        BY <4>2 DEF BankCall
      <4> DEFINE e == [Ask(c, "next") EXCEPT !.themed = found]
      <4>4. Replace(c, e) /\ e \in BankCall /\ e.served = 0
        BY <4>1, <4>3
      <4> HIDE DEF e
      <4> QED BY <4>4
    <3>3. CASE EndCallOf(c, Served(c))
      BY <2>1, <3>3 DEF EndCallOf, Served, BankCall
    <3> QED BY <1>6, <3>1, <3>2, <3>3 DEF Succeed
  <2> QED BY <1>6, <2>2, OneCall DEF Succeed, BankInv, BankTypeOK, ServedAtMostOnce, Unserved
<1>7. ASSUME NEW c \in bankCalls, Return(c)
      PROVE  BankInv'
  BY <1>7 DEF Return, BankInv, BankTypeOK, ServedAtMostOnce, Unserved
<1>8. CASE BankTick
  BY <1>8 DEF BankTick, BankInv, BankTypeOK, ServedAtMostOnce, Unserved
<1>9. CASE UNCHANGED bankVars
  BY <1>9 DEF bankVars, BankInv, BankTypeOK, ServedAtMostOnce, Unserved
<1> QED BY <1>1, <1>2, <1>3, <1>4, <1>5, <1>6, <1>7, <1>8, <1>9 DEF BankNext, Requests

\* The circuit breaker's counters and the calls keep their types; an open
\* circuit has counted the failures that opened it.
THEOREM BankTypeCorrect == BankSpec => []BankTypeOK
<1>1. BankInv => BankTypeOK
  BY DEF BankInv
<1> QED BY BankInitial, BankKeeps, <1>1, PTL DEF BankSpec

\* However responses are lost and calls overlap, a call for a question gets at
\* most one item out of the bank.
THEOREM BankServesOnce == BankSpec => []ServedAtMostOnce
<1>1. BankInv => ServedAtMostOnce
  BY DEF BankInv
<1> QED BY BankInitial, BankKeeps, <1>1, PTL DEF BankSpec

-----------------------------------------------------------------------------
(* The caches. *)

\* A value that has been cached k times at most: as old as k - 1 full TTLs and
\* what has gone of the last one.
FreshEntry(e, k) == e.age + e.left <= Oldest(k) + 1

Freshness ==
  /\ \A p \in Processes :
       /\ localThemes[p] # Missing => FreshEntry(localThemes[p], 2)
       /\ localCounts[p] # Missing => FreshEntry(localCounts[p], 4)
  /\ sharedThemes # Missing => FreshEntry(sharedThemes, 1)
  /\ sharedCounts # Missing => FreshEntry(sharedCounts, 3)

CacheInv == CacheTypeOK /\ Freshness

\* A value cached now is fresh for one more TTL than the entry it was read from.
LEMMA EntryFresh ==
  ASSUME NEW age \in Nat, NEW k \in Nat, age <= Oldest(k)
  PROVE  Entry(age) \in Cached /\ FreshEntry(Entry(age), k + 1)
<1>1. Oldest(k + 1) = Oldest(k) + CacheTtl - 1 /\ Oldest(k) \in Int
  BY CacheAssumption DEF Oldest
<1> QED BY <1>1, CacheAssumption DEF Entry, Cached, FreshEntry

\* An entry that is still there has a tick left, so its value is not older
\* than its number of TTLs.
LEMMA FreshAge ==
  ASSUME NEW e \in Cached, NEW k \in Nat, FreshEntry(e, k)
  PROVE  e.age \in Nat /\ e.age <= Oldest(k)
<1>1. Oldest(k) \in Int
  BY CacheAssumption DEF Oldest
<1> QED BY <1>1, CacheAssumption DEF Cached, FreshEntry

\* The bounds grow with the number of times a value is cached.
LEMMA OldestGrows ==
  /\ Oldest(0) = 0
  /\ \A j, k \in Nat : j <= k => Oldest(j) <= Oldest(k)
  /\ \A k \in Nat : Oldest(k) \in Nat
BY CacheAssumption DEF Oldest

\* Time takes from what is left what it adds to the age.
LEMMA OlderFresh ==
  ASSUME NEW e \in Cached \cup {Missing}, NEW k \in Nat, e # Missing => FreshEntry(e, k)
  PROVE  /\ Older(e) \in Cached \cup {Missing}
         /\ Older(e) # Missing => FreshEntry(Older(e), k)
BY CacheAssumption DEF Older, Cached, FreshEntry, Oldest

LEMMA CacheInitial == CacheInit => CacheInv
BY DEF CacheInit, CacheInv, CacheTypeOK, Freshness

LEMMA CacheKeeps == CacheInv /\ [CacheNext]_cacheVars => CacheInv'
<1> SUFFICES ASSUME CacheInv, [CacheNext]_cacheVars
             PROVE  CacheInv'
  OBVIOUS
<1> USE DEF CacheInv, CacheTypeOK, Freshness
<1>0. /\ 0 <= Oldest(0)
      /\ Entry(0) \in Cached
      /\ FreshEntry(Entry(0), 1) /\ FreshEntry(Entry(0), 2) /\ FreshEntry(Entry(0), 3) /\ FreshEntry(Entry(0), 4)
  <2>1. \A k \in Nat : Oldest(k) \in Nat
    BY OldestGrows
  <2>2. ASSUME NEW k \in Nat
        PROVE  Entry(0) \in Cached /\ FreshEntry(Entry(0), k + 1)
    <3>1. 0 \in Nat /\ 0 <= Oldest(k)
      BY <2>1
    <3> QED BY <3>1, EntryFresh
  <2>3. \A k \in {0, 1, 2, 3} : FreshEntry(Entry(0), k + 1)
    BY <2>2
  <2> QED BY <2>1, <2>2, <2>3
<1>1. ASSUME NEW p \in Processes, ReadThemes(p)
      PROVE  CacheInv'
  <2>1. Entry(sharedThemes.age) \in Cached /\ FreshEntry(Entry(sharedThemes.age), 2)
    BY <1>1, FreshAge, EntryFresh DEF ReadThemes
  <2> QED BY <1>1, <2>1 DEF ReadThemes, ReadShared
<1>2. ASSUME NEW p \in Processes, ReadCounts(p)
      PROVE  CacheInv'
  <2>1. Entry(sharedCounts.age) \in Cached /\ FreshEntry(Entry(sharedCounts.age), 4)
    BY <1>2, FreshAge, EntryFresh DEF ReadCounts
  <2> QED BY <1>2, <2>1 DEF ReadCounts, ReadShared
<1>3. ASSUME NEW p \in Processes, FetchThemes(p)
      PROVE  CacheInv'
  BY <1>0, <1>3 DEF FetchThemes, RememberThemes
<1>4. ASSUME NEW p \in Processes, FetchCounts(p)
      PROVE  CacheInv'
  BY <1>0, <1>4 DEF FetchCounts, RememberCounts
<1>5. ASSUME NEW p \in Processes, CountsFromThemes(p)
      PROVE  CacheInv'
  \* The age of themes that a process or Redis still has.
  <2>1. ASSUME NEW age \in Nat, age <= Oldest(2)
        PROVE  Entry(age) \in Cached /\ FreshEntry(Entry(age), 3) /\ FreshEntry(Entry(age), 4)
    <3>1. age <= Oldest(3)
      BY <2>1, OldestGrows
    <3> QED BY <2>1, <3>1, EntryFresh
  <2>2. CASE /\ localThemes[p] # Missing
             /\ RememberCounts(p, localThemes[p].age)
             /\ UNCHANGED <<localThemes, sharedThemes>>
    <3>1. localThemes[p].age \in Nat /\ localThemes[p].age <= Oldest(2)
      BY <2>2, FreshAge
    <3> QED BY <2>1, <2>2, <3>1 DEF RememberCounts
  <2>3. CASE /\ sharedThemes # Missing
             /\ localThemes' = [localThemes EXCEPT ![p] = Entry(sharedThemes.age)]
             /\ sharedThemes' = ReadShared(sharedThemes)
             /\ RememberCounts(p, sharedThemes.age)
    <3>1. sharedThemes.age \in Nat /\ sharedThemes.age <= Oldest(1)
      BY <2>3, FreshAge
    <3>2. sharedThemes.age <= Oldest(2)
      BY <3>1, OldestGrows
    <3>3. Entry(sharedThemes.age) \in Cached /\ FreshEntry(Entry(sharedThemes.age), 2)
      BY <3>1, EntryFresh
    <3> QED BY <2>1, <2>3, <3>1, <3>2, <3>3 DEF RememberCounts, ReadShared
  <2>4. CASE RememberThemes(p) /\ RememberCounts(p, 0)
    BY <1>0, <2>4 DEF RememberThemes, RememberCounts
  <2> QED BY <1>5, <2>2, <2>3, <2>4 DEF CountsFromThemes
<1>6. CASE CacheTick
  <2>1. \A p \in Processes :
          /\ Older(localThemes[p]) \in Cached \cup {Missing}
          /\ Older(localThemes[p]) # Missing => FreshEntry(Older(localThemes[p]), 2)
          /\ Older(localCounts[p]) \in Cached \cup {Missing}
          /\ Older(localCounts[p]) # Missing => FreshEntry(Older(localCounts[p]), 4)
    BY OlderFresh
  <2>2. /\ Older(sharedThemes) \in Cached \cup {Missing}
        /\ Older(sharedThemes) # Missing => FreshEntry(Older(sharedThemes), 1)
        /\ Older(sharedCounts) \in Cached \cup {Missing}
        /\ Older(sharedCounts) # Missing => FreshEntry(Older(sharedCounts), 3)
    BY OlderFresh
  <2> QED BY <1>6, <2>1, <2>2 DEF CacheTick
<1>7. CASE UNCHANGED cacheVars
  BY <1>7 DEF cacheVars
<1> QED BY <1>1, <1>2, <1>3, <1>4, <1>5, <1>6, <1>7 DEF CacheNext

\* Both levels of both caches hold entries of their type or nothing.
THEOREM CacheTypeCorrect == CacheSpec => []CacheTypeOK
<1>1. CacheInv => CacheTypeOK
  BY DEF CacheInv
<1> QED BY CacheInitial, CacheKeeps, <1>1, PTL DEF CacheSpec

\* Processes that read from each other never hand a value on for longer than the
\* caches it can pass: themes are used for two TTLs, an availability for four.
THEOREM CachesWearOut == CacheSpec => []ValuesWearOut
<1>1. CacheInv => ValuesWearOut
  <2> SUFFICES ASSUME CacheInv, NEW p \in Processes
               PROVE  /\ localThemes[p] # Missing => localThemes[p].age <= Oldest(2)
                      /\ localCounts[p] # Missing => localCounts[p].age <= Oldest(4)
    BY DEF ValuesWearOut
  <2> QED BY FreshAge DEF CacheInv, CacheTypeOK, Freshness
<1> QED BY CacheInitial, CacheKeeps, <1>1, PTL DEF CacheSpec

-----------------------------------------------------------------------------
(* The local catalog: one version, and one row of an item. *)

\* OneCatalogVersion says nothing of the imports under way.  Those that run
\* together are of one version (unless versionsCrossed), and one that has
\* passed the check found no other version; a flushed one is alone with its
\* version, so the keys it found free stay free until it commits.
VersionInv ==
  ~versionsCrossed =>
    /\ \A m, o \in imports : m.version = o.version
    /\ \A m \in imports : m.stage # "loaded" => SameVersion(m)
    /\ \A v, w \in catalogs : v = w

RowsKeyed ==
  /\ \A r, t \in catalogItems : r.version = t.version /\ r.item = t.item => r = t
  /\ \A m, o \in imports :
       m.stage = "flushed" /\ o.stage = "flushed" /\ m.version = o.version => m = o
  /\ \A m \in imports : m.stage = "flushed" =>
       \A i \in Added(m), r \in catalogItems : ~(r.version = m.version /\ r.item = i)

\* Between its two queries a search knows what the first one found, unless an
\* import was committed meanwhile.
SearchInv ==
  \A s \in searches : \/ s.crossed
                      \/ /\ Seek(s.excluded, s.threshold) = {}
                         /\ s.empty => SeekWrapped(s.excluded, s.threshold) = {}

\* A count that no commit crossed was right when it was cached; once it is
\* wrong, what is left of its TTL has been running since the commit.
CountInv ==
  /\ \A r \in countReaders : ~r.crossed => r.count = AvailableCount
  /\ cachedCount # NoCount /\ ~cachedCount.crossed =>
       \/ cachedCount.count = AvailableCount
       \/ cachedCount.left + sinceCommit <= CountTtl

CatalogInv ==
  /\ CatalogTypeOK /\ IsFiniteSet(catalogItems)
  /\ VersionInv /\ RowsKeyed /\ SearchInv /\ CountInv

LEMMA CatalogInitial == CatalogInit => CatalogInv
<1> SUFFICES ASSUME CatalogInit PROVE CatalogInv
  OBVIOUS
<1> USE DEF CatalogInit
<1>1. CatalogTypeOK
  <2>1. importsBegun \in 0 .. MaxImports /\ sinceCommit \in 0 .. CountTtl
    BY CatalogAssumption
  <2>2. versionsCrossed \in BOOLEAN
    OBVIOUS
  <2>3. /\ catalogs \subseteq Versions /\ catalogItems \subseteq Row /\ imports \subseteq Import
        /\ searches \subseteq Search /\ countReaders \subseteq [count : Nat, crossed : BOOLEAN]
        /\ cachedCount \in CachedCount \cup {NoCount}
    OBVIOUS
  <2> QED BY <2>1, <2>2, <2>3 DEF CatalogTypeOK
<1>2. IsFiniteSet(catalogItems)
  BY FS_EmptySet
<1>3. VersionInv /\ RowsKeyed /\ SearchInv /\ CountInv
  BY DEF VersionInv, RowsKeyed, SearchInv, CountInv
<1> QED BY <1>1, <1>2, <1>3 DEF CatalogInv

\* A step of an import that writes nothing yet puts it into another stage.
Moves(m, e) == /\ imports' = (imports \ {m}) \cup {e}
               /\ e.version = m.version /\ e.snapshot = m.snapshot
               /\ e.existing = m.existing
               /\ UNCHANGED <<catalogs, catalogItems, importsBegun, searches, counts,
                              versionsCrossed>>

LEMMA MoveFacts ==
  ASSUME CatalogInv, NEW m \in imports, NEW e \in Import, Moves(m, e),
         e.stage # "loaded" /\ ~versionsCrossed => SameVersion(m),
         e.stage = "flushed" =>
           /\ KeysFree(m)
           /\ \A o \in imports : o.stage = "flushed" => o.version # m.version
  PROVE  CatalogInv'
<1>1. \A o \in imports' : o \in imports \/ o = e
  BY DEF Moves
<1>2. Added(e) = Added(m) /\ (SameVersion(e) <=> SameVersion(m))
  BY DEF Moves, Added, Existing, SameVersion
<1>3. CatalogTypeOK' /\ IsFiniteSet(catalogItems')
  BY DEF Moves, counts, CatalogInv, CatalogTypeOK
<1>4. VersionInv'
  BY <1>1, <1>2 DEF Moves, CatalogInv, VersionInv, SameVersion
<1>5. RowsKeyed'
  <2>1. \A o \in imports' : o.stage = "flushed" =>
          \A i \in Added(o), r \in catalogItems : ~(r.version = o.version /\ r.item = i)
    BY <1>1, <1>2 DEF Moves, CatalogInv, RowsKeyed, KeysFree
  <2> QED BY <1>1, <2>1 DEF Moves, CatalogInv, RowsKeyed, Added, Existing
<1>6. SearchInv' /\ CountInv'
  BY DEF Moves, counts, CatalogInv, SearchInv, CountInv, Seek, SeekWrapped, AvailableCount,
         Selectable
<1> QED BY <1>3, <1>4, <1>5, <1>6 DEF CatalogInv

\* What a commit leaves of a row that was there, and adds.
LEMMA RewrittenFacts ==
  ASSUME NEW m \in Import, NEW r \in Row,
         \E o \in Revised(m) : o.version = r.version /\ o.item = r.item
  PROVE  /\ Rewritten(r, m) \in Row
         /\ Rewritten(r, m).version = r.version /\ Rewritten(r, m).item = r.item
<1>1. r.item \in DOMAIN m.snapshot /\ m.snapshot[r.item] \in Checksums
  <2>1. r.item \in DOMAIN m.snapshot
    BY DEF Revised
  <2>2. PICK S \in SUBSET CatalogItems : m.snapshot \in [S -> Checksums]
    BY DEF Import, Snapshots
  <2> QED BY <2>1, <2>2
<1> DEFINE old == CHOOSE o \in Revised(m) : o.version = r.version /\ o.item = r.item
           new == m.snapshot[r.item]
           display == IF old.shown = (new \in Showable) THEN r.shown ELSE new \in Showable
<1>2. new \in Checksums /\ display \in BOOLEAN
  <2>1. new \in Checksums /\ r.shown \in BOOLEAN
    BY <1>1 DEF Row
  <2>2. (new \in Showable) \in BOOLEAN
    OBVIOUS
  <2> DEFINE same == old.shown = (new \in Showable)
             visible == new \in Showable
  <2>3. visible \in BOOLEAN
    BY <2>2
  <2> HIDE DEF same, visible
  <2>4. (IF same THEN r.shown ELSE visible) \in BOOLEAN
    BY <2>1, <2>3
  <2> QED BY <2>1, <2>4 DEF same, visible
<1>3. Rewritten(r, m) = [r EXCEPT !.checksum = new, !.shown = display]
  BY DEF Rewritten
<1> HIDE DEF new, display
<1> QED BY <1>2, <1>3 DEF Row

Kept(r, m) == IF \E o \in Revised(m) : o.version = r.version /\ o.item = r.item
              THEN Rewritten(r, m) ELSE r

LEMMA WritesFacts ==
  ASSUME CatalogInv, NEW m \in imports
  PROVE  /\ Writes(m) \subseteq Row /\ IsFiniteSet(Writes(m))
         /\ \A r \in Writes(m) :
              \/ r \in NewRows(m) /\ r.version = m.version /\ r.item \in Added(m)
              \/ \E s \in catalogItems :
                   r = Kept(s, m) /\ r.version = s.version /\ r.item = s.item
         /\ \A r, t \in NewRows(m) : r.item = t.item => r = t
<1>0. m \in Import
  BY DEF CatalogInv, CatalogTypeOK
<1>1. PICK S \in SUBSET CatalogItems : m.snapshot \in [S -> Checksums]
  BY <1>0 DEF Import, Snapshots
<1>2. /\ NewRows(m) \subseteq Row
      /\ \A r \in NewRows(m) : r.version = m.version /\ r.item \in Added(m)
      /\ \A r, t \in NewRows(m) : r.item = t.item => r = t
  <2> DEFINE row(i) == [version |-> m.version, item |-> i, checksum |-> m.snapshot[i],
                        shown |-> m.snapshot[i] \in Showable]
  <2>1. \A i \in Added(m) : row(i) \in Row
    <3>1. m.version \in Versions /\ \A i \in Added(m) : i \in CatalogItems /\ m.snapshot[i] \in Checksums
      BY <1>0, <1>1 DEF Added, Import
    <3>2. ASSUME NEW i \in CatalogItems, NEW c \in Checksums, NEW b \in BOOLEAN
          PROVE [version |-> m.version, item |-> i, checksum |-> c, shown |-> b] \in Row
      BY <3>1 DEF Row
    <3>3. ASSUME NEW i \in Added(m) PROVE row(i) \in Row
      <4>1. (m.snapshot[i] \in Showable) \in BOOLEAN
        OBVIOUS
      <4> DEFINE visible == m.snapshot[i] \in Showable
      <4>2. visible \in BOOLEAN
        BY <4>1
      <4> HIDE DEF visible
      <4> QED BY <3>1, <3>2, <4>2 DEF visible
    <3> QED BY <3>3
  <2>2. \A i \in Added(m) : row(i).version = m.version /\ row(i).item = i
    OBVIOUS
  <2>3. NewRows(m) = {row(i) : i \in Added(m)}
    BY DEF NewRows
  <2> HIDE DEF row
  <2> QED BY <2>1, <2>2, <2>3
<1>3. \A s \in catalogItems : /\ Kept(s, m) \in Row
                              /\ Kept(s, m).version = s.version /\ Kept(s, m).item = s.item
  BY <1>0, RewrittenFacts DEF Kept, CatalogInv, CatalogTypeOK
<1> DEFINE kept == {Kept(s, m) : s \in catalogItems}
<1>4. Writes(m) = NewRows(m) \cup kept
  BY DEF Writes, Kept
<1>5. IsFiniteSet(kept)
  <2> DEFINE f == [s \in catalogItems |-> Kept(s, m)]
  <2>1. f \in Surjection(catalogItems, kept)
    BY DEF Surjection
  <2> HIDE DEF f, kept
  <2> QED BY <2>1, FS_Surjection DEF CatalogInv
<1>6. IsFiniteSet(NewRows(m))
  <2> DEFINE row(i) == [version |-> m.version, item |-> i, checksum |-> m.snapshot[i],
                        shown |-> m.snapshot[i] \in Showable]
             f == [i \in Added(m) |-> row(i)]
  <2>1. NewRows(m) = {row(i) : i \in Added(m)}
    BY DEF NewRows
  <2>2. f \in Surjection(Added(m), NewRows(m))
    <3> HIDE DEF row
    <3> QED BY <2>1 DEF Surjection
  <2>3. IsFiniteSet(Added(m))
    <3>1. Added(m) \subseteq CatalogItems
      BY <1>1 DEF Added
    <3> QED BY <3>1, CatalogAssumption, FS_Subset
  <2> HIDE DEF f
  <2> QED BY <2>2, <2>3, FS_Surjection
<1>7. IsFiniteSet(Writes(m))
  BY <1>4, <1>5, <1>6, FS_Union
<1> QED BY <1>2, <1>3, <1>4, <1>7

LEMMA CountFacts ==
  ASSUME IsFiniteSet(catalogItems)
  PROVE  AvailableCount \in Nat
<1>1. IsFiniteSet(Selectable({}))
  BY FS_Subset DEF Selectable
<1> QED BY <1>1, FS_CardinalityType DEF AvailableCount

LEMMA ImportCommitStep ==
  ASSUME CatalogInv, NEW m \in imports, Commit(m)
  PROVE  CatalogInv'
<1>0. /\ m.stage = "flushed" /\ m \in Import /\ m.version \in Versions
      /\ catalogs' = catalogs \cup {m.version} /\ catalogItems' = Writes(m)
      /\ imports' = imports \ {m} /\ sinceCommit' = 0
      /\ searches' = {[s EXCEPT !.crossed = TRUE] : s \in searches}
      /\ countReaders' = {[r EXCEPT !.crossed = TRUE] : r \in countReaders}
      /\ UNCHANGED <<importsBegun, cachedCount, versionsCrossed>>
  BY DEF Commit, CatalogInv, CatalogTypeOK, Import
<1>1. \A s \in searches : [s EXCEPT !.crossed = TRUE] \in Search
                          /\ [s EXCEPT !.crossed = TRUE].crossed
  BY DEF CatalogInv, CatalogTypeOK, Search
<1>2. \A r \in countReaders : /\ [r EXCEPT !.crossed = TRUE] \in [count : Nat, crossed : BOOLEAN]
                              /\ [r EXCEPT !.crossed = TRUE].crossed
  BY DEF CatalogInv, CatalogTypeOK
<1>3. catalogItems' \subseteq Row /\ IsFiniteSet(catalogItems')
  BY <1>0, WritesFacts
<1>4. CatalogTypeOK'
  BY <1>0, <1>1, <1>2, <1>3, CatalogAssumption DEF CatalogInv, CatalogTypeOK
<1>5. VersionInv'
  BY <1>0 DEF CatalogInv, VersionInv, SameVersion
<1>6. RowsKeyed'
  <2>0. RowsKeyed
    BY DEF CatalogInv
  <2>1. ASSUME NEW r \in catalogItems', NEW t \in catalogItems',
               r.version = t.version, r.item = t.item
        PROVE r = t
    <3>1. ASSUME NEW x \in NewRows(m), x.version = m.version, x.item \in Added(m),
                 NEW s \in catalogItems
          PROVE ~(x.version = s.version /\ x.item = s.item)
      BY <1>0, <2>0, <3>1 DEF RowsKeyed
    <3>2. \/ r \in NewRows(m) /\ r.version = m.version /\ r.item \in Added(m)
          \/ \E s \in catalogItems : r = Kept(s, m) /\ r.version = s.version /\ r.item = s.item
      BY <1>0, WritesFacts
    <3>3. \/ t \in NewRows(m) /\ t.version = m.version /\ t.item \in Added(m)
          \/ \E s \in catalogItems : t = Kept(s, m) /\ t.version = s.version /\ t.item = s.item
      BY <1>0, WritesFacts
    <3>4. CASE r \in NewRows(m) /\ r.version = m.version /\ r.item \in Added(m)
      <4>1. t \in NewRows(m)
        BY <2>1, <3>1, <3>3, <3>4
      <4> QED BY <2>1, <3>4, <4>1, WritesFacts
    <3>5. CASE \E s \in catalogItems : r = Kept(s, m) /\ r.version = s.version /\ r.item = s.item
      <4>1. PICK s \in catalogItems : r = Kept(s, m) /\ r.version = s.version /\ r.item = s.item
        BY <3>5
      <4>2. ~(t \in NewRows(m) /\ t.version = m.version /\ t.item \in Added(m))
        BY <2>1, <3>1, <4>1
      <4>3. PICK q \in catalogItems : t = Kept(q, m) /\ t.version = q.version /\ t.item = q.item
        BY <3>3, <4>2
      <4>4. s = q
        BY <2>0, <2>1, <4>1, <4>3 DEF RowsKeyed
      <4> QED BY <4>1, <4>3, <4>4
    <3> QED BY <3>2, <3>4, <3>5
  <2>2. ASSUME NEW o \in imports', o.stage = "flushed", NEW i \in Added(o)', NEW r \in catalogItems'
        PROVE ~(r.version = o.version /\ r.item = i)
    <3>1. o \in imports /\ o # m /\ o.version # m.version /\ i \in Added(o)
      BY <1>0, <2>0, <2>2 DEF RowsKeyed, Added, Existing
    <3>2. \/ r.version = m.version
          \/ \E s \in catalogItems : r.version = s.version /\ r.item = s.item
      BY <1>0, WritesFacts
    <3> QED BY <2>0, <2>2, <3>1, <3>2 DEF RowsKeyed
  <2>3. \A o, q \in imports' :
          o.stage = "flushed" /\ q.stage = "flushed" /\ o.version = q.version => o = q
    BY <1>0, <2>0 DEF RowsKeyed
  <2> QED BY <2>1, <2>2, <2>3 DEF RowsKeyed
<1>7. SearchInv'
  BY <1>0, <1>1 DEF SearchInv
<1>8. CountInv'
  <2>1. cachedCount # NoCount => cachedCount.left + 0 <= CountTtl
    BY CatalogAssumption DEF CatalogInv, CatalogTypeOK, CachedCount
  <2> QED BY <1>0, <1>2, <2>1 DEF CountInv
<1> QED BY <1>3, <1>4, <1>5, <1>6, <1>7, <1>8 DEF CatalogInv

LEMMA CatalogKeeps == CatalogInv /\ [CatalogNext]_catalogVars => CatalogInv'
<1> SUFFICES ASSUME CatalogInv, [CatalogNext]_catalogVars PROVE CatalogInv'
  OBVIOUS
<1> USE DEF CatalogInv
<1>a. /\ \A m \in imports : m \in Import /\ m.snapshot \in Snapshots /\ m.version \in Versions
                            /\ m.existing \in SUBSET Row /\ m.known \in BOOLEAN
      /\ importsBegun \in Nat /\ MaxImports \in Nat
  BY CatalogAssumption DEF CatalogTypeOK, Import
<1>1. ASSUME NEW v \in Versions, NEW snap \in Snapshots, Load(v, snap) PROVE CatalogInv'
  <2> DEFINE e == [n |-> importsBegun + 1, version |-> v, snapshot |-> snap,
                   existing |-> catalogItems, known |-> FALSE, stage |-> "loaded"]
  <2>1. e \in Import /\ e.stage = "loaded" /\ e.version = v
        /\ importsBegun + 1 \in 0 .. MaxImports
    BY <1>1, <1>a DEF Load, Import, ImportStages, CatalogTypeOK
  <2>2. /\ imports' = imports \cup {e} /\ importsBegun' = importsBegun + 1
        /\ versionsCrossed' = (versionsCrossed \/ \E m \in imports : m.version # v)
        /\ UNCHANGED <<catalogs, catalogItems, searches, counts>>
    BY <1>1 DEF Load
  <2> HIDE DEF e
  <2>3. CatalogTypeOK' /\ IsFiniteSet(catalogItems')
    BY <2>1, <2>2 DEF CatalogTypeOK, counts
  <2>4. VersionInv'
    BY <2>1, <2>2 DEF VersionInv, SameVersion
  <2>5. RowsKeyed'
    BY <2>1, <2>2 DEF RowsKeyed, Added, Existing
  <2>6. SearchInv' /\ CountInv'
    BY <2>2 DEF counts, SearchInv, CountInv, Seek, SeekWrapped, AvailableCount, Selectable
  <2> QED BY <2>3, <2>4, <2>5, <2>6
<1>3. ASSUME NEW m \in imports, CheckVersion(m) PROVE CatalogInv'
  <2> DEFINE e == [m EXCEPT !.stage = "checked"]
  <2>0. "checked" \in ImportStages
    BY DEF ImportStages
  <2>1. /\ e \in Import /\ e.version = m.version /\ e.snapshot = m.snapshot
        /\ e.existing = m.existing /\ e.stage = "checked"
    BY <1>a, <2>0 DEF Import
  <2> HIDE DEF e
  <2>2. Moves(m, e) /\ SameVersion(m)
    BY <1>3, <2>1 DEF Moves, CheckVersion, Advance, e
  <2> QED BY <2>1, <2>2, MoveFacts
<1>4. ASSUME NEW m \in imports, Upsert(m) PROVE CatalogInv'
  <2> DEFINE known == m.version \in catalogs
             e == [m EXCEPT !.stage = "applied", !.known = known]
  <2>0. "applied" \in ImportStages /\ known \in BOOLEAN
    BY DEF ImportStages
  <2> HIDE DEF known
  <2>1. /\ e \in Import /\ e.version = m.version /\ e.snapshot = m.snapshot
        /\ e.existing = m.existing /\ e.stage = "applied"
    BY <1>a, <2>0 DEF Import
  <2> HIDE DEF e
  <2>2. Moves(m, e) /\ SameVersion(m)
    BY <1>4, <2>1 DEF Moves, Upsert, e, known
  <2> QED BY <2>1, <2>2, MoveFacts
<1>5. ASSUME NEW m \in imports, Flush(m) PROVE CatalogInv'
  <2> DEFINE e == [m EXCEPT !.stage = "flushed"]
  <2>0. "flushed" \in ImportStages
    BY DEF ImportStages
  <2>1. /\ e \in Import /\ e.version = m.version /\ e.snapshot = m.snapshot
        /\ e.existing = m.existing /\ e.stage = "flushed"
    BY <1>a, <2>0 DEF Import
  <2> HIDE DEF e
  <2>2. Moves(m, e) /\ KeysFree(m) /\ \A o \in imports : o.stage = "flushed" => o.version # m.version
    BY <1>5, <2>1 DEF Moves, Flush, Advance, e
  <2>3. ~versionsCrossed => SameVersion(m)
    BY <1>5 DEF Flush, VersionInv
  <2> QED BY <2>1, <2>2, <2>3, MoveFacts
<1>6. ASSUME NEW m \in imports, Commit(m) PROVE CatalogInv'
  BY <1>6, ImportCommitStep
<1>7. ASSUME NEW m \in imports, GiveUp(m) PROVE CatalogInv'
  BY <1>7 DEF GiveUp, counts, CatalogTypeOK, VersionInv, RowsKeyed, SearchInv, CountInv,
              SameVersion, Added, Existing, Seek, SeekWrapped, AvailableCount, Selectable
<1>8. ASSUME UNCHANGED <<catalogs, catalogItems, imports, importsBegun, versionsCrossed>>,
             searches' \subseteq Search, SearchInv',
             countReaders' \subseteq [count : Nat, crossed : BOOLEAN],
             cachedCount' \in CachedCount \cup {NoCount}, sinceCommit' \in 0 .. CountTtl,
             CountInv'
      PROVE CatalogInv'
  BY <1>8 DEF CatalogTypeOK, VersionInv, RowsKeyed, SameVersion, Added, Existing
<1>9. ASSUME UNCHANGED <<catalogItems, counts>> PROVE CountInv'
  BY <1>9 DEF counts, CountInv, AvailableCount, Selectable
<1>10. ASSUME UNCHANGED <<catalogItems, searches>> PROVE SearchInv'
  BY <1>10 DEF SearchInv, Seek, SeekWrapped, Selectable
<1>11. ASSUME NEW excluded \in SUBSET CatalogItems, NEW k \in Checksums, SeekFails(excluded, k)
       PROVE CatalogInv'
  <2> DEFINE e == [excluded |-> excluded, threshold |-> k, empty |-> FALSE, crossed |-> FALSE]
  <2>1. e \in Search /\ e.excluded = excluded /\ e.threshold = k /\ ~e.empty
    BY DEF Search
  <2>2. searches' = searches \cup {e} /\ Seek(excluded, k) = {}
    BY <1>11 DEF SeekFails
  <2>3. UNCHANGED <<catalogs, catalogItems, imports, importsBegun, counts, versionsCrossed>>
    BY <1>11 DEF SeekFails
  <2> HIDE DEF e
  <2>4. SearchInv'
    BY <2>1, <2>2, <2>3 DEF SearchInv, Seek, SeekWrapped, Selectable
  <2> QED BY <1>8, <1>9, <2>1, <2>2, <2>3, <2>4 DEF counts, CatalogTypeOK
<1>12. ASSUME NEW s \in searches, WrapAround(s) \/ NoMoreQuestions(s) PROVE CatalogInv'
  <2>1. UNCHANGED <<catalogs, catalogItems, imports, importsBegun, counts, versionsCrossed>>
    BY <1>12 DEF WrapAround, NoMoreQuestions
  <2> DEFINE e == [s EXCEPT !.empty = TRUE]
  <2>2. /\ e \in Search /\ e.excluded = s.excluded /\ e.threshold = s.threshold
        /\ e.crossed = s.crossed
    BY DEF CatalogTypeOK, Search
  <2> HIDE DEF e
  <2>3. \/ searches' \subseteq searches
        \/ searches' = (searches \ {s}) \cup {e} /\ SeekWrapped(s.excluded, s.threshold) = {}
    BY <1>12 DEF WrapAround, NoMoreQuestions, e
  <2>4. SearchInv'
    BY <2>1, <2>2, <2>3 DEF SearchInv, Seek, SeekWrapped, Selectable
  <2> QED BY <1>8, <1>9, <2>1, <2>2, <2>3, <2>4 DEF counts, CatalogTypeOK
<1>13. CASE CountItems
  <2> DEFINE e == [count |-> AvailableCount, crossed |-> FALSE]
  <2>1. e \in [count : Nat, crossed : BOOLEAN] /\ e.count = AvailableCount
    BY CountFacts
  <2> HIDE DEF e
  <2>2. countReaders' = countReaders \cup {e}
        /\ UNCHANGED <<catalogs, catalogItems, imports, importsBegun, searches, cachedCount,
                       sinceCommit, versionsCrossed>>
    BY <1>13 DEF CountItems, e
  <2>3. CountInv'
    BY <2>1, <2>2 DEF CountInv, AvailableCount, Selectable
  <2> QED BY <1>8, <1>10, <2>1, <2>2, <2>3 DEF CatalogTypeOK
<1>14. ASSUME NEW r \in countReaders, CacheCount(r) PROVE CatalogInv'
  <2> DEFINE e == [count |-> r.count, crossed |-> r.crossed, left |-> CountTtl]
  <2>1. e \in CachedCount /\ e.count = r.count /\ e.crossed = r.crossed
    BY CatalogAssumption DEF CatalogTypeOK, CachedCount
  <2> HIDE DEF e
  <2>2. /\ cachedCount' = e \/ cachedCount' = cachedCount
        /\ countReaders' = countReaders \ {r}
        /\ UNCHANGED <<catalogs, catalogItems, imports, importsBegun, searches, sinceCommit,
                       versionsCrossed>>
    BY <1>14 DEF CacheCount, e
  <2>3. CountInv'
    BY <2>1, <2>2 DEF CountInv, AvailableCount, Selectable
  <2> QED BY <1>8, <1>10, <2>1, <2>2, <2>3 DEF CatalogTypeOK
<1>15. CASE CountTick
  <2>1. /\ cachedCount' = CountAfterTick(cachedCount)
        /\ sinceCommit' = IF sinceCommit < CountTtl THEN sinceCommit + 1 ELSE sinceCommit
        /\ UNCHANGED <<catalogs, catalogItems, imports, importsBegun, searches, countReaders,
                       versionsCrossed>>
    BY <1>15 DEF CountTick
  <2>2. sinceCommit' \in 0 .. CountTtl /\ sinceCommit' <= sinceCommit + 1 /\ sinceCommit \in Nat
    BY <2>1, CatalogAssumption DEF CatalogTypeOK
  <2>3. \/ cachedCount' = NoCount
        \/ /\ cachedCount # NoCount /\ cachedCount' \in CachedCount
           /\ cachedCount'.count = cachedCount.count /\ cachedCount'.crossed = cachedCount.crossed
           /\ cachedCount'.left = cachedCount.left - 1 /\ cachedCount.left \in Nat
    <3>1. CASE cachedCount = NoCount \/ cachedCount.left = 1
      BY <2>1, <3>1 DEF CountAfterTick
    <3>2. CASE ~(cachedCount = NoCount \/ cachedCount.left = 1)
      <4>1. cachedCount \in CachedCount /\ cachedCount' = [cachedCount EXCEPT !.left = @ - 1]
        BY <2>1, <3>2 DEF CountAfterTick, CatalogTypeOK
      <4> QED BY <3>2, <4>1, CatalogAssumption DEF CachedCount
    <3> QED BY <3>1, <3>2
  <2>4. CountInv'
    BY <2>1, <2>2, <2>3, CatalogAssumption DEF CountInv, AvailableCount, Selectable
  <2> QED BY <1>8, <1>10, <2>1, <2>2, <2>3, <2>4 DEF CatalogTypeOK
<1>16. CASE UNCHANGED catalogVars
  BY <1>8, <1>9, <1>10, <1>16 DEF catalogVars, counts, CatalogTypeOK
<1> QED
  BY <1>1, <1>3, <1>4, <1>5, <1>6, <1>7, <1>11, <1>12, <1>13, <1>14, <1>15, <1>16
     DEF CatalogNext

\* The rows of the catalog, the imports, searches and counts under way and the
\* cached count keep their types.
THEOREM CatalogTypeCorrect == CatalogSpec => []CatalogTypeOK
<1>1. CatalogInv => CatalogTypeOK
  BY DEF CatalogInv
<1> QED BY CatalogInitial, CatalogKeeps, <1>1, PTL DEF CatalogSpec

\* However imports overlap, a catalog has the version it was first imported
\* with (unless imports of two versions ran at once), and an item one row.
THEOREM CatalogKeepsVersion == CatalogSpec => []OneCatalogVersion
<1>1. CatalogInv => OneCatalogVersion
  <2> SUFFICES ASSUME CatalogInv, ~versionsCrossed PROVE Cardinality(catalogs) <= 1
    BY DEF CatalogInv, RowsKeyed, OneCatalogVersion
  <2>1. \A v, w \in catalogs : v = w
    BY DEF CatalogInv, VersionInv
  <2>2. CASE catalogs = {}
    BY <2>2, FS_EmptySet
  <2>3. ASSUME NEW v \in catalogs PROVE Cardinality(catalogs) <= 1
    <3>1. catalogs = {v}
      BY <2>1
    <3>2. Cardinality({v}) = 1
      BY FS_Singleton
    <3> QED BY <3>1, <3>2
  <2> QED BY <2>2, <2>3
<1> QED BY CatalogInitial, CatalogKeeps, <1>1, PTL DEF CatalogSpec

\* The two queries of a search together see every question that may be shown,
\* so the learner is told that none is left only when none is.
THEOREM SearchSeesEverything == CatalogSpec => []NoMoreOnlyWhenNoneLeft
<1>1. CatalogInv => NoMoreOnlyWhenNoneLeft
  <2> SUFFICES ASSUME CatalogInv, NEW s \in searches, s.empty, ~s.crossed
               PROVE  Selectable(s.excluded) = {}
    BY DEF NoMoreOnlyWhenNoneLeft
  <2>1. Seek(s.excluded, s.threshold) = {} /\ SeekWrapped(s.excluded, s.threshold) = {}
    BY DEF CatalogInv, SearchInv
  <2>2. \A r \in Selectable(s.excluded) : r.checksum \in Nat /\ s.threshold \in Nat
    BY CatalogAssumption DEF CatalogInv, CatalogTypeOK, Selectable, Row, Search
  <2>3. \A r \in Selectable(s.excluded) : r.checksum >= s.threshold \/ r.checksum < s.threshold
    BY <2>2
  <2> QED BY <2>1, <2>3 DEF Seek, SeekWrapped
<1> QED BY CatalogInitial, CatalogKeeps, <1>1, PTL DEF CatalogSpec

\* A menu shows a wrong count for one TTL after an import at most, unless a
\* reader that counted before the commit cached its count after it.
THEOREM WrongCountsExpire == CatalogSpec => []WrongCountForOneTtl
<1>1. CatalogInv => WrongCountForOneTtl
  <2> SUFFICES ASSUME CatalogInv, cachedCount # NoCount, ~cachedCount.crossed,
                      cachedCount.count # AvailableCount
               PROVE  sinceCommit < CountTtl
    BY DEF WrongCountForOneTtl
  <2>1. cachedCount.left + sinceCommit <= CountTtl
    BY DEF CatalogInv, CountInv
  <2>2. cachedCount.left \in 1 .. CountTtl /\ sinceCommit \in 0 .. CountTtl
    BY DEF CatalogInv, CatalogTypeOK, CachedCount
  <2> QED BY <2>1, <2>2, CatalogAssumption
<1> QED BY CatalogInitial, CatalogKeeps, <1>1, PTL DEF CatalogSpec

-----------------------------------------------------------------------------
(* The services side by side: they share no state. *)

Services ==
  {"sessions", "learning", "ack", "admission", "catalog", "bank", "bankCache", "profile"}

LEMMA ServicesStart ==
  ServicesInit => /\ focus \in Services /\ SessionInit /\ LearningInit /\ AckInit
                  /\ AdmissionInit /\ CatalogInit /\ BankInit /\ CacheInit /\ ProfileInit
BY DEF ServicesInit, Services

\* A step of one service is a step of its own specification and a stutter of
\* every other.
LEMMA ServicesStep ==
  [ServicesNext]_servicesVars =>
    /\ UNCHANGED focus
    /\ [SessionNext]_sessionVars /\ [LearningNext]_learningVars /\ [AckNext]_ackVars
    /\ [AdmissionNext]_admissionVars /\ [CatalogNext]_catalogVars /\ [BankNext]_bankVars
    /\ [CacheNext]_cacheVars /\ [ProfileNext]_profileVars
<1> SUFFICES ASSUME [ServicesNext]_servicesVars
             PROVE  /\ UNCHANGED focus
                    /\ SessionNext \/ UNCHANGED sessionVars
                    /\ LearningNext \/ UNCHANGED learningVars
                    /\ AckNext \/ UNCHANGED ackVars
                    /\ AdmissionNext \/ UNCHANGED admissionVars
                    /\ CatalogNext \/ UNCHANGED catalogVars
                    /\ BankNext \/ UNCHANGED bankVars
                    /\ CacheNext \/ UNCHANGED cacheVars
                    /\ ProfileNext \/ UNCHANGED profileVars
  OBVIOUS
<1>1. CASE SessionStep
  BY <1>1 DEF SessionStep
<1>2. CASE LearningStep
  BY <1>2 DEF LearningStep
<1>3. CASE AckStep
  BY <1>3 DEF AckStep
<1>4. CASE AdmissionStep
  BY <1>4 DEF AdmissionStep
<1>5. CASE CatalogStep
  BY <1>5 DEF CatalogStep
<1>6. CASE BankStep
  BY <1>6 DEF BankStep
<1>7. CASE BankCacheStep
  BY <1>7 DEF BankCacheStep
<1>8. CASE ProfileStep
  BY <1>8 DEF ProfileStep
<1>9. CASE UNCHANGED servicesVars
  BY <1>9 DEF servicesVars
<1> QED BY <1>1, <1>2, <1>3, <1>4, <1>5, <1>6, <1>7, <1>8, <1>9 DEF ServicesNext

\* Every behaviour of the services together is one of each of them (those of
\* app/ that share no table or key): what is proved of a service alone holds of
\* it among the others, and the run of all checks the specification of each.
THEOREM ServicesStandAlone ==
  ServicesSpec => /\ SessionSpec /\ LearningSpec /\ AckSpec /\ AdmissionSpec
                  /\ CatalogSpec /\ BankSpec /\ CacheSpec /\ ProfileSpec
BY ServicesStart, ServicesStep, PTL
   DEF ServicesSpec, SessionSpec, LearningSpec, AckSpec, AdmissionSpec, CatalogSpec, BankSpec,
       CacheSpec, ProfileSpec

\* Every service keeps the types of its tables, caches and handlers, for any
\* numbers of sessions, answers, updates, items, calls, processes and levels.
THEOREM ServicesTypeCorrect == ServicesSpec => []ServicesTypeOK
<1>1. ServicesSpec => [](focus \in Services)
  <2>1. ServicesInit => focus \in Services
    BY ServicesStart
  <2>2. focus \in Services /\ [ServicesNext]_servicesVars => (focus \in Services)'
    BY ServicesStep
  <2> QED BY <2>1, <2>2, PTL DEF ServicesSpec
<1>2. /\ focus \in Services /\ SessionTypeOK /\ LearningTypeOK /\ AckTypeOK /\ AdmissionTypeOK
      /\ CatalogTypeOK /\ BankTypeOK /\ CacheTypeOK /\ ProfileTypeOK
      => ServicesTypeOK
  BY DEF ServicesTypeOK, Services
<1> QED BY <1>1, <1>2, ServicesStandAlone, SessionTypeCorrect, LearningTypeCorrect,
           AckTypeCorrect, AdmissionTypeCorrect, CatalogTypeCorrect, BankTypeCorrect,
           CacheTypeCorrect, ProfileTypeCorrect, PTL
=============================================================================
