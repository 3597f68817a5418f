---------------------------- MODULE OutboxProofs ----------------------------
(***************************************************************************)
(* Machine-checked theorems about Outbox, for every finite set of events,  *)
(* every set of workers and topics, every batch size, parallelism and      *)
(* retry limit, and every number of faults.                                *)
(***************************************************************************)
EXTENDS Outbox, Sums, FiniteSetTheorems, WellFoundedInduction, TLAPS

-----------------------------------------------------------------------------
(* Facts about the helpers. *)

\* What a claim of some events puts into a worker's hands.
Fresh(w, ids) == {[worker |-> w, event |-> e, phase |-> "batch", loose |-> FALSE,
                   seen |-> 0, was |-> "processing"] : e \in ids}

LEMMA FreshFacts ==
  ASSUME NEW w \in Workers, NEW ids \in SUBSET Events
  PROVE  /\ Fresh(w, ids) \subseteq Claimed
         /\ IsFiniteSet(Fresh(w, ids))
         /\ \A c \in Fresh(w, ids) : c.event \in ids /\ c.phase = "batch"
         /\ \A c, d \in Fresh(w, ids) : c.event = d.event => c = d
<1> DEFINE f == [e \in ids |-> [worker |-> w, event |-> e, phase |-> "batch",
                                loose |-> FALSE, seen |-> 0, was |-> "processing"]]
<1>1. Fresh(w, ids) \subseteq Claimed
  <2> SUFFICES ASSUME NEW e \in ids
               PROVE  f[e] \in Claimed
    BY DEF Fresh
  <2> QED BY DEF Claimed, Phases, Statuses
<1>2. \A c \in Fresh(w, ids) : c.event \in ids /\ c.phase = "batch"
  BY DEF Fresh
<1>3. \A c, d \in Fresh(w, ids) : c.event = d.event => c = d
  <2> HIDE DEF f
  <2> SUFFICES ASSUME NEW a \in ids, NEW b \in ids,
                      NEW c, c = f[a], NEW d, d = f[b], c.event = d.event
               PROVE  c = d
    BY DEF Fresh, f
  <2> QED BY DEF f
<1>4. f \in Surjection(ids, Fresh(w, ids))
  BY DEF Fresh, Surjection
<1>5. IsFiniteSet(ids)
  BY EventAssumption, FS_Subset
<1>6. IsFiniteSet(Fresh(w, ids))
  <2> HIDE DEF f
  <2> QED BY <1>4, <1>5, FS_Surjection
<1> QED BY <1>1, <1>2, <1>3, <1>6

\* A claim goes from the batch to the single events.
Single(c) == [c EXCEPT !.phase = "single"]

LEMMA FallBackFacts ==
  ASSUME TypeOK, NEW w \in Workers, FallBack(w)
  PROVE  /\ claims' \subseteq Claimed /\ IsFiniteSet(claims')
         /\ \A d \in claims' : \/ d \in claims /\ d \notin BatchOf(w)
                               \/ \E c \in BatchOf(w) : d = Single(c) /\ d.phase = "single"
                                                        /\ d.event = c.event
<1> DEFINE S == BatchOf(w)
           T == {Single(c) : c \in S}
           f == [c \in S |-> Single(c)]
<1>1. claims' = (claims \ S) \cup T
  BY DEF FallBack, Single
<1>2. S \subseteq claims /\ S \subseteq Claimed /\ IsFiniteSet(S)
  BY FS_Subset DEF TypeOK, BatchOf, ClaimsOf
<1>3. \A c \in S : Single(c) \in Claimed /\ Single(c).phase = "single"
                   /\ Single(c).event = c.event
  BY <1>2 DEF Claimed, Single, Phases
<1>4. f \in Surjection(S, T)
  BY DEF Surjection
<1>5. IsFiniteSet(T)
  <2> HIDE DEF f, T, S
  <2> QED BY <1>2, <1>4, FS_Surjection
<1>6. IsFiniteSet(claims \ S)
  BY FS_Subset DEF TypeOK
<1>7. IsFiniteSet((claims \ S) \cup T)
  <2> DEFINE R == claims \ S
  <2> HIDE DEF R, T
  <2>1. IsFiniteSet(R)
    BY <1>6 DEF R
  <2>2. IsFiniteSet(R \cup T)
    BY <2>1, <1>5, FS_Union
  <2> QED BY <2>2 DEF R
<1>8. T \subseteq Claimed
  BY <1>3
<1>9. \A d \in T : \E c \in S : d = Single(c) /\ d.phase = "single" /\ d.event = c.event
  BY <1>3
<1> QED
  <2> HIDE DEF S, T, f
  <2>1. claims' \subseteq Claimed
    BY <1>1, <1>8 DEF TypeOK
  <2>2. IsFiniteSet(claims')
    BY <1>1, <1>7
  <2>3. \A d \in claims' : (d \in claims /\ d \notin S) \/ d \in T
    BY <1>1
  <2> QED BY <2>1, <2>2, <2>3, <1>9 DEF S

LEMMA ReplaceFacts ==
  ASSUME TypeOK, NEW c \in claims, NEW d \in Claimed, Replace(c, d)
  PROVE  /\ claims' \subseteq Claimed /\ IsFiniteSet(claims')
         /\ \A x \in claims' : (x \in claims /\ x # c) \/ x = d
<1> DEFINE rest == claims \ {c}
<1>1. claims' = rest \cup {d}
  BY DEF Replace
<1>2. IsFiniteSet(rest)
  BY FS_RemoveElement DEF TypeOK
<1>3. IsFiniteSet(rest \cup {d})
  <2> HIDE DEF rest
  <2> QED BY <1>2, FS_AddElement
<1> QED BY <1>1, <1>3 DEF TypeOK

\* A claim whose gather has given up on it.
Loosen(c) == [c EXCEPT !.loose = TRUE]

LEMMA FewerFacts ==
  ASSUME TypeOK, claims' \subseteq claims
  PROVE  claims' \subseteq Claimed /\ IsFiniteSet(claims')
BY FS_Subset DEF TypeOK

-----------------------------------------------------------------------------
(* Type correctness. *)

LEMMA TypeInit == Init => TypeOK
BY BoundAssumption, FS_EmptySet DEF Init, TypeOK, Statuses

LEMMA CountBatchFacts ==
  ASSUME TypeOK, NEW w \in Workers, CountBatch(w)
  PROVE  /\ progress' \in [Topics -> Nat]
         /\ applied' \in [Events -> Nat]
         /\ status' \in [Events -> Statuses]
<1> DEFINE done == EventsOf(BatchOf(w))
           of(t) == {e \in done : TopicOf[e] = t}
<1>1. done \subseteq Events
  BY DEF EventsOf, BatchOf, ClaimsOf, TypeOK, Claimed
<1>2. \A t \in Topics : Cardinality(of(t)) \in Nat
  <2> TAKE t \in Topics
  <2>1. of(t) \in SUBSET Events
    BY <1>1
  <2>2. IsFiniteSet(of(t))
    BY <2>1, EventAssumption, FS_Subset
  <2> HIDE DEF of
  <2> QED BY <2>2, FS_CardinalityType
<1>3. /\ progress' = [t \in Topics |-> progress[t] + Cardinality(of(t))]
      /\ applied' = [e \in Events |-> IF e \in done THEN applied[e] + 1 ELSE applied[e]]
      /\ status' = [e \in Events |-> IF e \in done THEN "done" ELSE status[e]]
  BY DEF CountBatch, Recorded
<1> HIDE DEF done, of
<1> QED BY <1>2, <1>3 DEF TypeOK, Statuses

LEMMA CountSingleFacts ==
  ASSUME TypeOK, NEW c \in claims, CountSingle(c)
  PROVE  /\ progress' \in [Topics -> Nat]
         /\ applied' \in [Events -> Nat]
         /\ status' \in [Events -> Statuses]
<1>1. c.event \in Events /\ c.seen \in Nat
  BY DEF TypeOK, Claimed
<1>2. TopicOf[c.event] \in Topics
  BY <1>1, TopicAssumption
<1> QED BY <1>1, <1>2 DEF CountSingle, RecordedAlone, TypeOK, Statuses

\* The claim query hands out claimable events only, and counts the events it
\* takes from a live worker against the bound.
Granted(w, stale, ids) ==
  /\ stale \subseteq Processing
  /\ ids \subseteq Claimable(stale)
  /\ claims' = claims \cup Fresh(w, ids)
  /\ status' = [e \in Events |-> IF e \in ids THEN "processing"
                                 ELSE IF e \in stale THEN "failed" ELSE status[e]]
  /\ overruns' = overruns + Cardinality(stale \cap EventsOf(claims))
  /\ overruns' <= MaxOverruns

LEMMA ClaimFacts ==
  ASSUME TypeOK, NEW w \in Workers, Claim(w)
  PROVE  \E stale \in SUBSET Events, ids \in SUBSET Events :
           /\ Granted(w, stale, ids)
           /\ overruns' \in 0 .. MaxOverruns
           /\ overruns' = 0 => overruns = 0 /\ stale \cap EventsOf(claims) = {}
<1>0. PICK stale \in SUBSET Processing : \E ids \in SUBSET Claimable(stale) :
        Granted(w, stale, ids)
  BY DEF Claim, Fresh, Granted
<1>1. PICK ids \in SUBSET Claimable(stale) : Granted(w, stale, ids)
  BY <1>0
<1> DEFINE robbed == stale \cap EventsOf(claims)
<1>2. robbed \in SUBSET Events
  BY DEF Processing
<1>3. IsFiniteSet(robbed)
  <2> HIDE DEF robbed
  <2> QED BY <1>2, EventAssumption, FS_Subset
<1>4. Cardinality(robbed) \in Nat /\ (Cardinality(robbed) = 0 => robbed = {})
  <2> HIDE DEF robbed
  <2> QED BY <1>3, FS_CardinalityType, FS_EmptySet
<1>5. overruns' \in 0 .. MaxOverruns /\ (overruns' = 0 => overruns = 0 /\ robbed = {})
  <2>1. /\ overruns \in Nat /\ overruns' = overruns + Cardinality(robbed)
        /\ overruns' <= MaxOverruns
    BY <1>1 DEF TypeOK, Granted
  <2> HIDE DEF robbed
  <2> QED BY <1>4, <2>1, BoundAssumption
<1>6. stale \in SUBSET Events /\ ids \in SUBSET Events
  BY DEF Processing, Claimable
<1> QED BY <1>1, <1>5, <1>6

LEMMA TypeStep == TypeOK /\ [Next]_vars => TypeOK'
<1> SUFFICES ASSUME TypeOK, [Next]_vars
             PROVE  TypeOK'
  OBVIOUS
<1> USE BoundAssumption
<1>1. ASSUME NEW e \in Events, Enqueue(e)
      PROVE  TypeOK'
  BY <1>1 DEF Enqueue, TypeOK, Statuses, history, budgets
<1>2. ASSUME NEW w \in Workers, Claim(w)
      PROVE  TypeOK'
  <2>1. PICK stale \in SUBSET Events, ids \in SUBSET Events :
          Granted(w, stale, ids) /\ overruns' \in 0 .. MaxOverruns
    BY <1>2, ClaimFacts
  <2>2. /\ claims' = claims \cup Fresh(w, ids)
        /\ status' = [e \in Events |-> IF e \in ids THEN "processing"
                                       ELSE IF e \in stale THEN "failed" ELSE status[e]]
    BY <2>1 DEF Granted
  <2>3. status' \in [Events -> Statuses]
    BY <2>2 DEF TypeOK, Statuses
  <2>4. Fresh(w, ids) \subseteq Claimed /\ IsFiniteSet(Fresh(w, ids))
    BY FreshFacts
  <2>5. claims' \subseteq Claimed /\ IsFiniteSet(claims')
    BY <2>2, <2>4, FS_Union DEF TypeOK
  <2> QED BY <1>2, <2>1, <2>3, <2>5 DEF Claim, TypeOK, history
<1>3. ASSUME NEW w \in Workers, BatchCommits(w) \/ BatchFails(w) \/ BatchReplyLost(w)
      PROVE  TypeOK'
  <2>1. CASE BatchCommits(w)
    BY <2>1, CountBatchFacts, FewerFacts DEF BatchCommits, TypeOK, budgets
  <2>2. CASE BatchFails(w)
    BY <2>2, FallBackFacts DEF BatchFails, TypeOK, rows, history, budgets
  <2>3. CASE BatchReplyLost(w)
    <3>1. lost' \in 0 .. MaxLost
      BY <2>3 DEF BatchReplyLost, TypeOK
    <3> QED BY <2>3, <3>1, CountBatchFacts, FallBackFacts DEF BatchReplyLost, TypeOK
  <2> QED BY <1>3, <2>1, <2>2, <2>3
<1>4. ASSUME NEW c \in claims, ReadProgress(c)
      PROVE  TypeOK'
  <2> DEFINE d == [c EXCEPT !.phase = "counting", !.seen = progress[TopicOf[c.event]]]
  <2>1. d \in Claimed
    BY TopicAssumption DEF TypeOK, Claimed, Phases
  <2>2. Replace(c, d)
    BY <1>4 DEF ReadProgress
  <2>3. claims' \subseteq Claimed /\ IsFiniteSet(claims')
    <3> HIDE DEF d
    <3> QED BY <2>1, <2>2, ReplaceFacts
  <2> QED BY <1>4, <2>3 DEF ReadProgress, TypeOK, rows, history, budgets
<1>5. ASSUME NEW c \in claims, Raises(c)
      PROVE  /\ claims' \subseteq Claimed /\ IsFiniteSet(claims')
             /\ raised' \in [Events -> Nat]
  <2> DEFINE d == [c EXCEPT !.phase = "failing", !.seen = 0]
  <2>1. d \in Claimed
    BY DEF TypeOK, Claimed, Phases
  <2>2. Replace(c, d)
    BY <1>5 DEF Raises
  <2>3. claims' \subseteq Claimed /\ IsFiniteSet(claims')
    <3> HIDE DEF d
    <3> QED BY <2>1, <2>2, ReplaceFacts
  <2>4. raised' \in [Events -> Nat]
    BY <1>5 DEF Raises, TypeOK, Claimed
  <2> QED BY <2>3, <2>4
<1>6. ASSUME NEW c \in claims, SingleCommits(c) \/ SingleFails(c) \/ SingleReplyLost(c)
      PROVE  TypeOK'
  <2>1. CASE SingleCommits(c)
    BY <2>1, CountSingleFacts, FewerFacts DEF SingleCommits, TypeOK, budgets
  <2>2. CASE SingleFails(c)
    BY <2>2, <1>5 DEF SingleFails, TypeOK, rows, budgets
  <2>3. CASE SingleReplyLost(c)
    <3>1. lost' \in 0 .. MaxLost
      BY <2>3 DEF SingleReplyLost, TypeOK
    <3> QED BY <2>3, <3>1, <1>5, CountSingleFacts DEF SingleReplyLost, TypeOK
  <2> QED BY <1>6, <2>1, <2>2, <2>3
<1>7. ASSUME NEW c \in claims, LoadFailed(c)
      PROVE  TypeOK'
  <2> DEFINE d == [c EXCEPT !.phase = "marking", !.seen = retry[c.event],
                            !.was = status[c.event]]
  <2>1. d \in Claimed
    BY DEF TypeOK, Claimed, Phases
  <2>2. Replace(c, d)
    BY <1>7 DEF LoadFailed
  <2>3. claims' \subseteq Claimed /\ IsFiniteSet(claims')
    <3> HIDE DEF d
    <3> QED BY <2>1, <2>2, ReplaceFacts
  <2> QED BY <1>7, <2>3 DEF LoadFailed, TypeOK, rows, history, budgets
<1>8. ASSUME NEW c \in claims, MarkFailed(c)
      PROVE  TypeOK'
  <2>1. c.event \in Events /\ c.seen \in Nat /\ AfterFailure(c) \in Statuses
    BY DEF TypeOK, Claimed, AfterFailure, Statuses
  <2> QED BY <1>8, <2>1, FewerFacts DEF MarkFailed, TypeOK, history, budgets
<1>9. ASSUME NEW c \in claims, MarkFailedRaises(c)
      PROVE  TypeOK'
  <2>1. claims' \subseteq Claimed /\ IsFiniteSet(claims')
    <3>1. CASE claims' \subseteq claims
      BY <3>1, FewerFacts
    <3>2. CASE ~(claims' \subseteq claims)
      <4> DEFINE S == CurrentOf(c.worker) \ {c}
                 f == [d \in S |-> [d EXCEPT !.loose = TRUE]]
                 T == {f[d] : d \in S}
                 R == claims \ CurrentOf(c.worker)
      <4>1. claims' = R \cup T
        BY <1>9, <3>2 DEF MarkFailedRaises
      <4>2. S \subseteq claims /\ IsFiniteSet(S) /\ R \subseteq claims /\ IsFiniteSet(R)
        BY FS_Subset DEF TypeOK, CurrentOf, ClaimsOf
      <4>3. T \subseteq Claimed
        BY <4>2 DEF TypeOK, Claimed
      <4>4. IsFiniteSet(T)
        <5>1. f \in Surjection(S, T)
          BY DEF Surjection
        <5> HIDE DEF f, S, T
        <5> QED BY <5>1, <4>2, FS_Surjection
      <4> HIDE DEF R, T
      <4> QED BY <4>1, <4>2, <4>3, <4>4, FS_Union DEF TypeOK
    <3> QED BY <3>1, <3>2
  <2>2. crashes' \in 0 .. MaxCrashes
    BY <1>9 DEF MarkFailedRaises, TypeOK
  <2> QED BY <1>9, <2>1, <2>2 DEF MarkFailedRaises, TypeOK, rows, history
<1>10. ASSUME NEW w \in Workers, Crash(w)
       PROVE  TypeOK'
  <2>1. crashes' \in 0 .. MaxCrashes
    BY <1>10 DEF Crash, TypeOK
  <2> QED BY <1>10, <2>1, FewerFacts DEF Crash, TypeOK, rows, history
<1>11. CASE UNCHANGED vars
  BY <1>11 DEF vars, rows, history, budgets, TypeOK
<1> QED BY <1>1, <1>2, <1>3, <1>4, <1>6, <1>7, <1>8, <1>9, <1>10, <1>11 DEF Next

\* Type correctness: statuses, counters, claims and budgets stay within what
\* the table and the workers can hold.
THEOREM TypeCorrect == Spec => []TypeOK
BY TypeInit, TypeStep, PTL DEF Spec

-----------------------------------------------------------------------------
(* "done" is never a lie. *)

LEMMA DoneStep == TypeOK /\ DoneWasApplied /\ [Next]_vars => DoneWasApplied'
<1> SUFFICES ASSUME TypeOK, DoneWasApplied, [Next]_vars
             PROVE  DoneWasApplied'
  OBVIOUS
<1>1. ASSUME NEW w \in Workers, CountBatch(w)
      PROVE  DoneWasApplied'
  <2> DEFINE done == EventsOf(BatchOf(w))
  <2>1. /\ applied' = [e \in Events |-> IF e \in done THEN applied[e] + 1 ELSE applied[e]]
        /\ status' = [e \in Events |-> IF e \in done THEN "done" ELSE status[e]]
    BY <1>1 DEF CountBatch, Recorded
  <2> HIDE DEF done
  <2> QED BY <2>1 DEF DoneWasApplied, TypeOK
<1>2. ASSUME NEW c \in claims, CountSingle(c)
      PROVE  DoneWasApplied'
  BY <1>2 DEF CountSingle, RecordedAlone, DoneWasApplied, TypeOK, Claimed
<1>3. ASSUME NEW w \in Workers, Claim(w)
      PROVE  DoneWasApplied'
  <2>1. PICK stale \in SUBSET Events, ids \in SUBSET Events : Granted(w, stale, ids)
    BY <1>3, ClaimFacts
  <2> QED BY <1>3, <2>1 DEF Granted, Claim, history, DoneWasApplied
<1>4. ASSUME NEW c \in claims, MarkFailed(c)
      PROVE  DoneWasApplied'
  <2>1. AfterFailure(c) # "done"
    BY DEF AfterFailure
  <2> QED BY <1>4, <2>1 DEF MarkFailed, DoneWasApplied, TypeOK, history
<1>5. ASSUME UNCHANGED <<status, applied>>
      PROVE  DoneWasApplied'
  BY <1>5 DEF DoneWasApplied
<1>6. ASSUME NEW e \in Events, Enqueue(e)
      PROVE  DoneWasApplied'
  BY <1>6 DEF Enqueue, DoneWasApplied, TypeOK, history
<1> QED
  BY <1>1, <1>2, <1>3, <1>4, <1>5, <1>6
  DEF Next, vars, rows, history, budgets, BatchCommits, BatchFails, BatchReplyLost,
      ReadProgress, SingleCommits, SingleFails, SingleReplyLost, Raises, LoadFailed,
      MarkFailedRaises, Crash

\* Whatever crashes, overlaps or is retried, an event that says "done" had its
\* effects committed: mark_done is in the transaction of the effects.
THEOREM DoneIsTrue == Spec => []DoneWasApplied
<1>1. Init => DoneWasApplied
  BY DEF Init, DoneWasApplied
<1> QED BY <1>1, DoneStep, TypeInit, TypeStep, PTL DEF Spec

-----------------------------------------------------------------------------
(* One holder at a time, hence effects exactly once. *)

AppliedOnce == \A e \in Events : applied[e] = IF status[e] = "done" THEN 1 ELSE 0

OneHolder == \A c, d \in claims : c.event = d.event => c = d

HeldIsProcessing == \A c \in claims : status[c.event] = "processing"

RetriesLeft == \A e \in Events : status[e] \notin {"done", "dead"} => retry[e] < MaxRetries

\* What mark_failed loaded is still what the row says.
MarkingUpToDate ==
  \A c \in claims : c.phase = "marking" => c.seen = retry[c.event] /\ c.was = "processing"

Exclusive == AppliedOnce /\ OneHolder /\ HeldIsProcessing /\ RetriesLeft /\ MarkingUpToDate

\* Strengthens AppliedExactlyWhenDone: an event is applied twice only if two
\* claims overlap, and claims overlap only if the status of a held event is
\* not "processing".
ExclusiveInv == Undisturbed => Exclusive

LEMMA ExclusiveInit == Init => ExclusiveInv
BY SizeAssumption
   DEF Init, ExclusiveInv, Exclusive, AppliedOnce, OneHolder, HeldIsProcessing, RetriesLeft,
       MarkingUpToDate

\* How a claim looks after a step that wrote no row: its event is that of a
\* claim before the step, and what it knows of the row is up to date.
StillHeld(d) ==
  \E c \in claims : /\ c.event = d.event
                    /\ \/ d.phase # "marking"
                       \/ c = d
                       \/ d.seen = retry[d.event] /\ d.was = status[d.event]

LEMMA SameHolders ==
  ASSUME Exclusive, UNCHANGED <<status, retry, applied>>,
         \A d \in claims' : StillHeld(d), OneHolder'
  PROVE  Exclusive'
BY DEF Exclusive, AppliedOnce, HeldIsProcessing, RetriesLeft, MarkingUpToDate, StillHeld

\* The rows of the events that a transaction counted are no longer held.
LEMMA Settled ==
  ASSUME TypeOK, Exclusive, NEW done \in SUBSET Events,
         \A e \in done : \E c \in claims : c.event = e,
         applied' = [e \in Events |-> IF e \in done THEN applied[e] + 1 ELSE applied[e]],
         status' = [e \in Events |-> IF e \in done THEN "done" ELSE status[e]],
         UNCHANGED retry,
         claims' \subseteq claims, \A c \in claims' : c.event \notin done
  PROVE  Exclusive'
<1>1. AppliedOnce'
  <2>1. \A e \in done : status[e] = "processing" /\ applied[e] = 0
    BY DEF Exclusive, HeldIsProcessing, AppliedOnce
  <2> QED BY <2>1 DEF Exclusive, AppliedOnce
<1>2. OneHolder' /\ HeldIsProcessing' /\ MarkingUpToDate'
  BY DEF Exclusive, OneHolder, HeldIsProcessing, MarkingUpToDate, TypeOK, Claimed
<1>3. RetriesLeft'
  BY DEF Exclusive, RetriesLeft
<1> QED BY <1>1, <1>2, <1>3 DEF Exclusive

LEMMA ReplaceOneHolder ==
  ASSUME TypeOK, OneHolder, NEW c \in claims, NEW d \in Claimed, d.event = c.event,
         Replace(c, d)
  PROVE  OneHolder'
BY ReplaceFacts DEF OneHolder

LEMMA ExclusiveStep == TypeOK /\ ExclusiveInv /\ [Next]_vars => ExclusiveInv'
<1> SUFFICES ASSUME TypeOK, ExclusiveInv, [Next]_vars, Undisturbed'
             PROVE  Exclusive'
  BY DEF ExclusiveInv
<1>u. ASSUME UNCHANGED <<overruns, lost>>
      PROVE  Exclusive
  BY <1>u DEF ExclusiveInv, Undisturbed
<1>1. ASSUME NEW e \in Events, Enqueue(e)
      PROVE  Exclusive'
  <2>1. Exclusive
    BY <1>1, <1>u DEF Enqueue, budgets
  <2>2. \A c \in claims : c.event # e
    BY <1>1, <2>1 DEF Enqueue, Exclusive, HeldIsProcessing
  <2> QED BY <1>1, <2>1, <2>2
          DEF Enqueue, Exclusive, AppliedOnce, OneHolder, HeldIsProcessing, RetriesLeft,
              MarkingUpToDate, TypeOK, Claimed, history
<1>2. ASSUME NEW w \in Workers, Claim(w)
      PROVE  Exclusive'
  <2>1. PICK stale \in SUBSET Events, ids \in SUBSET Events :
          /\ Granted(w, stale, ids)
          /\ overruns' = 0 => overruns = 0 /\ stale \cap EventsOf(claims) = {}
    BY <1>2, ClaimFacts
  <2>2. Exclusive /\ \A c \in claims : c.event \notin stale
    BY <1>2, <2>1 DEF Claim, Undisturbed, ExclusiveInv, EventsOf
  <2>3. \A c \in claims : c.event \in Events /\ c.event \notin ids
                         /\ status[c.event] = "processing"
    BY <2>1, <2>2 DEF Granted, Claimable, Exclusive, HeldIsProcessing, TypeOK, Claimed
  <2>4. /\ claims' = claims \cup Fresh(w, ids)
        /\ status' = [e \in Events |-> IF e \in ids THEN "processing"
                                       ELSE IF e \in stale THEN "failed" ELSE status[e]]
        /\ UNCHANGED <<retry, applied>>
    BY <1>2, <2>1 DEF Granted, Claim, history
  <2>5. /\ \A c \in Fresh(w, ids) : c.event \in ids /\ c.phase = "batch"
        /\ \A c, d \in Fresh(w, ids) : c.event = d.event => c = d
    BY FreshFacts
  <2>6. \A e \in ids \cup stale : /\ status[e] \notin {"done", "dead"}
                               /\ retry[e] < MaxRetries
    BY <2>1, <2>2 DEF Granted, Claimable, Processing, Exclusive, RetriesLeft
  <2>7. AppliedOnce' /\ RetriesLeft'
    BY <2>2, <2>4, <2>6 DEF Exclusive, AppliedOnce, RetriesLeft
  <2>8. OneHolder'
    BY <2>2, <2>3, <2>4, <2>5 DEF Exclusive, OneHolder
  <2>9. HeldIsProcessing' /\ MarkingUpToDate'
    BY <2>2, <2>3, <2>4, <2>5 DEF Exclusive, HeldIsProcessing, MarkingUpToDate
  <2> QED BY <2>7, <2>8, <2>9 DEF Exclusive
<1>3. ASSUME NEW w \in Workers, BatchCommits(w)
      PROVE  Exclusive'
  <2> DEFINE done == EventsOf(BatchOf(w))
  <2>1. Exclusive
    BY <1>3, <1>u DEF BatchCommits, budgets
  <2>2. /\ done \in SUBSET Events
        /\ \A e \in done : \E c \in claims : c.event = e
        /\ claims' \subseteq claims
        /\ \A c \in claims' : c.event \notin done
    BY <1>3, <2>1 DEF BatchCommits, EventsOf, BatchOf, ClaimsOf, TypeOK, Claimed, Exclusive,
                      OneHolder
  <2>3. /\ applied' = [e \in Events |-> IF e \in done THEN applied[e] + 1 ELSE applied[e]]
        /\ status' = [e \in Events |-> IF e \in done THEN "done" ELSE status[e]]
        /\ UNCHANGED retry
    BY <1>3 DEF BatchCommits, CountBatch, Recorded
  <2> HIDE DEF done
  <2> QED BY <2>1, <2>2, <2>3, Settled
<1>4. ASSUME NEW w \in Workers, BatchFails(w)
      PROVE  Exclusive'
  <2>1. Exclusive /\ UNCHANGED <<status, retry, applied>>
    BY <1>4, <1>u DEF BatchFails, budgets, rows, history
  <2>2. \A d \in claims' : \/ d \in claims /\ d \notin BatchOf(w)
                           \/ \E c \in BatchOf(w) : d = Single(c) /\ d.phase = "single"
                                                    /\ d.event = c.event
    BY <1>4, FallBackFacts DEF BatchFails
  <2>3. BatchOf(w) \subseteq claims
    BY DEF BatchOf, ClaimsOf
  <2>4. OneHolder'
    BY <2>1, <2>2, <2>3 DEF Exclusive, OneHolder
  <2>5. \A d \in claims' : StillHeld(d)
    BY <2>2, <2>3 DEF StillHeld
  <2> QED BY <2>1, <2>4, <2>5, SameHolders
<1>5. ASSUME NEW c \in claims, SingleCommits(c)
      PROVE  Exclusive'
  <2> DEFINE done == {c.event}
  <2>1. Exclusive
    BY <1>5, <1>u DEF SingleCommits, budgets
  <2>2. /\ done \in SUBSET Events
        /\ claims' \subseteq claims
        /\ \A d \in claims' : d.event \notin done
    BY <1>5, <2>1 DEF SingleCommits, TypeOK, Claimed, Exclusive, OneHolder
  <2>3. /\ applied' = [e \in Events |-> IF e \in done THEN applied[e] + 1 ELSE applied[e]]
        /\ status' = [e \in Events |-> IF e \in done THEN "done" ELSE status[e]]
        /\ UNCHANGED retry
    BY <1>5 DEF SingleCommits, CountSingle, RecordedAlone, TypeOK, Claimed
  <2>4. \A e \in done : \E d \in claims : d.event = e
    OBVIOUS
  <2> HIDE DEF done
  <2> QED BY <2>1, <2>2, <2>3, <2>4, Settled
<1>6. ASSUME NEW c \in claims, ReadProgress(c) \/ SingleFails(c) \/ LoadFailed(c)
      PROVE  Exclusive'
  <2>1. Exclusive /\ UNCHANGED <<status, retry, applied>>
    BY <1>6, <1>u DEF ReadProgress, SingleFails, LoadFailed, budgets, rows, history
  <2>2. PICK d \in Claimed : /\ Replace(c, d) /\ d.event = c.event
                             /\ \/ d.phase # "marking"
                                \/ d.seen = retry[d.event] /\ d.was = status[d.event]
    <3>1. c \in Claimed /\ status[c.event] \in Statuses /\ retry[c.event] \in Nat
          /\ progress[TopicOf[c.event]] \in Nat
      BY TopicAssumption DEF TypeOK, Claimed
    <3>2. CASE ReadProgress(c)
      <4> DEFINE d == [c EXCEPT !.phase = "counting", !.seen = progress[TopicOf[c.event]]]
      <4>1. d \in Claimed /\ d.event = c.event /\ d.phase = "counting"
        BY <3>1 DEF Claimed, Phases
      <4> QED BY <3>2, <4>1 DEF ReadProgress
    <3>3. CASE SingleFails(c)
      <4> DEFINE d == [c EXCEPT !.phase = "failing", !.seen = 0]
      <4>1. d \in Claimed /\ d.event = c.event /\ d.phase = "failing"
        BY <3>1 DEF Claimed, Phases
      <4> QED BY <3>3, <4>1 DEF SingleFails, Raises
    <3>4. CASE LoadFailed(c)
      <4> DEFINE d == [c EXCEPT !.phase = "marking", !.seen = retry[c.event],
                                !.was = status[c.event]]
      <4>1. /\ d \in Claimed /\ d.event = c.event
            /\ d.seen = retry[d.event] /\ d.was = status[d.event]
        BY <3>1 DEF Claimed, Phases
      <4> QED BY <3>4, <4>1 DEF LoadFailed
    <3> QED BY <1>6, <3>2, <3>3, <3>4
  <2>3. OneHolder'
    BY <2>1, <2>2, ReplaceOneHolder DEF Exclusive
  <2>4. \A x \in claims' : StillHeld(x)
    BY <2>2, ReplaceFacts DEF StillHeld
  <2> QED BY <2>1, <2>3, <2>4, SameHolders
<1>7. ASSUME NEW c \in claims, MarkFailed(c)
      PROVE  Exclusive'
  <2>1. Exclusive
    BY <1>7, <1>u DEF MarkFailed, budgets
  <2>2. /\ c.event \in Events /\ c.seen = retry[c.event] /\ retry[c.event] \in Nat
        /\ c.was = "processing" /\ status[c.event] = "processing"
    BY <1>7, <2>1 DEF MarkFailed, Exclusive, MarkingUpToDate, HeldIsProcessing, TypeOK, Claimed
  <2>3. /\ retry' = [retry EXCEPT ![c.event] = retry[c.event] + 1]
        /\ status' = [status EXCEPT ![c.event] = AfterFailure(c)]
        /\ AfterFailure(c) = IF retry[c.event] + 1 >= MaxRetries THEN "dead" ELSE "failed"
        /\ claims' = claims \ {c} /\ UNCHANGED applied
    BY <1>7, <2>2 DEF MarkFailed, AfterFailure, history
  <2>4. \A d \in claims' : d \in claims /\ d.event # c.event
    BY <2>1, <2>3 DEF Exclusive, OneHolder
  <2>5. AppliedOnce' /\ RetriesLeft'
    BY <2>1, <2>2, <2>3, SizeAssumption DEF Exclusive, AppliedOnce, RetriesLeft, TypeOK
  <2>6. OneHolder' /\ HeldIsProcessing' /\ MarkingUpToDate'
    BY <2>1, <2>3, <2>4 DEF Exclusive, OneHolder, HeldIsProcessing, MarkingUpToDate, TypeOK,
                            Claimed
  <2> QED BY <2>5, <2>6 DEF Exclusive
<1>8. ASSUME UNCHANGED <<rows, applied, overruns, lost>>, claims' \subseteq claims
      PROVE  Exclusive'
  <2>1. Exclusive /\ UNCHANGED <<status, retry, applied>>
    BY <1>8, <1>u DEF rows
  <2>2. OneHolder' /\ \A d \in claims' : StillHeld(d)
    BY <1>8, <2>1 DEF Exclusive, OneHolder, StillHeld
  <2> QED BY <2>1, <2>2, SameHolders
<1>9. ASSUME NEW c \in claims, MarkFailedRaises(c)
      PROVE  Exclusive'
  <2> DEFINE S == CurrentOf(c.worker) \ {c}
             R == claims \ CurrentOf(c.worker)
             L == {Loosen(x) : x \in S}
  <2>1. Exclusive /\ UNCHANGED <<rows, status, retry, applied, overruns, lost>>
    BY <1>9, <1>u DEF MarkFailedRaises, rows, history
  <2>2. claims' \subseteq claims \/ claims' = R \cup L
    BY <1>9 DEF MarkFailedRaises, Loosen
  <2>3. CASE claims' \subseteq claims
    BY <2>1, <2>3, <1>8
  <2>4. CASE claims' = R \cup L
    <3>1. \A x \in S : /\ x \in claims /\ Loosen(x).event = x.event
                       /\ Loosen(x).phase = x.phase
                       /\ Loosen(x).seen = x.seen /\ Loosen(x).was = x.was
      BY DEF CurrentOf, ClaimsOf, TypeOK, Claimed, Loosen
    <3>2. \A d \in claims' : \/ d \in claims /\ d \notin S
                             \/ \E x \in S : d = Loosen(x)
      BY <2>4
    <3> HIDE DEF S, R, L
    <3>3. OneHolder'
      BY <2>1, <3>1, <3>2 DEF Exclusive, OneHolder
    <3>4. \A d \in claims' : StillHeld(d)
      BY <2>1, <3>1, <3>2 DEF StillHeld, Exclusive, MarkingUpToDate, HeldIsProcessing
    <3> QED BY <2>1, <3>3, <3>4, SameHolders
  <2> QED BY <2>2, <2>3, <2>4
<1>10. ASSUME NEW w \in Workers, Crash(w)
       PROVE  Exclusive'
  BY <1>10, <1>8 DEF Crash, history
<1>11. CASE UNCHANGED vars
  BY <1>11, <1>8 DEF vars, history, budgets
<1>12. \A w \in Workers : ~BatchReplyLost(w)
  BY DEF BatchReplyLost, Undisturbed, TypeOK
<1>13. \A c \in claims : ~SingleReplyLost(c)
  BY DEF SingleReplyLost, Undisturbed, TypeOK
<1> QED BY <1>1, <1>2, <1>3, <1>4, <1>5, <1>6, <1>7, <1>9, <1>10, <1>11, <1>12, <1>13 DEF Next

\* Crashes, fallbacks and retries never repeat or lose the effects of an event,
\* whatever the number of workers: only an overrun lease or a lost
\* confirmation can.
THEOREM EffectsExactlyOnce == Spec => []AppliedExactlyWhenDone
<1>1. ExclusiveInv => AppliedExactlyWhenDone
  BY DEF ExclusiveInv, Exclusive, AppliedOnce, AppliedExactlyWhenDone
<1> QED BY <1>1, TypeInit, TypeStep, ExclusiveInit, ExclusiveStep, PTL DEF Spec

\* While no lease is overrun and no confirmation lost, one worker has an event
\* in hand at a time, and every event not settled will be claimed again.
THEOREM NeverInLimbo == Spec => []NoLimbo
<1>1. ExclusiveInv => NoLimbo
  BY DEF ExclusiveInv, Exclusive, OneHolder, RetriesLeft, NoLimbo
<1> QED BY <1>1, TypeInit, TypeStep, ExclusiveInit, ExclusiveStep, PTL DEF Spec

-----------------------------------------------------------------------------
(* "dead" only after max_retries attempts raised. *)

\* The claims whose failure is not in retry_count yet.
Failing(e) == {c \in claims : c.event = e /\ c.phase \in {"failing", "marking"}}

\* retry_count may miss failures when workers overlap, but a failure a worker
\* is about to add is one that raised and is not in the count it loaded.
FailureInv ==
  /\ \A e \in Events : retry[e] + Cardinality(Failing(e)) <= raised[e]
  /\ \A c \in claims : c.phase = "marking" =>
       c.seen + Cardinality(Failing(c.event)) <= raised[c.event]

DeadInv == FailureInv /\ DeadOnlyAfterMaxFailures

LEMMA FailingFacts ==
  ASSUME TypeOK, NEW e \in Events
  PROVE  Failing(e) \subseteq claims /\ IsFiniteSet(Failing(e)) /\ Cardinality(Failing(e)) \in Nat
<1>1. Failing(e) \in SUBSET claims
  BY DEF Failing
<1>2. IsFiniteSet(Failing(e))
  BY <1>1, FS_Subset DEF TypeOK
<1> QED BY <1>1, <1>2, FS_CardinalityType

LEMMA DeadInit == Init => DeadInv
<1> SUFFICES ASSUME Init PROVE DeadInv
  OBVIOUS
<1>1. \A e \in Events : Cardinality(Failing(e)) = 0
  <2>1. \A e \in Events : Failing(e) = {}
    BY DEF Init, Failing
  <2> QED BY <2>1, FS_EmptySet
<1> QED BY <1>1 DEF Init, DeadInv, FailureInv, DeadOnlyAfterMaxFailures

\* A step in which no attempt raises and no failure is recorded: the failing
\* claims are, up to looseness, among those before the step.
LEMMA NoNewFailure ==
  ASSUME TypeOK, TypeOK', DeadInv, UNCHANGED <<retry, raised>>, NEW f,
         \A d \in claims' : d.phase \in {"failing", "marking"} =>
           \E c \in claims : /\ d = f[c] /\ c.event = d.event
                             /\ c.phase = d.phase /\ c.seen = d.seen,
         \A e \in Events : status'[e] = "dead" => status[e] = "dead"
  PROVE  DeadInv'
<1>1. \A e \in Events : Cardinality(Failing(e)') <= Cardinality(Failing(e))
  <2> SUFFICES ASSUME NEW e \in Events
               PROVE  Cardinality(Failing(e)') <= Cardinality(Failing(e))
    OBVIOUS
  <2> DEFINE S == {c \in Failing(e) : f[c] \in Failing(e)'}
             g == [c \in S |-> f[c]]
             T == Failing(e)'
  <2>1. g \in Surjection(S, T)
    BY DEF Surjection, Failing
  <2>2. IsFiniteSet(S) /\ Cardinality(S) <= Cardinality(Failing(e))
    <3> HIDE DEF g, T
    <3>1. S \in SUBSET Failing(e)
      OBVIOUS
    <3> QED BY <3>1, FailingFacts, FS_Subset
  <2>3. Cardinality(T) <= Cardinality(S)
    <3> HIDE DEF g, T, S
    <3> QED BY <2>1, <2>2, FS_Surjection
  <2>4. Cardinality(T) \in Nat /\ Cardinality(S) \in Nat
    <3> HIDE DEF g, T, S
    <3>1. IsFiniteSet(T)
      BY <2>1, <2>2, FS_Surjection
    <3> QED BY <3>1, <2>2, FS_CardinalityType
  <2> HIDE DEF S, g
  <2> QED BY <2>2, <2>3, <2>4, FailingFacts
<1>2. \A e \in Events : Cardinality(Failing(e)) \in Nat /\ Cardinality(Failing(e)') \in Nat
  <2> SUFFICES ASSUME NEW e \in Events
               PROVE  Cardinality(Failing(e)) \in Nat /\ Cardinality(Failing(e)') \in Nat
    OBVIOUS
  <2>1. IsFiniteSet(Failing(e)')
    <3>1. Failing(e)' \in SUBSET claims'
      BY DEF Failing
    <3> QED BY <3>1, FS_Subset DEF TypeOK
  <2> QED BY <2>1, FailingFacts, FS_CardinalityType
<1>3. FailureInv'
  <2>1. \A e \in Events : retry'[e] + Cardinality(Failing(e)') <= raised'[e]
    BY <1>1, <1>2 DEF DeadInv, FailureInv, TypeOK
  <2>2. ASSUME NEW d \in claims', d.phase = "marking"
        PROVE  d.seen + Cardinality(Failing(d.event)') <= raised'[d.event]
    <3>1. PICK c \in claims : c.event = d.event /\ c.phase = d.phase /\ c.seen = d.seen
      BY <2>2
    <3>2. c.event \in Events /\ c.seen \in Nat
      BY DEF TypeOK, Claimed
    <3> QED BY <2>2, <3>1, <3>2, <1>1, <1>2 DEF DeadInv, FailureInv, TypeOK
  <2> QED BY <2>1, <2>2 DEF FailureInv
<1> QED BY <1>3 DEF DeadInv, DeadOnlyAfterMaxFailures

LEMMA OneMore ==
  ASSUME NEW S, NEW x, IsFiniteSet(S)
  PROVE  /\ IsFiniteSet(S \cup {x})
         /\ Cardinality(S) \in Nat /\ Cardinality(S \cup {x}) \in Nat
         /\ Cardinality(S \cup {x}) <= Cardinality(S) + 1
<1>1. IsFiniteSet(S \cup {x})
      /\ Cardinality(S \cup {x}) = IF x \in S THEN Cardinality(S) ELSE Cardinality(S) + 1
  BY FS_AddElement
<1>2. Cardinality(S) \in Nat
  BY FS_CardinalityType
<1> QED BY <1>1, <1>2

\* What becomes of the number of failing claims when c becomes d, or is dropped.
LEMMA FailingAfterReplace ==
  ASSUME TypeOK, NEW c \in claims, NEW d \in Claimed, d.event = c.event, Replace(c, d),
         NEW e \in Events
  PROVE  /\ Cardinality(Failing(e)') \in Nat
         /\ Cardinality(Failing(e)') <=
              IF e = c.event /\ c.phase \notin {"failing", "marking"}
              THEN Cardinality(Failing(e)) + 1 ELSE Cardinality(Failing(e))
<1> DEFINE F == Failing(e)
           T == Failing(e)'
<1>1. IsFiniteSet(F) /\ Cardinality(F) \in Nat
  BY FailingFacts
<1>2. IsFiniteSet(F \cup {d}) /\ Cardinality(F \cup {d}) <= Cardinality(F) + 1
      /\ Cardinality(F \cup {d}) \in Nat
  <2> HIDE DEF F
  <2> QED BY <1>1, OneMore
<1>3. CASE e = c.event /\ c.phase \notin {"failing", "marking"}
  <2>1. T \in SUBSET (F \cup {d})
    BY DEF Failing, Replace
  <2> HIDE DEF F, T
  <2>2. IsFiniteSet(T) /\ Cardinality(T) <= Cardinality(F \cup {d}) /\ Cardinality(T) \in Nat
    BY <2>1, <1>2, FS_Subset, FS_CardinalityType
  <2> QED BY <1>1, <1>2, <1>3, <2>2 DEF F, T
<1>4. CASE e # c.event
  <2>1. T \in SUBSET F
    BY <1>4 DEF Failing, Replace
  <2> HIDE DEF F, T
  <2>2. IsFiniteSet(T) /\ Cardinality(T) <= Cardinality(F) /\ Cardinality(T) \in Nat
    BY <2>1, <1>1, FS_Subset, FS_CardinalityType
  <2> QED BY <1>4, <2>2 DEF F, T
<1>5. CASE e = c.event /\ c.phase \in {"failing", "marking"}
  <2> DEFINE R == F \ {c}
  <2>1. T \in SUBSET (R \cup {d}) /\ c \in F
    BY <1>5 DEF Failing, Replace
  <2>2. IsFiniteSet(R) /\ Cardinality(R) = Cardinality(F) - 1
    <3> HIDE DEF F
    <3> QED BY <2>1, <1>1, FS_RemoveElement
  <2> HIDE DEF F, R, T
  <2>3. IsFiniteSet(R \cup {d}) /\ Cardinality(R \cup {d}) <= Cardinality(R) + 1
        /\ Cardinality(R \cup {d}) \in Nat
    BY <2>2, OneMore
  <2>4. IsFiniteSet(T) /\ Cardinality(T) <= Cardinality(R \cup {d}) /\ Cardinality(T) \in Nat
    BY <2>1, <2>3, FS_Subset, FS_CardinalityType
  <2> QED BY <1>1, <1>5, <2>2, <2>3, <2>4 DEF F, T
<1> QED BY <1>3, <1>4, <1>5

LEMMA FailingAfterDrop ==
  ASSUME TypeOK, NEW c \in claims, c.phase = "marking", claims' = claims \ {c},
         NEW e \in Events
  PROVE  /\ Cardinality(Failing(e)') \in Nat
         /\ Cardinality(Failing(e)') = IF e = c.event THEN Cardinality(Failing(e)) - 1
                                       ELSE Cardinality(Failing(e))
<1>1. CASE e = c.event
  <2>1. Failing(e)' = Failing(e) \ {c} /\ c \in Failing(e)
    BY <1>1 DEF Failing
  <2> DEFINE F == Failing(e)
             T == Failing(e)'
  <2>2. IsFiniteSet(F)
    BY FailingFacts
  <2>3. T = F \ {c} /\ c \in F
    BY <2>1
  <2> HIDE DEF F, T
  <2>4. IsFiniteSet(T) /\ Cardinality(T) = Cardinality(F) - 1
    BY <2>2, <2>3, FS_RemoveElement
  <2>5. Cardinality(T) \in Nat
    BY <2>4, FS_CardinalityType
  <2> QED BY <1>1, <2>4, <2>5 DEF F, T
<1>2. CASE e # c.event
  <2>1. Failing(e)' = Failing(e)
    BY <1>2 DEF Failing
  <2> QED BY <1>2, <2>1, FailingFacts
<1> QED BY <1>1, <1>2

LEMMA DeadStep == TypeOK /\ TypeOK' /\ DeadInv /\ [Next]_vars => DeadInv'
<1> SUFFICES ASSUME TypeOK, TypeOK', DeadInv, [Next]_vars
             PROVE  DeadInv'
  OBVIOUS
<1>0. \A e \in Events : Cardinality(Failing(e)) \in Nat
  BY FailingFacts
<1> DEFINE same == [c \in claims |-> c]
\* Steps that neither raise nor record a failure.
<1>1. ASSUME UNCHANGED <<retry, raised>>,
             \A d \in claims' : d.phase \in {"failing", "marking"} => d \in claims,
             \A e \in Events : status'[e] = "dead" => status[e] = "dead"
      PROVE  DeadInv'
  <2>1. \A d \in claims' : d.phase \in {"failing", "marking"} =>
          \E c \in claims : /\ d = same[c] /\ c.event = d.event
                            /\ c.phase = d.phase /\ c.seen = d.seen
    BY <1>1
  <2> HIDE DEF same
  <2> QED BY <1>1, <2>1, NoNewFailure
<1>2. ASSUME NEW w \in Workers, Claim(w)
      PROVE  DeadInv'
  <2>1. PICK stale \in SUBSET Events, ids \in SUBSET Events : Granted(w, stale, ids)
    BY <1>2, ClaimFacts
  <2>2. \A c \in Fresh(w, ids) : c.phase = "batch"
    BY FreshFacts
  <2> QED BY <1>1, <1>2, <2>1, <2>2 DEF Granted, Claim, history
<1>3. ASSUME NEW w \in Workers, BatchCommits(w) \/ BatchFails(w) \/ BatchReplyLost(w)
      PROVE  DeadInv'
  <2>1. \A d \in claims' : d.phase \in {"failing", "marking"} => d \in claims
    BY <1>3, FallBackFacts DEF BatchCommits, BatchFails, BatchReplyLost
  <2>2. \A e \in Events : status'[e] = "dead" => status[e] = "dead"
    BY <1>3 DEF BatchCommits, BatchFails, BatchReplyLost, CountBatch, Recorded, rows
  <2> QED BY <1>1, <1>3, <2>1, <2>2 DEF BatchCommits, BatchFails, BatchReplyLost, rows, history
<1>4. ASSUME NEW c \in claims, ReadProgress(c) \/ SingleCommits(c)
      PROVE  DeadInv'
  <2>1. \A d \in claims' : d.phase \in {"failing", "marking"} => d \in claims
    <3>1. CASE ReadProgress(c)
      <4> DEFINE d == [c EXCEPT !.phase = "counting", !.seen = progress[TopicOf[c.event]]]
      <4>1. d.phase = "counting"
        BY DEF TypeOK, Claimed
      <4> QED BY <3>1, <4>1 DEF ReadProgress, Replace
    <3>2. CASE SingleCommits(c)
      BY <3>2 DEF SingleCommits
    <3> QED BY <1>4, <3>1, <3>2
  <2>2. \A e \in Events : status'[e] = "dead" => status[e] = "dead"
    BY <1>4 DEF ReadProgress, SingleCommits, CountSingle, RecordedAlone, TypeOK, rows
  <2> QED BY <1>1, <1>4, <2>1, <2>2 DEF ReadProgress, SingleCommits, rows, history
\* An attempt raises: one failing claim more, one more in raised.
<1>5. ASSUME NEW c \in claims, SingleFails(c) \/ SingleReplyLost(c)
      PROVE  DeadInv'
  <2> DEFINE d == [c EXCEPT !.phase = "failing", !.seen = 0]
  <2>1. c \in Claimed /\ d \in Claimed /\ d.event = c.event /\ d.phase = "failing"
        /\ c.event \in Events
    BY DEF TypeOK, Claimed, Phases
  <2>2. /\ Replace(c, d) /\ c.phase = "counting"
        /\ raised' = [raised EXCEPT ![c.event] = @ + 1]
        /\ UNCHANGED retry
    BY <1>5 DEF SingleFails, SingleReplyLost, Raises, CountSingle, RecordedAlone, rows
  <2> HIDE DEF d
  <2>3. \A e \in Events :
          /\ Cardinality(Failing(e)') \in Nat
          /\ Cardinality(Failing(e)') <= IF e = c.event THEN Cardinality(Failing(e)) + 1
                                         ELSE Cardinality(Failing(e))
    BY <2>1, <2>2, FailingAfterReplace
  <2>4. \A e \in Events : retry'[e] + Cardinality(Failing(e)') <= raised'[e]
    BY <1>0, <2>1, <2>2, <2>3 DEF DeadInv, FailureInv, TypeOK
  <2>5. ASSUME NEW x \in claims', x.phase = "marking"
        PROVE  x.seen + Cardinality(Failing(x.event)') <= raised'[x.event]
    <3>1. x \in claims /\ x.event \in Events /\ x.seen \in Nat
      BY <2>1, <2>2, <2>5 DEF Replace, TypeOK, Claimed
    <3> QED BY <1>0, <2>1, <2>2, <2>3, <2>5, <3>1 DEF DeadInv, FailureInv, TypeOK
  <2>6. \A e \in Events : status'[e] = "dead" => status[e] = "dead"
    BY <1>5 DEF SingleFails, SingleReplyLost, CountSingle, RecordedAlone, TypeOK, rows
  <2>7. DeadOnlyAfterMaxFailures'
    <3>1. \A e \in Events : raised[e] \in Nat /\ raised'[e] \in Nat /\ raised'[e] >= raised[e]
      BY <2>1, <2>2 DEF TypeOK
    <3>2. MaxRetries \in Nat
      BY SizeAssumption
    <3> QED BY <2>6, <3>1, <3>2 DEF DeadInv, DeadOnlyAfterMaxFailures
  <2> QED BY <2>4, <2>5, <2>7 DEF DeadInv, FailureInv
\* The count loaded is behind raised by the failing claims at least.
<1>6. ASSUME NEW c \in claims, LoadFailed(c)
      PROVE  DeadInv'
  <2> DEFINE d == [c EXCEPT !.phase = "marking", !.seen = retry[c.event],
                            !.was = status[c.event]]
  <2>1. /\ d \in Claimed /\ d.event = c.event /\ d.seen = retry[c.event]
        /\ c.event \in Events
    BY DEF TypeOK, Claimed, Phases
  <2>2. Replace(c, d) /\ c.phase = "failing" /\ UNCHANGED <<retry, status, raised>>
    BY <1>6 DEF LoadFailed, rows, history
  <2> HIDE DEF d
  <2>3. \A e \in Events : /\ Cardinality(Failing(e)') \in Nat
                          /\ Cardinality(Failing(e)') <= Cardinality(Failing(e))
    BY <2>1, <2>2, FailingAfterReplace
  <2>4. \A e \in Events : retry'[e] + Cardinality(Failing(e)') <= raised'[e]
    BY <1>0, <2>2, <2>3 DEF DeadInv, FailureInv, TypeOK
  <2>5. ASSUME NEW x \in claims', x.phase = "marking"
        PROVE  x.seen + Cardinality(Failing(x.event)') <= raised'[x.event]
    <3>1. CASE x = d
      BY <2>1, <2>4, <3>1, <2>2
    <3>2. CASE x \in claims
      <4>1. x.event \in Events /\ x.seen \in Nat
        BY <3>2 DEF TypeOK, Claimed
      <4> QED BY <1>0, <2>2, <2>3, <2>5, <3>2, <4>1 DEF DeadInv, FailureInv, TypeOK
    <3> QED BY <2>2, <3>1, <3>2 DEF Replace
  <2>6. DeadOnlyAfterMaxFailures'
    BY <2>2 DEF DeadInv, DeadOnlyAfterMaxFailures
  <2> QED BY <2>4, <2>5, <2>6 DEF DeadInv, FailureInv
\* A failure is recorded: the claim is gone, the row says at most one more.
<1>7. ASSUME NEW c \in claims, MarkFailed(c)
      PROVE  DeadInv'
  <2>1. /\ c.phase = "marking" /\ claims' = claims \ {c} /\ c.event \in Events
        /\ c.seen \in Nat /\ UNCHANGED raised
        /\ retry' = [retry EXCEPT ![c.event] = c.seen + 1]
    BY <1>7 DEF MarkFailed, TypeOK, Claimed, history
  <2>2. \A e \in Events : /\ Cardinality(Failing(e)') \in Nat
                          /\ Cardinality(Failing(e)') = IF e = c.event
                                                        THEN Cardinality(Failing(e)) - 1
                                                        ELSE Cardinality(Failing(e))
    BY <2>1, FailingAfterDrop
  <2>3. c.seen + Cardinality(Failing(c.event)) <= raised[c.event]
    BY <2>1 DEF DeadInv, FailureInv
  <2>4. \A e \in Events : retry'[e] + Cardinality(Failing(e)') <= raised'[e]
    BY <1>0, <2>1, <2>2, <2>3 DEF DeadInv, FailureInv, TypeOK
  <2>5. ASSUME NEW x \in claims', x.phase = "marking"
        PROVE  x.seen + Cardinality(Failing(x.event)') <= raised'[x.event]
    <3>1. x \in claims /\ x.event \in Events /\ x.seen \in Nat
      BY <2>1 DEF TypeOK, Claimed
    <3> QED BY <1>0, <2>1, <2>2, <2>5, <3>1 DEF DeadInv, FailureInv, TypeOK
  <2>6. DeadOnlyAfterMaxFailures'
    <3>1. \A e \in Events : status'[e] = "dead" =>
            status[e] = "dead" \/ (e = c.event /\ c.seen + 1 >= MaxRetries)
      BY <1>7, <2>1 DEF MarkFailed, AfterFailure, TypeOK
    <3>2. raised[c.event] \in Nat /\ MaxRetries \in Nat /\ c.seen + 1 <= raised[c.event]
      BY <1>0, <2>1, <2>2, <2>3, SizeAssumption DEF TypeOK
    <3> QED BY <2>1, <3>1, <3>2 DEF DeadInv, DeadOnlyAfterMaxFailures
  <2> QED BY <2>4, <2>5, <2>6 DEF DeadInv, FailureInv
\* A gather gives up: the failing claims that go on are the same but loose.
<1>8. ASSUME NEW c \in claims, MarkFailedRaises(c)
      PROVE  DeadInv'
  <2> DEFINE S == CurrentOf(c.worker) \ {c}
             R == claims \ CurrentOf(c.worker)
             L == {Loosen(x) : x \in S}
             f == [x \in claims |-> IF x \in S THEN Loosen(x) ELSE x]
  <2>1. UNCHANGED <<status, retry, raised>>
    BY <1>8 DEF MarkFailedRaises, rows, history
  <2>2. claims' \subseteq claims \/ claims' = R \cup L
    BY <1>8 DEF MarkFailedRaises, Loosen
  <2>3. CASE claims' \subseteq claims
    BY <1>1, <2>1, <2>3
  <2>4. CASE claims' = R \cup L
    <3>1. \A x \in S : /\ x \in claims /\ Loosen(x).event = x.event
                       /\ Loosen(x).phase = x.phase /\ Loosen(x).seen = x.seen
      BY DEF CurrentOf, ClaimsOf, TypeOK, Claimed, Loosen
    <3>2. \A d \in claims' : (d \in claims /\ d \notin S) \/ \E x \in S : d = Loosen(x)
      BY <2>4
    <3>3. \A d \in claims' : \E x \in claims : /\ d = f[x] /\ x.event = d.event
                                              /\ x.phase = d.phase /\ x.seen = d.seen
      <4> HIDE DEF S, R, L
      <4> QED BY <3>1, <3>2
    <3> HIDE DEF f, S, R, L
    <3> QED BY <2>1, <3>3, NoNewFailure
  <2> QED BY <2>2, <2>3, <2>4
<1>9. ASSUME NEW e \in Events, Enqueue(e)
      PROVE  DeadInv'
  BY <1>1, <1>9 DEF Enqueue, history, TypeOK
<1>10. ASSUME NEW w \in Workers, Crash(w)
       PROVE  DeadInv'
  BY <1>1, <1>10 DEF Crash, rows, history
<1>11. CASE UNCHANGED vars
  BY <1>1, <1>11 DEF vars, rows, history
<1> QED BY <1>2, <1>3, <1>4, <1>5, <1>6, <1>7, <1>8, <1>9, <1>10, <1>11 DEF Next

\* An event goes "dead" only after max_retries attempts at it raised, however
\* many workers overlap on it and however their retry counts interleave.
THEOREM DeadHonestly == Spec => []DeadOnlyAfterMaxFailures
<1>1. DeadInv => DeadOnlyAfterMaxFailures
  BY DEF DeadInv
<1> QED BY <1>1, TypeInit, TypeStep, DeadInit, DeadStep, PTL DEF Spec

-----------------------------------------------------------------------------
(* The outbox implements AnswerEffects. *)

Effect == [e \in Events |-> EffectOf(status[e])]

LEMMA EffectFacts ==
  /\ EffectOf("absent") = "none" /\ EffectOf("done") = "applied" /\ EffectOf("dead") = "dropped"
  /\ \A s \in {"pending", "processing", "failed"} : EffectOf(s) = "waiting"
BY DEF EffectOf

LEMMA RefinedInit == Init => Effects!Init
BY EffectFacts DEF Init, Effects!Init

LEMMA RefinedStep ==
  TypeOK /\ TypeOK' /\ Exclusive /\ Undisturbed' /\ [Next]_vars
    => [Effects!Next]_(Effects!vars)
<1> SUFFICES ASSUME TypeOK, TypeOK', Exclusive, Undisturbed', [Next]_vars
             PROVE  Effects!Next \/ UNCHANGED <<Effect, applied>>
  BY DEF Effects!vars, Effect
<1>1. ASSUME UNCHANGED <<status, applied>>
      PROVE  UNCHANGED <<Effect, applied>>
  BY <1>1 DEF Effect
<1>2. ASSUME NEW e \in Events, Enqueue(e)
      PROVE  Effects!Next
  <2>1. Effects!Accept(e)
    BY <1>2, EffectFacts DEF Enqueue, Effects!Accept, history, TypeOK
  <2> QED BY <2>1 DEF Effects!Next
<1>3. ASSUME NEW w \in Workers, Claim(w)
      PROVE  UNCHANGED <<Effect, applied>>
  <2>1. PICK stale \in SUBSET Events, ids \in SUBSET Events : Granted(w, stale, ids)
    BY <1>3, ClaimFacts
  <2>2. \A e \in Events : EffectOf(status'[e]) = EffectOf(status[e])
    BY <2>1, EffectFacts DEF Granted, Claimable, Processing
  <2> QED BY <1>3, <2>2 DEF Claim, history, Effect
<1>4. ASSUME NEW done \in SUBSET Events,
             \A e \in done : status[e] = "processing",
             applied' = [e \in Events |-> IF e \in done THEN applied[e] + 1 ELSE applied[e]],
             status' = [e \in Events |-> IF e \in done THEN "done" ELSE status[e]]
      PROVE  Effects!Next
  <2>1. Effects!Apply(done)
    BY <1>4, EffectFacts DEF Effects!Apply
  <2> QED BY <2>1 DEF Effects!Next
<1>5. ASSUME NEW w \in Workers, BatchCommits(w)
      PROVE  Effects!Next
  <2> DEFINE done == EventsOf(BatchOf(w))
  <2>1. done \in SUBSET Events /\ \A e \in done : status[e] = "processing"
    BY DEF EventsOf, BatchOf, ClaimsOf, TypeOK, Claimed, Exclusive, HeldIsProcessing
  <2>2. /\ applied' = [e \in Events |-> IF e \in done THEN applied[e] + 1 ELSE applied[e]]
        /\ status' = [e \in Events |-> IF e \in done THEN "done" ELSE status[e]]
    BY <1>5 DEF BatchCommits, CountBatch, Recorded
  <2> HIDE DEF done
  <2> QED BY <1>4, <2>1, <2>2
<1>6. ASSUME NEW c \in claims, SingleCommits(c)
      PROVE  Effects!Next
  <2> DEFINE done == {c.event}
  <2>1. done \in SUBSET Events /\ \A e \in done : status[e] = "processing"
    BY DEF TypeOK, Claimed, Exclusive, HeldIsProcessing
  <2>2. /\ applied' = [e \in Events |-> IF e \in done THEN applied[e] + 1 ELSE applied[e]]
        /\ status' = [e \in Events |-> IF e \in done THEN "done" ELSE status[e]]
    BY <1>6 DEF SingleCommits, CountSingle, RecordedAlone, TypeOK, Claimed
  <2> HIDE DEF done
  <2> QED BY <1>4, <2>1, <2>2
<1>7. ASSUME NEW c \in claims, MarkFailed(c)
      PROVE  Effects!Next \/ UNCHANGED <<Effect, applied>>
  <2>1. c.event \in Events /\ status[c.event] = "processing" /\ c.was = "processing"
    BY <1>7 DEF MarkFailed, TypeOK, Claimed, Exclusive, HeldIsProcessing, MarkingUpToDate
  <2>2. UNCHANGED applied /\ status' = [status EXCEPT ![c.event] = AfterFailure(c)]
    BY <1>7, <2>1 DEF MarkFailed, AfterFailure, history
  <2>3. CASE AfterFailure(c) = "dead"
    <3>1. Effects!Drop(c.event)
      BY <2>1, <2>2, <2>3, EffectFacts DEF Effects!Drop, TypeOK
    <3> QED BY <2>1, <3>1 DEF Effects!Next
  <2>4. CASE AfterFailure(c) = "failed"
    <3>1. \A e \in Events : EffectOf(status'[e]) = EffectOf(status[e])
      BY <2>1, <2>2, <2>4, EffectFacts DEF TypeOK
    <3> QED BY <2>2, <3>1 DEF Effect
  <2> QED BY <2>3, <2>4 DEF AfterFailure
<1>8. \A w \in Workers : ~BatchReplyLost(w)
  BY DEF BatchReplyLost, Undisturbed, TypeOK
<1>9. \A c \in claims : ~SingleReplyLost(c)
  BY DEF SingleReplyLost, Undisturbed, TypeOK
<1> QED
  BY <1>1, <1>2, <1>3, <1>5, <1>6, <1>7, <1>8, <1>9
  DEF Next, vars, rows, history, BatchFails, ReadProgress, SingleFails, Raises, LoadFailed,
      MarkFailedRaises, Crash

\* The outbox keeps the promise of AnswerEffects through crashes, fallbacks and
\* retries, as long as no lease is overrun and no confirmation lost.
THEOREM OutboxImplementsAnswerEffects ==
  ASSUME MaxOverruns = 0, MaxLost = 0
  PROVE  Spec => ImplementsAnswerEffects
<1>1. TypeOK => Undisturbed
  BY DEF TypeOK, Undisturbed
<1>2. TypeOK /\ TypeOK' /\ ExclusiveInv /\ [Next]_vars => [Effects!Next]_(Effects!vars)
  <2>1. TypeOK' => Undisturbed'
    BY DEF TypeOK, Undisturbed
  <2> QED BY <1>1, <2>1, RefinedStep DEF ExclusiveInv
<1> QED BY <1>2, RefinedInit, TypeInit, TypeStep, ExclusiveInit, ExclusiveStep, PTL
        DEF Spec, ImplementsAnswerEffects, Effects!Spec

-----------------------------------------------------------------------------
(* The progress totals. *)

\* What an event about to be written back has read is no more than was applied.
SeenInv == \A d \in claims : d.phase = "counting" => d.seen <= Applications(TopicOf[d.event])

TotalsInv == ProgressNeverOvercounts /\ SeenInv

EventsAbout(t, D) == {e \in D : TopicOf[e] = t}

LEMMA ApplicationsGrow ==
  ASSUME TypeOK, NEW D \in SUBSET Events,
         \A e \in Events : applied'[e] = IF e \in D THEN applied[e] + 1 ELSE applied[e],
         NEW t \in Topics
  PROVE  /\ Applications(t) \in Nat /\ Cardinality(EventsAbout(t, D)) \in Nat
         /\ Applications(t)' = Applications(t) + Cardinality(EventsAbout(t, D))
<1> DEFINE S == {e \in Events : TopicOf[e] = t}
           B == EventsAbout(t, D)
<1>1. /\ S \subseteq Events /\ IsFiniteSet(S) /\ B \in SUBSET S
      /\ \A e \in S : applied[e] \in Nat
      /\ \A e \in S : applied'[e] = IF e \in B THEN applied[e] + 1 ELSE applied[e]
  <2>1. S \subseteq Events
    OBVIOUS
  <2>2. IsFiniteSet(S)
    BY <2>1, EventAssumption, FS_Subset
  <2> QED BY <2>1, <2>2 DEF TypeOK, EventsAbout
<1>2. Applications(t) = SumFunctionOnSet(applied, S) /\ Applications(t)' = SumFunctionOnSet(applied', S)
  BY DEF Applications
<1>3. IsFiniteSet(B)
  BY <1>1, FS_Subset
<1> HIDE DEF S, B
<1>4. SumFunctionOnSet(applied', S) = SumFunctionOnSet(applied, S) + Cardinality(B)
  BY <1>1, SumGrows
<1>5. SumFunctionOnSet(applied, S) \in Nat
  BY <1>1, SumCounts, TokensFinite
<1> QED BY <1>2, <1>3, <1>4, <1>5, FS_CardinalityType DEF B

LEMMA TotalsInit == Init => TotalsInv
<1> SUFFICES ASSUME Init
             PROVE  TotalsInv
  OBVIOUS
<1>1. SeenInv
  BY DEF Init, SeenInv
<1>2. ASSUME NEW t \in Topics
      PROVE  progress[t] <= Applications(t)
  <2> DEFINE S == {e \in Events : TopicOf[e] = t}
  <2>1. IsFiniteSet(S) /\ \A e \in S : applied[e] \in Nat
    <3>1. S \subseteq Events
      OBVIOUS
    <3> QED BY <3>1, EventAssumption, FS_Subset DEF Init
  <2>2. Applications(t) = SumFunctionOnSet(applied, S)
    BY DEF Applications
  <2> HIDE DEF S
  <2>3. Applications(t) \in Nat
    BY <2>1, <2>2, SumCounts, TokensFinite
  <2> QED BY <2>3 DEF Init
<1> QED BY <1>1, <1>2 DEF TotalsInv, ProgressNeverOvercounts

\* A transaction applies the events of D: no total outgrows its applications, and
\* what is in hand was read before or is read now.
LEMMA TotalsKept ==
  ASSUME TypeOK, TypeOK', TotalsInv, NEW D \in SUBSET Events,
         \A e \in Events : applied'[e] = IF e \in D THEN applied[e] + 1 ELSE applied[e],
         \A t \in Topics : progress'[t] <= Applications(t) + Cardinality(EventsAbout(t, D)),
         \A d \in claims' : d.phase = "counting" =>
           \/ \E c \in claims : c.phase = "counting" /\ c.seen = d.seen /\ c.event = d.event
           \/ d.seen = progress[TopicOf[d.event]]
  PROVE  TotalsInv'
<1>1. \A t \in Topics : /\ Applications(t) \in Nat /\ Applications(t)' \in Nat
                        /\ Applications(t)' = Applications(t) + Cardinality(EventsAbout(t, D))
                        /\ Applications(t) <= Applications(t)'
  <2> SUFFICES ASSUME NEW t \in Topics
               PROVE  /\ Applications(t) \in Nat /\ Applications(t)' \in Nat
                      /\ Applications(t)' = Applications(t) + Cardinality(EventsAbout(t, D))
                      /\ Applications(t) <= Applications(t)'
    OBVIOUS
  <2>1. /\ Applications(t) \in Nat /\ Cardinality(EventsAbout(t, D)) \in Nat
        /\ Applications(t)' = Applications(t) + Cardinality(EventsAbout(t, D))
    BY ApplicationsGrow
  <2> QED BY <2>1
<1>2. ProgressNeverOvercounts'
  BY <1>1 DEF ProgressNeverOvercounts
<1>3. ASSUME NEW d \in claims', d.phase = "counting"
      PROVE  d.seen <= Applications(TopicOf[d.event])'
  <2>1. d.seen \in Nat /\ TopicOf[d.event] \in Topics
    BY TopicAssumption DEF TypeOK, Claimed
  <2>2. d.seen <= Applications(TopicOf[d.event])
    BY <1>3, <2>1 DEF TotalsInv, SeenInv, ProgressNeverOvercounts
  <2> QED BY <1>1, <2>1, <2>2
<1>4. SeenInv'
  BY <1>3 DEF SeenInv
<1> QED BY <1>2, <1>4 DEF TotalsInv

\* Nothing is applied, and what is in hand was read before or is read now.
LEMMA TotalsUntouched ==
  ASSUME TypeOK, TypeOK', TotalsInv, UNCHANGED <<progress, applied>>,
         \A d \in claims' : d.phase = "counting" =>
           \/ \E c \in claims : c.phase = "counting" /\ c.seen = d.seen /\ c.event = d.event
           \/ d.seen = progress[TopicOf[d.event]]
  PROVE  TotalsInv'
<1>1. PICK D \in SUBSET Events : D = {}
  OBVIOUS
<1>2. \A e \in Events : applied'[e] = IF e \in D THEN applied[e] + 1 ELSE applied[e]
  BY <1>1
<1>3. ASSUME NEW t \in Topics
      PROVE  progress'[t] <= Applications(t) + Cardinality(EventsAbout(t, D))
  <2>1. EventsAbout(t, D) = {}
    BY <1>1 DEF EventsAbout
  <2>2. Cardinality(EventsAbout(t, D)) = 0
    BY <2>1, FS_EmptySet
  <2>3. Applications(t) \in Nat
    BY <1>2, ApplicationsGrow
  <2>4. progress[t] <= Applications(t)
    BY DEF TotalsInv, ProgressNeverOvercounts
  <2> QED BY <2>2, <2>3, <2>4
<1> QED BY <1>2, <1>3, TotalsKept

\* A batch counts its events in one transaction, ...
LEMMA TotalsBatch ==
  ASSUME TypeOK, TypeOK', TotalsInv, NEW w \in Workers, CountBatch(w),
         \A d \in claims' : d.phase = "counting" => d \in claims
  PROVE  TotalsInv'
<1> DEFINE done == EventsOf(BatchOf(w))
<1>1. done \in SUBSET Events
  BY DEF EventsOf, BatchOf, ClaimsOf, TypeOK, Claimed
<1>2. /\ \A t \in Topics : progress'[t] = progress[t] + Cardinality(EventsAbout(t, done))
      /\ \A e \in Events : applied'[e] = IF e \in done THEN applied[e] + 1 ELSE applied[e]
  BY DEF CountBatch, Recorded, EventsAbout
<1> HIDE DEF done
<1>3. ASSUME NEW t \in Topics
      PROVE  progress'[t] <= Applications(t) + Cardinality(EventsAbout(t, done))
  <2>1. Applications(t) \in Nat /\ Cardinality(EventsAbout(t, done)) \in Nat
    BY <1>1, <1>2, ApplicationsGrow
  <2>2. progress[t] \in Nat /\ progress[t] <= Applications(t)
    BY DEF TypeOK, TotalsInv, ProgressNeverOvercounts
  <2> QED BY <1>2, <2>1, <2>2
<1> QED BY <1>1, <1>2, <1>3, TotalsKept

\* ... a single event writes back what it has read and one.
LEMMA TotalsSingle ==
  ASSUME TypeOK, TypeOK', TotalsInv, NEW c \in claims, CountSingle(c),
         \A d \in claims' : d.phase = "counting" => d \in claims
  PROVE  TotalsInv'
<1> DEFINE D == {c.event}
           u == TopicOf[c.event]
<1>1. c.event \in Events /\ u \in Topics /\ D \in SUBSET Events /\ c.seen \in Nat
  BY TopicAssumption DEF TypeOK, Claimed
<1>2. /\ \A t \in Topics : progress'[t] = IF t = u THEN c.seen + 1 ELSE progress[t]
      /\ \A e \in Events : applied'[e] = IF e \in D THEN applied[e] + 1 ELSE applied[e]
  BY <1>1 DEF CountSingle, RecordedAlone, TypeOK
<1>3. c.seen <= Applications(u)
  BY DEF CountSingle, TotalsInv, SeenInv
<1>4. Cardinality(EventsAbout(u, D)) = 1
  <2>1. EventsAbout(u, D) = {c.event}
    BY DEF EventsAbout
  <2> QED BY <2>1, FS_Singleton
<1> HIDE DEF D, u
<1>5. ASSUME NEW t \in Topics
      PROVE  progress'[t] <= Applications(t) + Cardinality(EventsAbout(t, D))
  <2>1. Applications(t) \in Nat /\ Cardinality(EventsAbout(t, D)) \in Nat
    BY <1>1, <1>2, ApplicationsGrow
  <2>2. progress[t] \in Nat /\ progress[t] <= Applications(t)
    BY DEF TypeOK, TotalsInv, ProgressNeverOvercounts
  <2>3. CASE t = u
    BY <1>1, <1>2, <1>3, <1>4, <2>1, <2>3
  <2>4. CASE t # u
    BY <1>2, <2>1, <2>2, <2>4
  <2> QED BY <2>3, <2>4
<1> QED BY <1>1, <1>2, <1>5, TotalsKept

LEMMA TotalsStep == TypeOK /\ TypeOK' /\ TotalsInv /\ [Next]_vars => TotalsInv'
<1> SUFFICES ASSUME TypeOK, TypeOK', TotalsInv, [Next]_vars
             PROVE  TotalsInv'
  OBVIOUS
<1>1. ASSUME NEW e \in Events, Enqueue(e)
      PROVE  TotalsInv'
  BY <1>1, TotalsUntouched DEF Enqueue, history
<1>2. ASSUME NEW w \in Workers, Claim(w)
      PROVE  TotalsInv'
  <2>1. PICK stale \in SUBSET Events, ids \in SUBSET Events : Granted(w, stale, ids)
    BY <1>2, ClaimFacts
  <2>2. \A d \in claims' : d.phase = "counting" => d \in claims
    BY <2>1, FreshFacts DEF Granted
  <2> QED BY <1>2, <2>2, TotalsUntouched DEF Claim, history
<1>3. ASSUME NEW w \in Workers, BatchCommits(w) \/ BatchFails(w) \/ BatchReplyLost(w)
      PROVE  TotalsInv'
  <2>1. FallBack(w) => \A d \in claims' : d.phase = "counting" => d \in claims
    BY FallBackFacts
  <2>2. CASE BatchCommits(w)
    BY <2>2, TotalsBatch DEF BatchCommits
  <2>3. CASE BatchFails(w)
    BY <2>1, <2>3, TotalsUntouched DEF BatchFails, history
  <2>4. CASE BatchReplyLost(w)
    BY <2>1, <2>4, TotalsBatch DEF BatchReplyLost
  <2> QED BY <1>3, <2>2, <2>3, <2>4
<1>4. ASSUME NEW c \in claims, ReadProgress(c)
      PROVE  TotalsInv'
  <2> DEFINE t == TopicOf[c.event]
  <2>1. PICK d : d = [c EXCEPT !.phase = "counting", !.seen = progress[t]]
    OBVIOUS
  <2>2. claims' = (claims \ {c}) \cup {d}
    BY <1>4, <2>1 DEF ReadProgress, Replace
  <2>3. d.seen = progress[t] /\ d.event = c.event
    BY <2>1 DEF TypeOK, Claimed
  <2> QED BY <1>4, <2>2, <2>3, TotalsUntouched DEF ReadProgress, history
<1>5. ASSUME NEW c \in claims, Raises(c)
      PROVE  \A d \in claims' : d.phase = "counting" => d \in claims
  <2>1. PICK d : d = [c EXCEPT !.phase = "failing", !.seen = 0]
    OBVIOUS
  <2>2. claims' = (claims \ {c}) \cup {d} /\ d.phase = "failing"
    BY <1>5, <2>1 DEF Raises, Replace, TypeOK, Claimed
  <2> QED BY <2>2
<1>6. ASSUME NEW c \in claims, SingleCommits(c) \/ SingleFails(c) \/ SingleReplyLost(c)
      PROVE  TotalsInv'
  <2>1. CASE SingleCommits(c)
    BY <2>1, TotalsSingle DEF SingleCommits
  <2>2. CASE SingleFails(c)
    BY <1>5, <2>2, TotalsUntouched DEF SingleFails
  <2>3. CASE SingleReplyLost(c)
    BY <1>5, <2>3, TotalsSingle DEF SingleReplyLost
  <2> QED BY <1>6, <2>1, <2>2, <2>3
<1>7. ASSUME NEW c \in claims, LoadFailed(c)
      PROVE  TotalsInv'
  <2>1. PICK d : d = [c EXCEPT !.phase = "marking", !.seen = retry[c.event],
                               !.was = status[c.event]]
    OBVIOUS
  <2>2. claims' = (claims \ {c}) \cup {d} /\ d.phase = "marking"
    BY <1>7, <2>1 DEF LoadFailed, Replace, TypeOK, Claimed
  <2> QED BY <1>7, <2>2, TotalsUntouched DEF LoadFailed, history
<1>8. ASSUME NEW c \in claims, MarkFailed(c)
      PROVE  TotalsInv'
  BY <1>8, TotalsUntouched DEF MarkFailed, history
<1>9. ASSUME NEW c \in claims, MarkFailedRaises(c)
      PROVE  TotalsInv'
  <2> DEFINE others == CurrentOf(c.worker) \ {c}
  <2>1. \A b \in claims : LET d == [b EXCEPT !.loose = TRUE]
                          IN d.phase = b.phase /\ d.seen = b.seen /\ d.event = b.event
    BY DEF TypeOK, Claimed
  <2>2. \A d \in claims' : d \in claims \/ \E b \in others : d = [b EXCEPT !.loose = TRUE]
    BY <1>9 DEF MarkFailedRaises
  <2>3. others \subseteq claims
    BY DEF CurrentOf, ClaimsOf
  <2>4. \A d \in claims' : d.phase = "counting" =>
          \E b \in claims : b.phase = "counting" /\ b.seen = d.seen /\ b.event = d.event
    <3> SUFFICES ASSUME NEW d \in claims', d.phase = "counting"
                 PROVE  \E b \in claims : b.phase = "counting" /\ b.seen = d.seen /\ b.event = d.event
      OBVIOUS
    <3>1. CASE d \in claims
      BY <3>1
    <3>2. CASE \E b \in others : d = [b EXCEPT !.loose = TRUE]
      <4>1. PICK b \in others : d = [b EXCEPT !.loose = TRUE]
        BY <3>2
      <4>2. b \in claims /\ d.phase = b.phase /\ d.seen = b.seen /\ d.event = b.event
        BY <2>1, <2>3, <4>1
      <4> QED BY <4>2
    <3> QED BY <2>2, <3>1, <3>2
  <2> QED BY <1>9, <2>4, TotalsUntouched DEF MarkFailedRaises, history
<1>10. ASSUME NEW w \in Workers, Crash(w)
       PROVE  TotalsInv'
  BY <1>10, TotalsUntouched DEF Crash, history
<1>11. CASE UNCHANGED vars
  BY <1>11, TotalsUntouched DEF vars, history
<1> QED BY <1>1, <1>2, <1>3, <1>4, <1>6, <1>7, <1>8, <1>9, <1>10, <1>11 DEF Next

\* The unlocked read-modify-write of the totals can lose an answer, and never
\* invents one: whatever overlaps, crashes or is repeated, a topic counts no more
\* answers than transactions have applied to it.
THEOREM TotalsNeverInvented == Spec => []ProgressNeverOvercounts
<1>1. TotalsInv => ProgressNeverOvercounts
  BY DEF TotalsInv
<1> QED BY <1>1, TypeInit, TypeStep, TotalsInit, TotalsStep, PTL DEF Spec
=============================================================================
