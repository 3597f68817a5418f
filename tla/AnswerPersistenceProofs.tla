----------------------- MODULE AnswerPersistenceProofs -----------------------
(* Machine-checked theorems about AnswerPersistence, for every set of items   *)
(* and workers, every session length, batch size and attempt limit, and every *)
(* number of crashes, claims from slow workers and expired dedupe keys.       *)
EXTENDS AnswerPersistence, FiniteSetTheorems, SequenceTheorems, WellFoundedInduction, TLAPS

-----------------------------------------------------------------------------
(* Facts about the helpers. *)

\* A batch has a last message.
LEMMA LargestExists ==
  ASSUME NEW n \in Nat, NEW S, S \subseteq 1 .. n, S # {}
  PROVE  \E k \in S : \A j \in S : j <= k
<1> DEFINE less  == OpToRel(<, Nat)
           above == {n - k : k \in S}
<1>1. \A k \in S : k \in Int /\ n - k \in Nat
  OBVIOUS
<1>2. above \subseteq Nat /\ above # {}
  BY <1>1
<1>3. IsWellFoundedOn(less, Nat)
  BY NatLessThanWellFounded
<1> HIDE DEF above, less
<1>4. PICK x \in above : \A y \in above : <<y, x>> \notin less
  BY <1>2, <1>3, WFMin
<1>5. \A y \in above : ~ (y < x)
  BY <1>2, <1>4 DEF less, OpToRel
<1>6. PICK k \in S : x = n - k
  BY DEF above
<1>7. ASSUME NEW j \in S PROVE j <= k
  <2>1. n - j \in above
    BY DEF above
  <2> QED BY <1>1, <1>5, <1>6, <2>1
<1> QED BY <1>7

LEMMA AppendFacts ==
  ASSUME NEW e \in Event, log \in Seq(Event), log' = Append(log, e)
  PROVE  /\ log' \in Seq(Event)
         /\ Len(log') = Len(log) + 1
         /\ \A k \in 1 .. Len(log) : log'[k] = log[k]
         /\ log'[Len(log) + 1] = e
BY AppendProperties

-----------------------------------------------------------------------------
(* Type correctness. *)

LEMMA TypeInit == Init => TypeOK
<1> SUFFICES ASSUME Init PROVE TypeOK
  OBVIOUS
<1> USE SizeAssumption, BoundAssumption DEF Init
<1>1. log \in Seq(Event) /\ lastDelivered \in 0 .. Len(log) /\ pending \subseteq 1 .. lastDelivered
  OBVIOUS
<1>2. cached \in [Items -> -1 .. Total - 1] /\ shownAt \in 0 .. Total - 1
  OBVIOUS
<1>3. Faults <= MaxFaults
  BY DEF Faults
<1>4. itemStatus \in [Items -> {"none", "shown", "answered"}]
  OBVIOUS
<1>5. answered \in 0 .. Total /\ crashes \in Nat /\ steals \in Nat /\ expiries \in Nat
  OBVIOUS
<1>6. /\ status \in {"active", "completed", "cancelled"} /\ current \in Items \cup {NoItem}
      /\ stored \subseteq Items /\ outboxed \subseteq Items /\ keys \subseteq Items
      /\ dead \subseteq Items /\ accepted \subseteq Items /\ hasty \in BOOLEAN
      /\ tasks \subseteq Task /\ \A t \in tasks : t.id \in 1 .. lastDelivered
  OBVIOUS
<1> QED BY ONLY <1>1, <1>2, <1>3, <1>4, <1>5, <1>6 DEF TypeOK

LEMMA LogFacts ==
  ASSUME TypeOK
  PROVE  /\ Len(log) \in Nat /\ lastDelivered \in Nat /\ lastDelivered <= Len(log)
         /\ \A k \in 1 .. Len(log) :
              /\ log[k] \in Event /\ log[k].item \in Items
              /\ log[k].count \in 1 .. Total /\ log[k].attempt \in 0 .. MaxAttempts - 1
         /\ \A t \in tasks : t.id \in 1 .. lastDelivered /\ t.id \in 1 .. Len(log)
<1>1. Len(log) \in Nat /\ lastDelivered \in Nat /\ lastDelivered <= Len(log)
  BY DEF TypeOK
<1>2. \A k \in 1 .. Len(log) : log[k] \in Event
  BY DEF TypeOK
<1>3. \A t \in tasks : t.id \in 1 .. lastDelivered
  BY DEF TypeOK
<1>4. \A k \in 1 .. Len(log) :
        log[k].item \in Items /\ log[k].count \in 1 .. Total /\ log[k].attempt \in 0 .. MaxAttempts - 1
  BY <1>2 DEF Event
<1>5. 1 .. lastDelivered \subseteq 1 .. Len(log)
  BY <1>1
<1> QED BY <1>1, <1>2, <1>3, <1>4, <1>5

\* The rows of a session are finitely many.
LEMMA StoredFinite ==
  ASSUME TypeOK
  PROVE  IsFiniteSet(stored) /\ Cardinality(stored) \in Nat
BY ItemAssumption, FS_Subset, FS_CardinalityType DEF TypeOK

\* The tasks of a worker in a phase, and what their ids are.
LEMMA BatchFacts ==
  ASSUME TypeOK, NEW w \in Workers, NEW phase
  PROVE  /\ InPhase(w, phase) \subseteq tasks
         /\ IdsOf(InPhase(w, phase)) \subseteq 1 .. lastDelivered
         /\ IdsOf(InPhase(w, phase)) \subseteq 1 .. Len(log)
         /\ ItemsOf(IdsOf(InPhase(w, phase))) \subseteq Items
         /\ \A t \in InPhase(w, phase) : t.phase = phase
         /\ \A t \in InPhase(w, phase) : log[t.id].item \in ItemsOf(IdsOf(InPhase(w, phase)))
<1>1. InPhase(w, phase) \subseteq tasks /\ \A t \in InPhase(w, phase) : t.phase = phase
  BY DEF InPhase, TasksOf
<1>2. IdsOf(InPhase(w, phase)) \subseteq 1 .. lastDelivered
      /\ IdsOf(InPhase(w, phase)) \subseteq 1 .. Len(log)
  BY <1>1, LogFacts DEF IdsOf
<1>3. ItemsOf(IdsOf(InPhase(w, phase))) \subseteq Items
  BY <1>2, LogFacts DEF ItemsOf
<1> QED BY <1>1, <1>2, <1>3 DEF ItemsOf, IdsOf

\* The event that overwrites the counters is one of the batch.
LEMMA LatestFacts ==
  ASSUME TypeOK, NEW ids, ids \subseteq 1 .. Len(log), ids # {}
  PROVE  \E k \in ids : Latest(ids) = log[k]
<1>1. \E k \in ids : \A j \in ids : j <= k
  BY LogFacts, LargestExists
<1> QED BY <1>1 DEF Latest

\* Handing a worker messages that were delivered.
LEMMA TakeOverFacts ==
  ASSUME TypeOK, NEW w \in Workers, NEW ids, NEW n \in Nat, ids \subseteq 1 .. n,
         lastDelivered <= n, TakeOver(w, ids)
  PROVE  /\ tasks' \subseteq Task
         /\ \A t \in tasks' : t.id \in 1 .. n
         /\ \A t \in tasks' : t \in tasks \/ (t.phase = "held" /\ t.id \in ids)
<1> DEFINE new == {[worker |-> w, id |-> i, phase |-> "held"] : i \in ids}
<1>1. \A t \in new : t \in Task /\ t.id \in ids /\ t.phase = "held"
  BY DEF Task
<1>2. tasks' = tasks \cup new
  BY DEF TakeOver
<1> HIDE DEF new
<1>3. \A t \in tasks : t \in Task /\ t.id \in 1 .. n
  BY LogFacts DEF TypeOK
<1> QED BY <1>1, <1>2, <1>3

\* A batch that moves on keeps its messages.
LEMMA MoveFacts ==
  ASSUME TypeOK, NEW w \in Workers, NEW from,
         NEW to \in {"held", "stored", "failed", "added"}, MoveAll(w, from, to)
  PROVE  /\ tasks' \subseteq Task
         /\ \A t \in tasks' : t.id \in 1 .. lastDelivered
         /\ \A t \in tasks' :
              t \in tasks \/ (t.phase = to /\ \E s \in InPhase(w, from) : s.id = t.id)
<1> DEFINE moved == {[t EXCEPT !.phase = to] : t \in InPhase(w, from)}
<1>0. \A s \in InPhase(w, from) : s \in Task
  <2>1. InPhase(w, from) \subseteq tasks
    BY BatchFacts
  <2> QED BY <2>1 DEF TypeOK
<1>1. \A s \in InPhase(w, from) :
        /\ [s EXCEPT !.phase = to] \in Task
        /\ [s EXCEPT !.phase = to].id = s.id /\ [s EXCEPT !.phase = to].phase = to
  BY <1>0 DEF Task
<1>2. \A t \in moved :
        t \in Task /\ t.phase = to /\ \E s \in InPhase(w, from) : s.id = t.id
  BY <1>1
<1>3. \A t \in tasks' : t \in tasks \/ t \in moved
  BY DEF MoveAll
<1> HIDE DEF moved
<1>4. \A t \in tasks : t \in Task /\ t.id \in 1 .. lastDelivered
  BY LogFacts DEF TypeOK
<1>5. \A s \in InPhase(w, from) : s \in tasks
  BY BatchFacts
<1>6. ASSUME NEW t \in moved PROVE t \in Task /\ t.id \in 1 .. lastDelivered
  <2>1. PICK s \in InPhase(w, from) : s.id = t.id
    BY <1>2
  <2> QED BY <1>2, <1>4, <1>5, <2>1
<1>7. tasks' \subseteq Task /\ \A t \in tasks' : t.id \in 1 .. lastDelivered
  BY <1>3, <1>4, <1>6
<1>8. \A t \in tasks' :
        t \in tasks \/ (t.phase = to /\ \E s \in InPhase(w, from) : s.id = t.id)
  BY <1>2, <1>3
<1> QED BY <1>7, <1>8

\* A single message that moves on.
LEMMA StepFacts ==
  ASSUME TypeOK, NEW t \in tasks, NEW to \in {"held", "stored", "failed", "added"},
         tasks' = (tasks \ {t}) \cup {[t EXCEPT !.phase = to]}
  PROVE  /\ tasks' \subseteq Task
         /\ \A s \in tasks' : s.id \in 1 .. lastDelivered
         /\ \A s \in tasks' : s \in tasks \/ (s.phase = to /\ s.id = t.id)
<1>1. t \in Task /\ [t EXCEPT !.phase = to] \in Task
      /\ [t EXCEPT !.phase = to].id = t.id /\ [t EXCEPT !.phase = to].phase = to
  BY DEF TypeOK, Task
<1> QED BY <1>1, LogFacts DEF TypeOK

LEMMA TypeStep == TypeOK /\ [Next]_vars => TypeOK'
<1> SUFFICES ASSUME TypeOK, [Next]_vars PROVE TypeOK'
  OBVIOUS
<1> USE SizeAssumption, BoundAssumption
<1>0. TypeOK
  OBVIOUS
<1>1. ASSUME NEW i \in Items, ShowQuestion(i) PROVE TypeOK'
  <2>1. Cardinality(stored) \in 0 .. Total - 1
    BY <1>1, StoredFinite DEF ShowQuestion
  <2>2. cached' \in [Items -> -1 .. Total - 1]
    BY <1>0, <1>1, <2>1 DEF ShowQuestion, Send, TypeOK
  <2>3. itemStatus' \in [Items -> {"none", "shown", "answered"}]
    BY <1>0, <1>1 DEF ShowQuestion, TypeOK
  <2> QED BY <1>0, <1>1, <2>1, <2>2, <2>3
          DEF ShowQuestion, TypeOK, Faults, session, queue, budgets
<1>2. ASSUME ResendQuestion PROVE TypeOK'
  <2>1. cached' \in [Items -> -1 .. Total - 1]
    BY <1>0, <1>2 DEF ResendQuestion, Send, TypeOK
  <2> QED BY <1>0, <1>2, <2>1
          DEF ResendQuestion, TypeOK, Faults, tables, session, queue, budgets
<1>3. ASSUME CancelSession PROVE TypeOK'
  BY <1>0, <1>3 DEF CancelSession, TypeOK, Faults, queue, budgets
<1>4. ASSUME NEW i \in Items, AcceptAnswer(i) PROVE TypeOK'
  <2> DEFINE e == [item |-> i, count |-> CountOf(i), attempt |-> 0]
  <2>1. cached[i] \in 0 .. Total - 1
    BY <1>0, <1>4 DEF AcceptAnswer, TypeOK
  <2>2. e \in Event
    BY <2>1 DEF CountOf, Event
  <2>3. log' = Append(log, e)
    BY <1>4 DEF AcceptAnswer, EnqueueAnswer
  <2> HIDE DEF e
  <2>4. log' \in Seq(Event) /\ Len(log') = Len(log) + 1
    BY <1>0, <2>2, <2>3, AppendFacts DEF TypeOK
  <2>5. lastDelivered \in 0 .. Len(log')
    BY <2>4, LogFacts
  <2> QED BY <1>0, <1>4, <2>4, <2>5
          DEF AcceptAnswer, EnqueueAnswer, TypeOK, Faults, tables, session, shown, budgets
<1>5. ASSUME NEW i \in Items, ExpireKeys(i) PROVE TypeOK'
  BY <1>0, <1>5 DEF ExpireKeys, TypeOK, Faults, tables, session, shown, queue
<1>6. ASSUME NEW i \in Items, ExpireCache(i) PROVE TypeOK'
  BY <1>0, <1>6 DEF ExpireCache, TypeOK, Faults, tables, session, queue, budgets
<1>7. ASSUME NEW w \in Workers, Read(w) PROVE TypeOK'
  <2> DEFINE newest == IF lastDelivered + BatchSize <= Len(log)
                       THEN lastDelivered + BatchSize ELSE Len(log)
             batch  == lastDelivered + 1 .. newest
  <2>1. newest \in lastDelivered .. Len(log) /\ newest \in Nat /\ batch \subseteq 1 .. newest
    BY <1>7, LogFacts DEF Read
  <2>2. /\ lastDelivered' = newest /\ pending' = pending \cup batch /\ TakeOver(w, batch)
        /\ UNCHANGED <<tables, shown, keys, log, dead, accepted, budgets>>
    BY <1>7 DEF Read
  <2> HIDE DEF newest
  <2>3. tasks' \subseteq Task /\ \A t \in tasks' : t.id \in 1 .. newest
    <3>1. lastDelivered <= newest /\ TakeOver(w, batch)
      BY <2>1, <2>2, LogFacts
    <3> HIDE DEF batch
    <3> QED BY <2>1, <3>1, TakeOverFacts
  <2>4. pending' \subseteq 1 .. newest /\ lastDelivered' \in 0 .. Len(log)
    BY <1>0, <2>1, <2>2, LogFacts DEF TypeOK
  <2> QED BY <1>0, <2>2, <2>3, <2>4 DEF TypeOK, Faults, tables, session, shown, budgets
<1>8. ASSUME NEW w \in Workers, NEW ids \in SUBSET pending, TakeOver(w, ids),
             UNCHANGED <<tables, shown, keys, queue, accepted, crashes, expiries>>,
             steals' \in Nat, crashes + steals' + expiries <= MaxFaults
      PROVE TypeOK'
  <2>1. ids \subseteq 1 .. lastDelivered /\ lastDelivered \in Nat /\ lastDelivered <= lastDelivered
    BY <1>0, LogFacts DEF TypeOK
  <2>2. tasks' \subseteq Task /\ \A t \in tasks' : t.id \in 1 .. lastDelivered
    BY <1>8, <2>1, TakeOverFacts
  <2> QED BY <1>0, <1>8, <2>2 DEF TypeOK, Faults, tables, session, shown, queue
<1>9. ASSUME NEW w \in Workers, ClaimOrphans(w) PROVE TypeOK'
  BY <1>0, <1>8, <1>9 DEF ClaimOrphans, TypeOK, Faults, budgets
<1>10. ASSUME NEW w \in Workers, ClaimFromSlow(w) PROVE TypeOK'
  <2>1. steals' \in Nat /\ crashes + steals' + expiries <= MaxFaults
    BY <1>0, <1>10 DEF ClaimFromSlow, TypeOK, Faults
  <2> QED BY <1>8, <1>10, <2>1 DEF ClaimFromSlow
<1>11. ASSUME NEW w \in Workers, Persist(w) PROVE TypeOK'
  <2> DEFINE ids == IdsOf(InPhase(w, "held"))
  <2>1. ids # {} /\ ids \subseteq 1 .. Len(log) /\ ItemsOf(ids) \subseteq Items
    BY <1>11, BatchFacts DEF Persist
  <2>2. PICK k \in ids : Latest(ids) = log[k]
    BY <2>1, LatestFacts
  <2>3. Latest(ids).count \in 1 .. Total
    BY <2>1, <2>2, LogFacts
  <2>4. /\ InsertAnswers(ids) /\ InsertOutbox(ids) /\ MarkAnswered(ids) /\ UpdateSession(ids)
        /\ MoveAll(w, "held", "stored")
        /\ UNCHANGED <<shown, keys, queue, accepted, budgets>>
    BY <1>11 DEF Persist
  <2> HIDE DEF ids
  <2>5. tasks' \subseteq Task /\ \A t \in tasks' : t.id \in 1 .. lastDelivered
    BY <2>4, MoveFacts
  <2>6. /\ answered' \in 0 .. Total /\ status' \in {"active", "completed", "cancelled"}
        /\ stored' \subseteq Items /\ outboxed' \subseteq Items
        /\ itemStatus' \in [Items -> {"none", "shown", "answered"}]
    BY <1>0, <2>1, <2>3, <2>4
       DEF TypeOK, InsertAnswers, InsertOutbox, MarkAnswered, UpdateSession
  <2> QED BY <1>0, <2>4, <2>5, <2>6 DEF TypeOK, Faults, shown, queue, budgets
<1>12. ASSUME NEW w \in Workers, PersistFails(w) PROVE TypeOK'
  <2>1. tasks' \subseteq Task /\ \A t \in tasks' : t.id \in 1 .. lastDelivered
    BY <1>12, MoveFacts DEF PersistFails
  <2> QED BY <1>0, <1>12, <2>1
          DEF PersistFails, TypeOK, Faults, tables, session, shown, queue, budgets
<1>13. ASSUME NEW w \in Workers, MarkPersisted(w) PROVE TypeOK'
  BY <1>0, <1>13 DEF MarkPersisted, TypeOK, Faults, tables, session, shown, budgets
<1>14. ASSUME NEW w \in Workers, Crash(w) PROVE TypeOK'
  BY <1>0, <1>14 DEF Crash, TypeOK, Faults, tables, session, shown, queue
<1>15. ASSUME NEW t \in tasks, Requeue(t) PROVE TypeOK'
  <2>1. tasks' \subseteq Task /\ \A s \in tasks' : s.id \in 1 .. lastDelivered
    BY <1>15, StepFacts DEF Requeue
  <2>2. t.id \in 1 .. Len(log) /\ log[t.id] \in Event
    BY LogFacts
  <2>3. CASE Exhausted(t)
    <3>1. dead' = dead \cup {log[t.id].item} /\ log' = log /\ log[t.id].item \in Items
      BY <1>15, <2>2, <2>3, LogFacts DEF Requeue
    <3> QED BY <1>0, <1>15, <2>1, <3>1
            DEF Requeue, TypeOK, Faults, tables, session, shown, budgets
  <2>4. CASE ~Exhausted(t)
    <3> DEFINE e == [log[t.id] EXCEPT !.attempt = @ + 1]
    <3>1. e \in Event
      BY <2>2, <2>4 DEF Event, Exhausted
    <3>2. log' = Append(log, e) /\ dead' = dead
      BY <1>15, <2>4 DEF Requeue
    <3> HIDE DEF e
    <3>3. log' \in Seq(Event) /\ Len(log') = Len(log) + 1
      BY <1>0, <3>1, <3>2, AppendFacts DEF TypeOK
    <3>4. lastDelivered \in 0 .. Len(log')
      BY <3>3, LogFacts
    <3> QED BY <1>0, <1>15, <2>1, <3>2, <3>3, <3>4
            DEF Requeue, TypeOK, Faults, tables, session, shown, budgets
  <2> QED BY <2>3, <2>4
<1>16. ASSUME NEW t \in tasks, Release(t) PROVE TypeOK'
  BY <1>0, <1>16 DEF Release, TypeOK, Faults, tables, session, shown, budgets
<1>17. ASSUME UNCHANGED vars PROVE TypeOK'
  BY <1>0, <1>17 DEF vars, TypeOK, Faults, tables, session, shown, queue, budgets
<1> QED
  BY <1>1, <1>2, <1>3, <1>4, <1>5, <1>6, <1>7, <1>9, <1>10, <1>11, <1>12, <1>13, <1>14,
     <1>15, <1>16, <1>17 DEF Next

\* Rows, counters, streams and batches keep their types, for all sizes.
THEOREM TypeCorrect == Spec => []TypeOK
<1>1. Init => TypeOK
  BY TypeInit
<1>2. TypeOK /\ [Next]_vars => TypeOK'
  BY TypeStep
<1> QED BY <1>1, <1>2, PTL DEF Spec

-----------------------------------------------------------------------------
(* No accepted answer is lost. *)

\* The answer of an item is settled, or an event of at least the n-th attempt
\* is still to be delivered.  Counting attempts keeps the argument from going
\* in a circle when two workers retry copies of one answer.
Covered(i, n) ==
  \/ i \in stored \cup dead
  \/ \E k \in 1 .. Len(log) : log[k].item = i /\ log[k].attempt >= n /\ InPlay(k)

\* Before a message is acknowledged its answer is stored, or buried or copied.
CoverInv ==
  /\ \A i \in accepted : Covered(i, 0)
  /\ \A t \in tasks :
       /\ t.phase = "stored" => log[t.id].item \in stored
       /\ t.phase = "added" => Covered(log[t.id].item, log[t.id].attempt + 1)

\* Tables and log only grow, and an event is only given up for something that
\* covers its answer as well.
CoverGrows ==
  /\ stored \subseteq stored' /\ dead \subseteq dead'
  /\ Len(log') \in Nat /\ Len(log') >= Len(log)
  /\ \A k \in 1 .. Len(log) :
       /\ log'[k] = log[k]
       /\ InPlay(k) => InPlay(k)' \/ Covered(log[k].item, log[k].attempt)'

LEMMA CoveredKept ==
  ASSUME TypeOK, TypeOK', CoverGrows, NEW i, NEW n \in Nat, Covered(i, n)
  PROVE  Covered(i, n)'
<1>1. CASE i \in stored \cup dead
  BY <1>1 DEF Covered, CoverGrows
<1>2. CASE \E k \in 1 .. Len(log) : log[k].item = i /\ log[k].attempt >= n /\ InPlay(k)
  <2>1. PICK k \in 1 .. Len(log) : log[k].item = i /\ log[k].attempt >= n /\ InPlay(k)
    BY <1>2
  <2>2. k \in 1 .. Len(log') /\ log'[k] = log[k]
    BY <2>1, LogFacts DEF CoverGrows
  <2>3. CASE InPlay(k)'
    BY <2>1, <2>2, <2>3 DEF Covered
  <2>4. CASE Covered(log[k].item, log[k].attempt)'
    <3>1. /\ log'[k].item = i /\ log'[k].attempt >= n /\ log'[k].attempt \in Nat
      <4>1. log[k].attempt \in Nat
        BY <2>1, LogFacts, SizeAssumption
      <4> QED BY <2>1, <2>2, <4>1
    <3>2. CASE i \in stored' \cup dead'
      BY <3>2 DEF Covered
    <3>3. CASE \E j \in 1 .. Len(log') :
                 log'[j].item = i /\ log'[j].attempt >= log'[k].attempt /\ InPlay(j)'
      <4>1. PICK j \in 1 .. Len(log') :
                 log'[j].item = i /\ log'[j].attempt >= log'[k].attempt /\ InPlay(j)'
        BY <3>3
      <4>2. log'[j] \in Event
        <5>1. log' \in Seq(Event)
          BY DEF TypeOK
        <5> QED BY <4>1, <5>1
      <4>3. log'[j].attempt \in Nat
        BY <4>2, SizeAssumption DEF Event
      <4> QED BY <3>1, <4>1, <4>3 DEF Covered
    <3> QED BY <2>4, <3>1, <3>2, <3>3 DEF Covered
  <2> QED BY <2>1, <2>3, <2>4 DEF CoverGrows
<1> QED BY <1>1, <1>2 DEF Covered

\* What is left to show of a step: its newly accepted answers and its messages.
LEMMA CoverKept ==
  ASSUME TypeOK, TypeOK', CoverInv, CoverGrows,
         \A i \in accepted' : i \in accepted \/ Covered(i, 0)',
         \A t \in tasks' :
           \/ t \in tasks
           \/ t.phase \in {"held", "failed"}
           \/ t.phase = "stored" /\ log'[t.id].item \in stored'
           \/ t.phase = "added" /\ Covered(log[t.id].item, log[t.id].attempt + 1)'
  PROVE  CoverInv'
<1>1. ASSUME NEW i \in accepted' PROVE Covered(i, 0)'
  <2>1. CASE i \in accepted
    BY <2>1, CoveredKept DEF CoverInv
  <2> QED BY <1>1, <2>1
<1>2. ASSUME NEW t \in tasks', t.phase = "stored" PROVE log'[t.id].item \in stored'
  <2>1. CASE t \in tasks
    BY <1>2, <2>1, LogFacts DEF CoverInv, CoverGrows
  <2> QED BY <1>2, <2>1
<1>3. ASSUME NEW t \in tasks', t.phase = "added"
      PROVE Covered(log[t.id].item, log[t.id].attempt + 1)'
  <2>1. CASE t \in tasks
    <3>1. log'[t.id] = log[t.id] /\ log[t.id].attempt + 1 \in Nat
      BY <2>1, LogFacts DEF CoverGrows
    <3>2. PICK i, n : i = log[t.id].item /\ n = log[t.id].attempt + 1
      OBVIOUS
    <3>3. Covered(i, n) /\ n \in Nat
      BY <1>3, <2>1, <3>1, <3>2 DEF CoverInv
    <3>4. Covered(i, n)'
      BY <3>3, CoveredKept
    <3> QED BY <3>1, <3>2, <3>4
  <2> QED BY <1>3, <2>1
<1> QED BY <1>1, <1>2, <1>3 DEF CoverInv

LEMMA CoverStep == TypeOK /\ CoverInv /\ [Next]_vars => CoverInv'
<1> SUFFICES ASSUME TypeOK, CoverInv, [Next]_vars PROVE CoverInv'
  OBVIOUS
<1>0. Len(log) \in Nat /\ lastDelivered \in Nat /\ lastDelivered <= Len(log) /\ TypeOK'
  BY LogFacts, TypeStep
<1>1. ASSUME UNCHANGED <<stored, queue, tasks, accepted>> PROVE CoverInv'
  <2>1. CoverGrows
    BY <1>0, <1>1 DEF CoverGrows, InPlay, queue
  <2> QED BY <1>1, <2>1, <1>0, CoverKept
<1>2. ASSUME NEW i \in Items, AcceptAnswer(i) PROVE CoverInv'
  <2> DEFINE e == [item |-> i, count |-> CountOf(i), attempt |-> 0]
  <2>1. /\ log' = Append(log, e) /\ accepted' = accepted \cup {i}
        /\ UNCHANGED <<stored, dead, lastDelivered, pending, tasks>>
    BY <1>2 DEF AcceptAnswer, EnqueueAnswer, tables
  <2>2. e.item = i /\ e.attempt = 0
    OBVIOUS
  <2> HIDE DEF e
  <2>3. /\ Len(log') = Len(log) + 1
        /\ \A k \in 1 .. Len(log) : log'[k] = log[k]
        /\ log'[Len(log) + 1] = e
    BY <2>1, AppendProperties DEF TypeOK
  <2>4. CoverGrows
    BY <1>0, <2>1, <2>3 DEF CoverGrows, InPlay
  <2>5. Covered(i, 0)'
    BY <1>0, <2>1, <2>2, <2>3 DEF Covered, InPlay
  <2> QED BY <2>1, <2>4, <2>5, <1>0, CoverKept
<1>3. ASSUME NEW w \in Workers, Read(w) PROVE CoverInv'
  <2> DEFINE newest == IF lastDelivered + BatchSize <= Len(log)
                       THEN lastDelivered + BatchSize ELSE Len(log)
             batch  == lastDelivered + 1 .. newest
  <2>1. /\ lastDelivered' = newest /\ pending' = pending \cup batch /\ TakeOver(w, batch)
        /\ UNCHANGED <<stored, log, dead, accepted>>
    BY <1>3 DEF Read, tables
  <2>2. newest \in lastDelivered .. Len(log)
    BY <1>0, <1>3, SizeAssumption DEF Read
  <2> HIDE DEF newest
  <2>3. \A k \in 1 .. Len(log) : InPlay(k) => InPlay(k)'
    BY <1>0, <2>1, <2>2 DEF InPlay
  <2>4. CoverGrows
    BY <1>0, <2>1, <2>3 DEF CoverGrows
  <2>5. \A t \in tasks' : t \in tasks \/ t.phase = "held"
    BY <2>1 DEF TakeOver
  <2> QED BY <2>1, <2>4, <2>5, <1>0, CoverKept
<1>4. ASSUME NEW w \in Workers, NEW ids, TakeOver(w, ids), UNCHANGED <<stored, queue, accepted>>
      PROVE CoverInv'
  <2>1. CoverGrows
    BY <1>0, <1>4 DEF CoverGrows, InPlay, queue
  <2>2. \A t \in tasks' : t \in tasks \/ t.phase = "held"
    BY <1>4 DEF TakeOver
  <2> QED BY <1>4, <2>1, <2>2, <1>0, CoverKept
<1>5. ASSUME NEW w \in Workers, Persist(w) PROVE CoverInv'
  <2> DEFINE ids == IdsOf(InPhase(w, "held"))
  <2>1. /\ stored' = stored \cup ItemsOf(ids) /\ MoveAll(w, "held", "stored")
        /\ UNCHANGED <<queue, accepted>>
    BY <1>5 DEF Persist, InsertAnswers
  <2>2. CoverGrows
    BY <1>0, <2>1 DEF CoverGrows, InPlay, queue
  <2>3. ASSUME NEW t \in tasks', t \notin tasks
        PROVE t.phase = "stored" /\ log'[t.id].item \in stored'
    <3>1. t.phase = "stored" /\ \E s \in InPhase(w, "held") : s.id = t.id
      BY <2>1, <2>3, MoveFacts
    <3>2. log[t.id].item \in ItemsOf(ids)
      BY <3>1, BatchFacts
    <3> QED BY <2>1, <3>1, <3>2 DEF queue
  <2> QED BY <2>1, <2>2, <2>3, <1>0, CoverKept
<1>6. ASSUME NEW w \in Workers, PersistFails(w) PROVE CoverInv'
  <2>1. CoverGrows
    BY <1>0, <1>6 DEF PersistFails, CoverGrows, InPlay, queue, tables
  <2>2. \A t \in tasks' : t \in tasks \/ t.phase = "failed"
    BY <1>6, MoveFacts DEF PersistFails
  <2> QED BY <1>6, <2>1, <2>2, <1>0, CoverKept DEF PersistFails
<1>7. ASSUME NEW w \in Workers, MarkPersisted(w) PROVE CoverInv'
  <2> DEFINE done == InPhase(w, "stored")
  <2>1. /\ pending' = pending \ IdsOf(done) /\ tasks' = tasks \ done
        /\ UNCHANGED <<stored, log, lastDelivered, dead, accepted>>
    BY <1>7 DEF MarkPersisted, tables
  <2>2. \A k \in IdsOf(done) : log[k].item \in stored
    BY BatchFacts DEF CoverInv, IdsOf
  <2> HIDE DEF done
  <2>3. ASSUME NEW k \in 1 .. Len(log), InPlay(k), ~InPlay(k)'
        PROVE Covered(log[k].item, log[k].attempt)'
    <3>1. k \in IdsOf(done)
      BY <2>1, <2>3 DEF InPlay
    <3> QED BY <2>1, <2>2, <3>1 DEF Covered
  <2>4. CoverGrows
    BY <1>0, <2>1, <2>3 DEF CoverGrows
  <2> QED BY <2>1, <2>4, <1>0, CoverKept
<1>8. ASSUME NEW w \in Workers, Crash(w) PROVE CoverInv'
  <2>1. CoverGrows
    BY <1>0, <1>8 DEF Crash, CoverGrows, InPlay, queue, tables
  <2> QED BY <1>8, <2>1, <1>0, CoverKept DEF Crash
<1>9. ASSUME NEW t \in tasks, Requeue(t) PROVE CoverInv'
  <2>1. t.id \in 1 .. Len(log) /\ log[t.id].attempt \in Nat
    BY LogFacts
  <2>2. \A s \in tasks' : s \in tasks \/ (s.phase = "added" /\ s.id = t.id)
    BY <1>9, StepFacts DEF Requeue
  <2>3. UNCHANGED <<stored, lastDelivered, pending, accepted>>
    BY <1>9 DEF Requeue, tables
  <2>4. CASE Exhausted(t)
    <3>1. dead' = dead \cup {log[t.id].item} /\ log' = log
      BY <1>9, <2>4 DEF Requeue
    <3>2. CoverGrows
      BY <1>0, <2>3, <3>1 DEF CoverGrows, InPlay
    <3>3. Covered(log[t.id].item, log[t.id].attempt + 1)'
      BY <3>1 DEF Covered
    <3> QED BY <2>2, <2>3, <3>2, <3>3, <1>0, CoverKept
  <2>5. CASE ~Exhausted(t)
    <3> DEFINE e == [log[t.id] EXCEPT !.attempt = @ + 1]
    <3>1. log' = Append(log, e) /\ dead' = dead
      BY <1>9, <2>5 DEF Requeue
    <3>2. e.item = log[t.id].item /\ e.attempt = log[t.id].attempt + 1
      BY <2>1, LogFacts DEF Event
    <3> HIDE DEF e
    <3>3. /\ Len(log') = Len(log) + 1
          /\ \A k \in 1 .. Len(log) : log'[k] = log[k]
          /\ log'[Len(log) + 1] = e
      BY <3>1, AppendProperties DEF TypeOK
    <3>4. CoverGrows
      BY <1>0, <2>3, <3>1, <3>3 DEF CoverGrows, InPlay
    <3>5. Covered(log[t.id].item, log[t.id].attempt + 1)'
      <4>1. Len(log) + 1 \in 1 .. Len(log') /\ Len(log) + 1 > lastDelivered'
        BY <1>0, <2>3, <3>3
      <4>2. log'[t.id] = log[t.id]
        BY <2>1, <3>3
      <4> QED BY <2>1, <3>2, <3>3, <4>1, <4>2 DEF Covered, InPlay
    <3> QED BY <2>2, <2>3, <3>4, <3>5, <1>0, CoverKept
  <2> QED BY <2>4, <2>5
<1>10. ASSUME NEW t \in tasks, Release(t) PROVE CoverInv'
  <2>1. /\ t.phase = "added" /\ tasks' = tasks \ {t} /\ pending' = pending \ {t.id}
        /\ UNCHANGED <<stored, log, lastDelivered, dead, accepted>>
    BY <1>10 DEF Release, tables
  <2>2. /\ Covered(log[t.id].item, log[t.id].attempt + 1)
        /\ t.id \in 1 .. lastDelivered /\ log[t.id].attempt \in Nat
    BY <2>1, LogFacts DEF CoverInv
  <2>3. Covered(log[t.id].item, log[t.id].attempt)'
    <3>1. CASE log[t.id].item \in stored \cup dead
      BY <2>1, <3>1 DEF Covered
    <3>2. CASE \E k \in 1 .. Len(log) : /\ log[k].item = log[t.id].item
                                       /\ log[k].attempt >= log[t.id].attempt + 1
                                       /\ InPlay(k)
      <4>1. PICK k \in 1 .. Len(log) : /\ log[k].item = log[t.id].item
                                       /\ log[k].attempt >= log[t.id].attempt + 1
                                       /\ InPlay(k)
        BY <3>2
      <4>2. k # t.id /\ log[k].attempt >= log[t.id].attempt
        BY <2>2, <4>1, LogFacts
      <4>3. InPlay(k)'
        BY <2>1, <4>1, <4>2 DEF InPlay
      <4> QED BY <2>1, <4>1, <4>2, <4>3 DEF Covered
    <3> QED BY <2>2, <3>1, <3>2 DEF Covered
  <2>4. \A k \in 1 .. Len(log) : InPlay(k) => InPlay(k)' \/ k = t.id
    BY <2>1 DEF InPlay
  <2>5. CoverGrows
    BY <1>0, <2>1, <2>3, <2>4 DEF CoverGrows
  <2> QED BY <2>1, <2>5, <1>0, CoverKept
<1> QED
  BY <1>1, <1>2, <1>3, <1>4, <1>5, <1>6, <1>7, <1>8, <1>9, <1>10
     DEF Next, vars, tables, session, queue, ShowQuestion, ResendQuestion, CancelSession,
         ExpireKeys, ExpireCache, ClaimOrphans, ClaimFromSlow

\* An answer the learner got a result for is stored, buried or still on the
\* stream, for any number of workers, crashes, claims and expired keys.
THEOREM AcceptedSafe == Spec => []AcceptedNeverLost
<1>1. Init => CoverInv
  BY DEF Init, CoverInv
<1>2. TypeOK /\ CoverInv /\ [Next]_vars => CoverInv'
  BY CoverStep
<1>3. TypeOK /\ CoverInv => AcceptedNeverLost
  BY DEF CoverInv, Covered, AcceptedNeverLost
<1> QED BY <1>1, <1>2, <1>3, TypeCorrect, PTL DEF Spec

-----------------------------------------------------------------------------
(* Stored answers have their effects. *)

LEMMA EffectsStep == TypeOK /\ StoredWithEffects /\ [Next]_vars => StoredWithEffects'
<1> SUFFICES ASSUME TypeOK, StoredWithEffects, [Next]_vars PROVE StoredWithEffects'
  OBVIOUS
<1>1. ASSUME NEW i \in Items, ShowQuestion(i) PROVE StoredWithEffects'
  BY <1>1 DEF ShowQuestion, StoredWithEffects, TypeOK
<1>2. ASSUME NEW w \in Workers, Persist(w) PROVE StoredWithEffects'
  BY <1>2 DEF Persist, InsertAnswers, InsertOutbox, MarkAnswered, StoredWithEffects
<1>3. ASSUME UNCHANGED <<stored, outboxed, itemStatus>> PROVE StoredWithEffects'
  BY <1>3 DEF StoredWithEffects
<1> QED
  BY <1>1, <1>2, <1>3
     DEF Next, vars, tables, ResendQuestion, CancelSession, AcceptAnswer, ExpireKeys, ExpireCache,
         Read, ClaimOrphans, ClaimFromSlow, PersistFails, MarkPersisted, Requeue, Release, Crash

\* A stored answer has its outbox row, an item marked answered its row.
THEOREM EffectsWithAnswers == Spec => []StoredWithEffects
<1>1. Init => StoredWithEffects
  BY DEF Init, StoredWithEffects
<1> QED BY <1>1, EffectsStep, TypeCorrect, PTL DEF Spec

-----------------------------------------------------------------------------
(* Counters never run ahead of the rows. *)

\* The rows there are with the answer of an item.
RowsWith(i) == Cardinality(stored \cup {i})

\* A number is taken from the rows before an item is answered, so with the
\* answer there are enough rows for it: where it is shown, cached or queued,
\* and however stale it is when it is written.
CountInv ==
  /\ CountNeverAhead /\ CompletedOnlyWhenAllStored
  /\ current # NoItem => shownAt + 1 <= RowsWith(current)
  /\ \A i \in Items : cached[i] + 1 <= RowsWith(i)
  /\ \A k \in 1 .. Len(log) : log[k].count <= RowsWith(log[k].item)

LEMMA RowsFacts ==
  ASSUME TypeOK, NEW i \in Items
  PROVE  /\ RowsWith(i) \in Nat /\ RowsWith(i) >= 1
         /\ i \in stored => RowsWith(i) = Cardinality(stored)
         /\ i \notin stored => RowsWith(i) = Cardinality(stored) + 1
<1>1. RowsWith(i) = IF i \in stored THEN Cardinality(stored) ELSE Cardinality(stored) + 1
  BY StoredFinite, FS_AddElement DEF RowsWith
<1>2. i \in stored => Cardinality(stored) # 0
  BY StoredFinite, FS_EmptySet
<1> QED BY <1>1, <1>2, StoredFinite

\* Rows are never deleted, so counts stay covered.
LEMMA RowsGrow ==
  ASSUME TypeOK, NEW T, T \subseteq Items, stored \subseteq T, NEW i \in Items
  PROVE  /\ IsFiniteSet(T) /\ Cardinality(T) \in Nat /\ Cardinality(stored) <= Cardinality(T)
         /\ Cardinality(T \cup {i}) \in Nat /\ RowsWith(i) <= Cardinality(T \cup {i})
<1>1. IsFiniteSet(T) /\ IsFiniteSet(T \cup {i})
  BY ItemAssumption, FS_Subset, FS_AddElement
<1>2. stored \in SUBSET T /\ stored \cup {i} \in SUBSET (T \cup {i})
  OBVIOUS
<1> QED BY <1>1, <1>2, FS_Subset, FS_CardinalityType DEF RowsWith

LEMMA CountStep == TypeOK /\ CountInv /\ [Next]_vars => CountInv'
<1> SUFFICES ASSUME TypeOK, CountInv, [Next]_vars PROVE CountInv'
  OBVIOUS
<1> USE SizeAssumption
<1>1. ASSUME NEW i \in Items, ShowQuestion(i) PROVE CountInv'
  <2>1. /\ i \notin stored /\ current' = i /\ shownAt' = Cardinality(stored)
        /\ cached' \in {cached, [cached EXCEPT ![i] = Cardinality(stored)]}
        /\ UNCHANGED <<status, answered, stored, log>>
    BY <1>1 DEF ShowQuestion, Send, session, queue
  <2>2. Cardinality(stored) + 1 <= RowsWith(i)
    BY <2>1, RowsFacts, StoredFinite
  <2>3. \A j \in Items : cached'[j] + 1 <= RowsWith(j)
    BY <2>1, <2>2 DEF CountInv, TypeOK
  <2> QED BY <2>1, <2>2, <2>3
          DEF CountInv, CountNeverAhead, CompletedOnlyWhenAllStored, RowsWith
<1>2. ASSUME ResendQuestion PROVE CountInv'
  <2>1. /\ current # NoItem
        /\ cached' \in {cached, [cached EXCEPT ![current] = shownAt]}
        /\ UNCHANGED <<status, answered, stored, current, shownAt, log>>
    BY <1>2 DEF ResendQuestion, Send, tables, session, queue
  <2>2. \A j \in Items : cached'[j] + 1 <= RowsWith(j)
    BY <2>1 DEF CountInv, TypeOK
  <2> QED BY <2>1, <2>2
          DEF CountInv, CountNeverAhead, CompletedOnlyWhenAllStored, RowsWith
<1>3. ASSUME CancelSession PROVE CountInv'
  BY <1>3 DEF CancelSession, CountInv, CountNeverAhead, CompletedOnlyWhenAllStored, RowsWith,
              queue
<1>4. ASSUME NEW e \in Event, log' = Append(log, e), e.count <= RowsWith(e.item),
             UNCHANGED <<status, answered, stored, current, shownAt, cached>>
      PROVE CountInv'
  <2>1. /\ Len(log') = Len(log) + 1
        /\ \A k \in 1 .. Len(log) : log'[k] = log[k]
        /\ log'[Len(log) + 1] = e
    BY <1>4, AppendFacts DEF TypeOK
  <2>2. ASSUME NEW k \in 1 .. Len(log') PROVE log'[k].count <= RowsWith(log'[k].item)
    <3>1. k \in 1 .. Len(log) \/ k = Len(log) + 1
      BY <2>1, LogFacts
    <3> QED BY <1>4, <2>1, <3>1 DEF CountInv
  <2> QED BY <1>4, <2>2
          DEF CountInv, CountNeverAhead, CompletedOnlyWhenAllStored, RowsWith
<1>5. ASSUME NEW i \in Items, AcceptAnswer(i) PROVE CountInv'
  <2> DEFINE e == [item |-> i, count |-> CountOf(i), attempt |-> 0]
  <2>1. /\ cached[i] \in 0 .. Total - 1 /\ log' = Append(log, e)
        /\ UNCHANGED <<status, answered, stored, current, shownAt, cached>>
    BY <1>5 DEF AcceptAnswer, EnqueueAnswer, tables, session, shown, TypeOK
  <2>2. CountOf(i) \in 1 .. Total /\ CountOf(i) = cached[i] + 1
    BY <2>1 DEF CountOf
  <2>3. e \in Event /\ e.item = i /\ e.count = CountOf(i)
    BY <2>2 DEF Event
  <2>4. CountOf(i) <= RowsWith(i)
    BY <2>2 DEF CountInv
  <2> HIDE DEF e
  <2> QED BY <1>4, <2>1, <2>3, <2>4
<1>6. ASSUME NEW i \in Items, ExpireCache(i) PROVE CountInv'
  <2>1. /\ cached' = [cached EXCEPT ![i] = -1]
        /\ UNCHANGED <<status, answered, stored, current, shownAt, log>>
    BY <1>6 DEF ExpireCache, tables, session, queue
  <2>2. \A j \in Items : cached'[j] + 1 <= RowsWith(j)
    BY <2>1, RowsFacts DEF CountInv, TypeOK
  <2> QED BY <2>1, <2>2
          DEF CountInv, CountNeverAhead, CompletedOnlyWhenAllStored, RowsWith
<1>7. ASSUME NEW w \in Workers, Persist(w) PROVE CountInv'
  <2> DEFINE ids == IdsOf(InPhase(w, "held"))
  <2>1. ids # {} /\ ids \subseteq 1 .. Len(log) /\ ItemsOf(ids) \subseteq Items
    BY <1>7, BatchFacts DEF Persist
  <2>2. /\ stored' = stored \cup ItemsOf(ids) /\ answered' = Latest(ids).count
        /\ status' = IF Latest(ids).count = Total THEN "completed" ELSE status
        /\ UNCHANGED <<current, shownAt, cached, log>>
    BY <1>7 DEF Persist, InsertAnswers, UpdateSession, shown, queue
  <2>3. PICK k \in ids : Latest(ids) = log[k]
    BY <2>1, LatestFacts
  <2>4. k \in 1 .. Len(log) /\ log[k].item \in ItemsOf(ids) /\ log[k].count \in 1 .. Total
        /\ log[k].item \in Items
    BY <2>1, LogFacts DEF ItemsOf
  <2> HIDE DEF ids
  <2>5. stored' \subseteq Items /\ stored \subseteq stored'
    BY <2>1, <2>2 DEF TypeOK
  <2>6. \A i \in Items :
          /\ Cardinality(stored') \in Nat /\ Cardinality(stored) <= Cardinality(stored')
          /\ RowsWith(i)' \in Nat /\ RowsWith(i) \in Nat /\ RowsWith(i) <= RowsWith(i)'
    BY <2>5, RowsGrow, RowsFacts DEF RowsWith
  <2>0. Cardinality(stored') \in Nat /\ Cardinality(stored) <= Cardinality(stored')
    BY <2>4, <2>6
  <2>7. log[k].count \in Int /\ log[k].count <= Cardinality(stored')
    <3>1. PICK i \in Items : i = log[k].item
      BY <2>4
    <3>2. log[k].count \in Int /\ log[k].count <= RowsWith(i)
      BY <2>4, <3>1 DEF CountInv
    <3>3. stored' \cup {i} = stored'
      BY <2>2, <2>4, <3>1
    <3>4. RowsWith(i)' = Cardinality(stored')
      BY <3>3 DEF RowsWith
    <3> QED BY <2>6, <3>2, <3>4
  <2>12. CountNeverAhead'
    BY <2>2, <2>3, <2>7 DEF CountNeverAhead
  <2>8. CompletedOnlyWhenAllStored'
    <3>2. CASE log[k].count = Total
      BY <2>0, <2>7, <3>2 DEF CompletedOnlyWhenAllStored
    <3>3. CASE log[k].count # Total
      <4>1. status' = status /\ (status = "completed" => Cardinality(stored) >= Total)
        BY <2>2, <2>3, <3>3 DEF CountInv, CompletedOnlyWhenAllStored
      <4> QED BY <2>0, <4>1, StoredFinite DEF CompletedOnlyWhenAllStored
    <3> QED BY <3>2, <3>3
  <2>9. \A i \in Items : cached[i] + 1 <= RowsWith(i)'
    <3>1. \A i \in Items : cached[i] \in Int /\ cached[i] + 1 <= RowsWith(i)
      BY DEF CountInv, TypeOK
    <3> QED BY <2>6, <3>1
  <2>10. current # NoItem => shownAt + 1 <= RowsWith(current)'
    <3>1. current # NoItem => current \in Items /\ shownAt \in Int /\ shownAt + 1 <= RowsWith(current)
      BY DEF CountInv, TypeOK
    <3>2. PICK c : c = current
      OBVIOUS
    <3>3. c # NoItem => shownAt + 1 <= RowsWith(c)'
      BY <2>6, <3>1, <3>2
    <3> QED BY <2>2, <3>2, <3>3
  <2>11. ASSUME NEW j \in 1 .. Len(log) PROVE log[j].count <= Cardinality(stored' \cup {log[j].item})
    <3>1. PICK i \in Items : i = log[j].item
      BY LogFacts
    <3>2. log[j].count \in Int /\ log[j].count <= RowsWith(i)
      BY <3>1, LogFacts DEF CountInv
    <3>3. log[j].count <= RowsWith(i)'
      BY <2>6, <3>2
    <3> QED BY <3>1, <3>3 DEF RowsWith
  <2> QED BY <2>2, <2>8, <2>9, <2>10, <2>11, <2>12 DEF CountInv, RowsWith
<1>8. ASSUME NEW t \in tasks, Requeue(t) PROVE CountInv'
  <2>1. UNCHANGED <<status, answered, stored, current, shownAt, cached>>
    BY <1>8 DEF Requeue, tables, session, shown
  <2>2. CASE Exhausted(t)
    BY <1>8, <2>1, <2>2
       DEF Requeue, CountInv, CountNeverAhead, CompletedOnlyWhenAllStored, RowsWith
  <2>3. CASE ~Exhausted(t)
    <3> DEFINE e == [log[t.id] EXCEPT !.attempt = @ + 1]
    <3>1. t.id \in 1 .. Len(log) /\ log[t.id] \in Event
      BY LogFacts
    <3>2. e \in Event /\ e.item = log[t.id].item /\ e.count = log[t.id].count
      BY <2>3, <3>1 DEF Event, Exhausted
    <3>3. log' = Append(log, e) /\ log[t.id].count <= RowsWith(log[t.id].item)
      BY <1>8, <2>3, <3>1 DEF Requeue, CountInv
    <3> HIDE DEF e
    <3> QED BY <1>4, <2>1, <3>2, <3>3
  <2> QED BY <2>2, <2>3
<1>9. ASSUME UNCHANGED <<status, answered, stored, current, shownAt, cached, log>>
      PROVE CountInv'
  BY <1>9 DEF CountInv, CountNeverAhead, CompletedOnlyWhenAllStored, RowsWith
<1> QED
  BY <1>1, <1>2, <1>3, <1>5, <1>6, <1>7, <1>8, <1>9
     DEF Next, vars, tables, session, shown, queue, ExpireKeys, Read, ClaimOrphans,
         ClaimFromSlow, PersistFails, MarkPersisted, Release, Crash

LEMMA CountTruth == Spec => []CountInv
<1>1. Init => CountInv
  <2> SUFFICES ASSUME Init PROVE CountInv
    OBVIOUS
  <2>1. TypeOK /\ answered = 0 /\ status = "active" /\ current = NoItem /\ Len(log) = 0
    BY TypeInit DEF Init
  <2>2. \A i \in Items : cached[i] + 1 <= RowsWith(i)
    <3>1. \A i \in Items : cached[i] = -1
      BY DEF Init
    <3> QED BY <2>1, <3>1, RowsFacts
  <2>3. answered <= Cardinality(stored)
    BY <2>1, StoredFinite
  <2>4. \A k \in 1 .. Len(log) : FALSE
    BY <2>1
  <2> QED BY <2>1, <2>2, <2>3, <2>4
          DEF CountInv, CountNeverAhead, CompletedOnlyWhenAllStored
<1> QED BY <1>1, CountStep, TypeCorrect, PTL DEF Spec

\* The session never counts more answers than are stored.
THEOREM CountTrails == Spec => []CountNeverAhead
<1>1. CountInv => CountNeverAhead
  BY DEF CountInv
<1> QED BY <1>1, CountTruth, PTL

\* A session is completed only when all its answers are stored.
THEOREM CompletedHonestly == Spec => []CompletedOnlyWhenAllStored
<1>1. CountInv => CompletedOnlyWhenAllStored
  BY DEF CountInv
<1> QED BY <1>1, CountTruth, PTL
=============================================================================
