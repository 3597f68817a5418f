------------------------ MODULE WebhookIngressProofs ------------------------
(***************************************************************************)
(* Machine-checked theorems about WebhookIngress, for every set of updates *)
(* and workers, every batch size, parallelism and attempt limit, and every *)
(* number of crashes, claims from slow workers and expired dedupe keys.    *)
(***************************************************************************)
EXTENDS WebhookIngress, FiniteSetTheorems, SequenceTheorems, TLAPS

-----------------------------------------------------------------------------
(* Facts about the helpers. *)

\* XADD leaves every earlier entry alone and puts the new one at the end.
LEMMA XAddFacts ==
  ASSUME NEW entry \in Entry, log \in Seq(Entry), log' = Append(log, entry)
  PROVE  /\ log' \in Seq(Entry)
         /\ Len(log') = Len(log) + 1
         /\ \A i \in 1 .. Len(log) : log'[i] = log[i]
         /\ log'[Len(log) + 1] = entry
BY AppendProperties

\* What a worker is handed for a finite set of entries is a finite set of
\* fresh tasks on these entries.
LEMMA HandOverFacts ==
  ASSUME NEW w \in Workers, NEW ids, IsFiniteSet(ids), ids \subseteq Nat
  PROVE  LET new == {[worker |-> w, id |-> i, phase |-> "fresh"] : i \in ids}
         IN /\ new \subseteq Task
            /\ IsFiniteSet(new)
            /\ \A t \in new : t.id \in ids /\ t.phase = "fresh"
<1> DEFINE new == {[worker |-> w, id |-> i, phase |-> "fresh"] : i \in ids}
           f == [i \in ids |-> [worker |-> w, id |-> i, phase |-> "fresh"]]
<1>1. new \subseteq Task /\ \A t \in new : t.id \in ids /\ t.phase = "fresh"
  BY DEF Task, Phases
<1>2. f \in Surjection(ids, new)
  BY DEF Surjection
<1>3. IsFiniteSet(new)
  <2> HIDE DEF new, f
  <2> QED BY <1>2, FS_Surjection
<1> QED BY <1>1, <1>3

\* Advancing a task replaces it by one on the same entry.
LEMMA AdvanceFacts ==
  ASSUME tasks \subseteq Task, IsFiniteSet(tasks), NEW t \in tasks,
         NEW phase \in Phases, Advance(t, phase)
  PROVE  /\ tasks' \subseteq Task
         /\ IsFiniteSet(tasks')
         /\ \A s \in tasks' : s \in tasks \/ (s.id = t.id /\ s.phase = phase)
<1>1. t \in Task /\ [t EXCEPT !.phase = phase] \in Task
      /\ [t EXCEPT !.phase = phase].id = t.id
      /\ [t EXCEPT !.phase = phase].phase = phase
  BY DEF Task
<1>2. tasks' = (tasks \ {t}) \cup {[t EXCEPT !.phase = phase]}
  BY DEF Advance
<1>3. IsFiniteSet(tasks \ {t})
  BY FS_RemoveElement
<1>4. IsFiniteSet((tasks \ {t}) \cup {[t EXCEPT !.phase = phase]})
  <2> DEFINE rest == tasks \ {t}
             moved == [t EXCEPT !.phase = phase]
  <2> HIDE DEF rest, moved
  <2>1. IsFiniteSet(rest)
    BY <1>3 DEF rest
  <2>2. IsFiniteSet(rest \cup {moved})
    BY <2>1, FS_AddElement
  <2> QED BY <2>2 DEF rest, moved
<1> QED BY <1>1, <1>2, <1>4

-----------------------------------------------------------------------------
(* Type correctness. *)

\* What TypeOK needs to be inductive: pending entries were delivered, entries
\* not delivered yet are on the stream, and an entry whose worker has
\* acknowledged it is not pending (so that XDEL leaves no pending ghost).
DeliveryInv ==
  /\ \A i \in pending : i <= lastDelivered
  /\ \A i \in lastDelivered + 1 .. Len(log) : i \in live
  /\ \A t \in tasks : t.phase \in {"acked", "deleted"} => t.id \notin pending

TypeInv == TypeOK /\ DeliveryInv

LEMMA TypeInit == Init => TypeInv
BY BoundAssumption, FS_EmptySet
   DEF Init, TypeInv, TypeOK, StreamType, TasksType, CountersType, DeliveryInv, Burial

LEMMA EntryFacts ==
  ASSUME TypeInv, NEW i \in 1 .. Len(log)
  PROVE  /\ log[i] \in Entry /\ log[i].update \in Updates
         /\ log[i].attempt \in Nat /\ log[i].attempt < MaxAttempts
<1>1. log[i] \in Entry
  BY DEF TypeInv, TypeOK, StreamType
<1> QED BY <1>1, SizeAssumption DEF Entry

\* mark_processed_many is given only messages whose dispatch returned.
LEMMA CompletedFacts ==
  ASSUME NEW w \in Workers, NEW some \in Completed(w)
  PROVE  some \subseteq tasks /\ \A t \in some : t.phase = "done"
<1> DEFINE stage == IF FastTasks(w) # {} THEN FastTasks(w) ELSE TasksOf(w)
           done  == {t \in stage : t.phase = "done"}
           flush == IF FastTasks(w) = {} /\ Cardinality(done) >= Parallelism
                    THEN {s \in SUBSET done : Cardinality(s) = Parallelism}
                    ELSE {done}
<1>1. some \in flush
  BY DEF Completed
<1>2. some \subseteq done
  BY <1>1
<1>3. done \subseteq tasks /\ \A t \in done : t.phase = "done"
  BY DEF TasksOf, FastTasks
<1> QED BY <1>2, <1>3

LEMMA TasksNumbered ==
  ASSUME TypeInv, NEW t \in tasks
  PROVE  /\ t \in Task
         /\ t.id \in 1 .. lastDelivered /\ t.id \in 1 .. Len(log)
         /\ UpdateOf(t) \in Updates /\ AttemptOf(t) \in 0 .. MaxAttempts - 1
<1>1. t.id \in 1 .. lastDelivered /\ t.id \in 1 .. Len(log) /\ t \in Task
  BY DEF TypeInv, TypeOK, TasksType, StreamType
<1>2. log[t.id] \in Entry
  BY <1>1 DEF TypeInv, TypeOK, StreamType
<1> QED BY <1>1, <1>2 DEF UpdateOf, AttemptOf, Entry

\* Handing a worker entries that were delivered keeps the tasks well typed.
LEMMA HandOverType ==
  ASSUME TypeInv, NEW w \in Workers, NEW ids, NEW n \in Nat,
         ids \subseteq 1 .. n, HandOver(w, ids)
  PROVE  /\ tasks' \subseteq Task
         /\ IsFiniteSet(tasks')
         /\ \A t \in tasks' : t \in tasks \/ (t.id \in ids /\ t.phase = "fresh")
<1> DEFINE new == {[worker |-> w, id |-> i, phase |-> "fresh"] : i \in ids}
<1>1. IsFiniteSet(ids) /\ ids \subseteq Nat
  <2>1. IsFiniteSet(1 .. n)
    BY FS_Interval
  <2>2. ids \in SUBSET (1 .. n)
    OBVIOUS
  <2>3. IsFiniteSet(ids)
    BY <2>1, <2>2, FS_Subset
  <2> QED BY <2>2, <2>3
<1>2. new \subseteq Task /\ IsFiniteSet(new)
      /\ \A t \in new : t.id \in ids /\ t.phase = "fresh"
  BY <1>1, HandOverFacts
<1>3. tasks' = tasks \cup new
  BY DEF HandOver
<1>4. IsFiniteSet(tasks \cup new)
  BY <1>2, FS_Union DEF TypeInv, TypeOK, TasksType
<1> QED BY <1>2, <1>3, <1>4 DEF TypeInv, TypeOK, TasksType

LEMMA TypeStep == TypeInv /\ [Next]_vars => TypeInv'
<1> SUFFICES ASSUME TypeInv, [Next]_vars PROVE TypeInv'
  OBVIOUS
<1> USE SizeAssumption, BoundAssumption
<1> USE DEF TypeInv, TypeOK
<1>0. /\ pending \subseteq 1 .. Len(log) /\ Len(log) \in Nat /\ lastDelivered \in Nat
      /\ pending \subseteq 1 .. lastDelivered
      /\ live \subseteq 1 .. Len(log) /\ lastDelivered \in 0 .. Len(log)
  BY DEF StreamType, DeliveryInv
<1>1. ASSUME NEW u \in Updates, Enqueue(u) PROVE TypeInv'
  <2>1. [update |-> u, attempt |-> 0] \in Entry
    BY DEF Entry
  <2>2. /\ log' \in Seq(Entry) /\ Len(log') = Len(log) + 1
        /\ live' = live \cup {Len(log) + 1}
    BY <1>1, <2>1, XAddFacts DEF Enqueue, XAdd, StreamType
  <2>3. StreamType'
    <3>1. live' \subseteq 1 .. Len(log')
      <4>1. Len(log) + 1 \in 1 .. Len(log') /\ 1 .. Len(log) \subseteq 1 .. Len(log')
        BY <1>0, <2>2
      <4> QED BY <1>0, <2>2, <4>1
    <3>2. lastDelivered' \in 0 .. Len(log')
      BY <1>0, <1>1, <2>2 DEF Enqueue
    <3> QED BY <1>1, <2>2, <3>1, <3>2 DEF Enqueue, Reply, StreamType
  <2>4. TasksType' /\ CountersType'
    BY <1>1 DEF Enqueue, TasksType, CountersType, metrics, history, budgets
  <2>5. DeliveryInv'
    BY <1>0, <1>1, <2>2 DEF Enqueue, DeliveryInv
  <2> QED BY <2>3, <2>4, <2>5
<1>2. ASSUME NEW u \in Updates, Duplicate(u) PROVE TypeInv'
  BY <1>2 DEF Duplicate, Reply, StreamType, TasksType, CountersType, DeliveryInv,
              stream, metrics, history, budgets
<1>3. ASSUME NEW u \in Updates, ExpireDedupe(u) PROVE TypeInv'
  BY <1>3 DEF ExpireDedupe, StreamType, TasksType, CountersType, DeliveryInv,
              stream, metrics, history
<1>4. ASSUME NEW w \in Workers, Read(w) PROVE TypeInv'
  <2> DEFINE newest == IF lastDelivered + BatchSize <= Len(log)
                       THEN lastDelivered + BatchSize ELSE Len(log)
             batch == lastDelivered + 1 .. newest
  <2>1. newest \in lastDelivered .. Len(log) /\ batch \subseteq 1 .. Len(log)
        /\ newest \in Nat /\ batch \subseteq 1 .. newest
    BY <1>0, <1>4 DEF Read
  <2>2. /\ lastDelivered' = newest /\ pending' = pending \cup batch
        /\ HandOver(w, batch)
        /\ UNCHANGED <<acked, dedupe, log, live, dead, metrics, history, budgets>>
    BY <1>4 DEF Read
  <2> HIDE DEF newest
  <2>3. /\ tasks' \subseteq Task /\ IsFiniteSet(tasks')
        /\ \A t \in tasks' : t \in tasks \/ (t.id \in batch /\ t.phase = "fresh")
    BY <2>1, <2>2, HandOverType
  <2>4. batch \subseteq live
    BY <1>0, <2>1 DEF DeliveryInv
  <2>5. StreamType'
    BY <1>0, <2>1, <2>2, <2>4 DEF StreamType
  <2>6. TasksType' /\ CountersType'
    BY <1>0, <2>1, <2>2, <2>3 DEF TasksType, CountersType, metrics, history, budgets
  <2>7. DeliveryInv'
    BY <1>0, <2>1, <2>2, <2>3 DEF DeliveryInv, TasksType
  <2> QED BY <2>5, <2>6, <2>7
<1>5. ASSUME NEW w \in Workers, NEW ids \in SUBSET pending, HandOver(w, ids),
             UNCHANGED <<acked, dedupe, stream, dead, metrics, history, crashes, expiries>>,
             steals' \in 0 .. MaxSteals
      PROVE TypeInv'
  <2>1. ids \subseteq 1 .. lastDelivered
    BY <1>0
  <2>2. /\ tasks' \subseteq Task /\ IsFiniteSet(tasks')
        /\ \A t \in tasks' : t \in tasks \/ (t.id \in ids /\ t.phase = "fresh")
    BY <1>0, <1>5, <2>1, HandOverType
  <2>3. StreamType' /\ CountersType'
    BY <1>5 DEF StreamType, CountersType, stream, metrics, history
  <2>4. TasksType' /\ DeliveryInv'
    BY <1>0, <1>5, <2>1, <2>2 DEF TasksType, DeliveryInv, stream
  <2> QED BY <2>3, <2>4
<1>6. ASSUME NEW w \in Workers, ClaimOrphans(w) PROVE TypeInv'
  BY <1>5, <1>6 DEF ClaimOrphans, budgets, CountersType
<1>7. ASSUME NEW w \in Workers, ClaimFromSlow(w) PROVE TypeInv'
  BY <1>5, <1>7 DEF ClaimFromSlow, CountersType
<1>8. ASSUME NEW w \in Workers, MarkProcessed(w) PROVE TypeInv'
  <2>0. PICK some \in Completed(w) :
          LET ids == {t.id : t \in some}
          IN /\ pending' = pending \ ids
             /\ live' = live \ ids
             /\ tasks' = tasks \ some
             /\ processedTotal' = processedTotal + Cardinality(some)
    BY <1>8 DEF MarkProcessed
  <2> DEFINE ids == {t.id : t \in some}
  <2>1. /\ pending' = pending \ ids
        /\ live' = live \ ids
        /\ tasks' = tasks \ some
        /\ processedTotal' = processedTotal + Cardinality(some)
    BY <2>0
  <2>2. some \subseteq tasks
    BY CompletedFacts
  <2>3. IsFiniteSet(some) /\ Cardinality(some) \in Nat /\ IsFiniteSet(tasks \ some)
    BY <2>2, FS_Subset, FS_CardinalityType, FS_Difference DEF TasksType
  <2>4. ids \subseteq 1 .. lastDelivered
    BY <2>2 DEF TasksType
  <2> HIDE DEF ids
  <2>5. UNCHANGED <<acked, dedupe, log, lastDelivered, dead, failedTotal, deadTotal,
                    history, budgets>>
    BY <1>8 DEF MarkProcessed
  <2>6. StreamType' /\ DeliveryInv'
    BY <1>0, <2>1, <2>4, <2>5 DEF StreamType, DeliveryInv
  <2>7. TasksType' /\ CountersType'
    BY <2>1, <2>3, <2>5 DEF TasksType, CountersType, history, budgets
  <2> QED BY <2>6, <2>7
<1>9. ASSUME NEW w \in Workers, Crash(w) PROVE TypeInv'
  <2>1. IsFiniteSet(tasks \ TasksOf(w))
    BY FS_Difference DEF TasksType
  <2> QED BY <1>9, <2>1 DEF Crash, StreamType, TasksType, CountersType, DeliveryInv,
                            stream, metrics, history
<1>10. ASSUME NEW t \in tasks, NEW phase \in Phases, Advance(t, phase),
              lastDelivered' = lastDelivered
       PROVE /\ TasksType'
             /\ \A s \in tasks' : s \in tasks \/ (s.id = t.id /\ s.phase = phase)
  BY <1>10, AdvanceFacts DEF TasksType
<1>11. ASSUME NEW t \in tasks, DispatchReturns(t) PROVE TypeInv'
  <2>1. TasksType' /\ \A s \in tasks' : s \in tasks \/ (s.id = t.id /\ s.phase = "done")
    BY <1>10, <1>11 DEF DispatchReturns, Phases, stream
  <2>2. CountersType'
    BY <1>11, TasksNumbered DEF DispatchReturns, CountersType, metrics, budgets
  <2> QED BY <1>11, <2>1, <2>2 DEF DispatchReturns, StreamType, DeliveryInv, stream
<1>12. ASSUME NEW t \in tasks, DispatchRaises(t) PROVE TypeInv'
  <2>1. TasksType' /\ \A s \in tasks' : s \in tasks \/ (s.id = t.id /\ s.phase = "failed")
    BY <1>10, <1>12 DEF DispatchRaises, Phases, stream
  <2>2. CountersType'
    BY <1>12, TasksNumbered DEF DispatchRaises, CountersType, metrics, budgets
  <2> QED BY <1>12, <2>1, <2>2 DEF DispatchRaises, StreamType, DeliveryInv, stream
<1>13. ASSUME NEW t \in tasks, AddRetry(t) PROVE TypeInv'
  <2>1. [update |-> UpdateOf(t), attempt |-> AttemptOf(t) + 1] \in Entry
    BY <1>13, TasksNumbered DEF AddRetry, Exhausted, Entry
  <2>2. /\ log' \in Seq(Entry) /\ Len(log') = Len(log) + 1
        /\ live' = live \cup {Len(log) + 1}
    BY <1>13, <2>1, XAddFacts DEF AddRetry, XAdd, StreamType
  <2>3. TasksType' /\ \A s \in tasks' : s \in tasks \/ (s.id = t.id /\ s.phase = "added")
    BY <1>10, <1>13 DEF AddRetry, Phases
  <2>4. StreamType'
    <3>1. live' \subseteq 1 .. Len(log')
      <4>1. Len(log) + 1 \in 1 .. Len(log') /\ 1 .. Len(log) \subseteq 1 .. Len(log')
        BY <1>0, <2>2
      <4> QED BY <1>0, <2>2, <4>1
    <3>2. lastDelivered' \in 0 .. Len(log')
      BY <1>0, <1>13, <2>2 DEF AddRetry
    <3> QED BY <1>13, <2>2, <3>1, <3>2 DEF AddRetry, StreamType
  <2>5. CountersType'
    BY <1>13 DEF AddRetry, CountersType, metrics, history, budgets
  <2>6. DeliveryInv'
    BY <1>0, <1>13, <2>2, <2>3 DEF AddRetry, DeliveryInv
  <2> QED BY <2>3, <2>4, <2>5, <2>6
<1>14. ASSUME NEW t \in tasks, AddDead(t) PROVE TypeInv'
  <2>1. [update |-> UpdateOf(t), attempts |-> AttemptOf(t) + 1, original |-> t.id] \in Burial
    BY <1>0, TasksNumbered DEF Burial
  <2>2. dead' \in Seq(Burial)
    BY <1>14, <2>1, AppendProperties DEF AddDead, StreamType
  <2>3. TasksType' /\ \A s \in tasks' : s \in tasks \/ (s.id = t.id /\ s.phase = "added")
    BY <1>10, <1>14 DEF AddDead, Phases, stream
  <2> QED BY <1>14, <2>2, <2>3
          DEF AddDead, StreamType, CountersType, DeliveryInv, stream, metrics, history, budgets
<1>15. ASSUME NEW t \in tasks, Ack(t) PROVE TypeInv'
  <2>1. TasksType' /\ \A s \in tasks' : s \in tasks \/ (s.id = t.id /\ s.phase = "acked")
    BY <1>10, <1>15 DEF Ack, Phases
  <2> QED BY <1>15, <2>1
          DEF Ack, StreamType, CountersType, DeliveryInv, metrics, history, budgets
<1>16. ASSUME NEW t \in tasks, Delete(t) PROVE TypeInv'
  <2>1. TasksType' /\ \A s \in tasks' : s \in tasks \/ (s.id = t.id /\ s.phase = "deleted")
    BY <1>10, <1>16 DEF Delete, Phases
  <2>2. t.id \notin pending /\ t.id \in 1 .. lastDelivered
    BY <1>16, TasksNumbered DEF Delete, DeliveryInv
  <2>3. StreamType'
    BY <1>16, <2>2 DEF Delete, StreamType
  <2>4. CountersType'
    BY <1>16 DEF Delete, CountersType, metrics, history, budgets
  <2>5. DeliveryInv'
    BY <1>0, <1>16, <2>1, <2>2 DEF Delete, DeliveryInv
  <2> QED BY <2>1, <2>3, <2>4, <2>5
<1>17. ASSUME NEW t \in tasks, CountRetry(t) PROVE TypeInv'
  <2>1. IsFiniteSet(tasks \ {t})
    BY FS_RemoveElement DEF TasksType
  <2> QED BY <1>17, <2>1 DEF CountRetry, StreamType, TasksType, CountersType, DeliveryInv,
                             stream, history, budgets
<1>18. ASSUME UNCHANGED vars PROVE TypeInv'
  BY <1>18 DEF vars, StreamType, TasksType, CountersType, DeliveryInv,
               stream, metrics, history, budgets
<1> QED
  BY <1>1, <1>2, <1>3, <1>4, <1>6, <1>7, <1>8, <1>9, <1>11, <1>12, <1>13, <1>14, <1>15,
     <1>16, <1>17, <1>18 DEF Next

\* Every reachable state is well typed.
THEOREM TypeCorrect == Spec => []TypeOK
<1>1. Spec => []TypeInv
  BY TypeInit, TypeStep, PTL DEF Spec
<1> QED BY <1>1, PTL DEF TypeInv

-----------------------------------------------------------------------------
(* No acknowledged update is lost. *)

\* Update u is settled, or an entry that carries it with attempt a or later
\* will still be delivered.
Covered(u, a) ==
  \/ Settled(u)
  \/ \E i \in 1 .. Len(log) : log[i].update = u /\ log[i].attempt >= a /\ InPlay(i)

\* NoAckedUpdateLost is not inductive: XACK takes an entry out of play, so the
\* copy that stands for it must be known to be covered in turn.  Attempt
\* numbers grow along a chain of copies, which is why it cannot be circular.
CoverInv ==
  /\ \A u \in acked \cup dedupe : Covered(u, 0)
  /\ \A t \in tasks : t.phase = "done" => dispatched[UpdateOf(t)] > 0
  /\ \A t \in tasks : t.phase \in {"added", "acked", "deleted"} =>
                        Covered(UpdateOf(t), AttemptOf(t) + 1)

LEMMA LogGrows ==
  ASSUME TypeInv, [Next]_vars
  PROVE  /\ Len(log') \in Nat /\ Len(log) \in Nat /\ Len(log) <= Len(log')
         /\ \A i \in 1 .. Len(log) : log'[i] = log[i]
<1> USE DEF TypeInv, TypeOK, StreamType
<1>1. CASE UNCHANGED log
  BY <1>1
<1>2. ASSUME NEW entry \in Entry, XAdd(entry)
      PROVE /\ Len(log') = Len(log) + 1
            /\ \A i \in 1 .. Len(log) : log'[i] = log[i]
  BY <1>2, XAddFacts DEF XAdd
<1>3. ASSUME NEW u \in Updates, Enqueue(u)
      PROVE Len(log') = Len(log) + 1 /\ \A i \in 1 .. Len(log) : log'[i] = log[i]
  <2>1. [update |-> u, attempt |-> 0] \in Entry
    BY SizeAssumption DEF Entry
  <2> QED BY <1>2, <1>3, <2>1 DEF Enqueue
<1>4. ASSUME NEW t \in tasks, AddRetry(t)
      PROVE Len(log') = Len(log) + 1 /\ \A i \in 1 .. Len(log) : log'[i] = log[i]
  <2>1. [update |-> UpdateOf(t), attempt |-> AttemptOf(t) + 1] \in Entry
    BY <1>4, SizeAssumption, TasksNumbered DEF AddRetry, Exhausted, Entry
  <2> QED BY <1>2, <1>4, <2>1 DEF AddRetry
<1>5. CASE \E u \in Updates : Enqueue(u)
  BY <1>3, <1>5
<1>6. CASE \E t \in tasks : AddRetry(t)
  BY <1>4, <1>6
<1> QED
  BY <1>1, <1>5, <1>6
     DEF Next, vars, stream, Duplicate, ExpireDedupe, Read, ClaimOrphans, ClaimFromSlow,
         MarkProcessed, Crash, DispatchReturns, DispatchRaises, AddDead, Ack, Delete, CountRetry

\* An update that was handled or buried stays so.
LEMMA SettledStable ==
  ASSUME TypeInv, [Next]_vars, NEW u \in Updates, Settled(u)
  PROVE  Settled(u)'
<1> USE DEF TypeInv, TypeOK
<1>1. ASSUME NEW t \in tasks, DispatchReturns(t) PROVE Settled(u)'
  <2>1. dispatched' = [dispatched EXCEPT ![UpdateOf(t)] = @ + 1] /\ UNCHANGED dead
    BY <1>1 DEF DispatchReturns
  <2>2. dispatched[u] \in Nat /\ UpdateOf(t) \in Updates /\ DOMAIN dispatched = Updates
    BY TasksNumbered DEF CountersType
  <2>3. dispatched[u] > 0 => dispatched'[u] > 0
    BY <2>1, <2>2
  <2> QED BY <2>1, <2>3 DEF Settled, Buried
<1>2. ASSUME NEW t \in tasks, AddDead(t) PROVE Settled(u)'
  <2>1. [update |-> UpdateOf(t), attempts |-> AttemptOf(t) + 1, original |-> t.id] \in Burial
    BY TasksNumbered DEF Burial, StreamType
  <2>2. /\ Len(dead') = Len(dead) + 1 /\ Len(dead) \in Nat
        /\ \A k \in 1 .. Len(dead) : dead'[k] = dead[k]
    BY <1>2, <2>1, AppendProperties DEF AddDead, StreamType
  <2>3. Buried(u) => Buried(u)'
    BY <2>2 DEF Buried
  <2> QED BY <1>2, <2>3 DEF AddDead, Settled, history
<1>3. CASE UNCHANGED <<dispatched, dead>>
  BY <1>3 DEF Settled, Buried
<1>4. CASE \E t \in tasks : DispatchReturns(t)
  BY <1>1, <1>4
<1>5. CASE \E t \in tasks : AddDead(t)
  BY <1>2, <1>5
<1> QED
  BY <1>3, <1>4, <1>5
     DEF Next, vars, history, Enqueue, Duplicate, ExpireDedupe, Read, ClaimOrphans,
         ClaimFromSlow, MarkProcessed, Crash, DispatchRaises, AddRetry, Ack, Delete, CountRetry

\* Only XACK and the MULTI of mark_processed_many take an entry out of play.
LEMMA InPlayKept ==
  ASSUME TypeInv, [Next]_vars, NEW i \in 1 .. Len(log), InPlay(i),
         \A w \in Workers : ~MarkProcessed(w),
         \A t \in tasks : Ack(t) => t.id # i
  PROVE  InPlay(i)'
<1> USE DEF InPlay
<1>0. lastDelivered \in Nat /\ i \in Nat
  BY DEF TypeInv, TypeOK, StreamType
<1>1. ASSUME NEW w \in Workers, Read(w) PROVE InPlay(i)'
  <2> DEFINE newest == IF lastDelivered + BatchSize <= Len(log)
                       THEN lastDelivered + BatchSize ELSE Len(log)
  <2>1. /\ lastDelivered' = newest /\ UNCHANGED live
        /\ pending' = pending \cup (lastDelivered + 1 .. newest)
    BY <1>1 DEF Read
  <2>2. newest \in Nat
    BY <1>0, SizeAssumption DEF TypeInv, TypeOK, StreamType
  <2> HIDE DEF newest
  <2> QED BY <1>0, <2>1, <2>2
<1>2. ASSUME NEW t \in tasks, Ack(t) PROVE InPlay(i)'
  BY <1>2 DEF Ack
<1>3. ASSUME NEW t \in tasks, Delete(t) PROVE InPlay(i)'
  <2>1. t.id \notin pending /\ t.id <= lastDelivered
    BY <1>3, TasksNumbered DEF Delete, TypeInv, DeliveryInv
  <2> QED BY <1>0, <1>3, <2>1 DEF Delete
<1>4. ASSUME UNCHANGED <<lastDelivered, pending>>, live \subseteq live' PROVE InPlay(i)'
  BY <1>4
<1>5. CASE \E w \in Workers : Read(w)
  BY <1>1, <1>5
<1>6. CASE \E t \in tasks : Ack(t) \/ Delete(t)
  BY <1>2, <1>3, <1>6
<1> QED
  BY <1>4, <1>5, <1>6
     DEF Next, vars, stream, XAdd, Enqueue, Duplicate, ExpireDedupe, ClaimOrphans,
         ClaimFromSlow, Crash, DispatchReturns, DispatchRaises, AddRetry, AddDead, CountRetry

\* Cover once given is never withdrawn.
LEMMA CoveredStable ==
  ASSUME TypeInv, CoverInv, [Next]_vars, NEW u \in Updates, NEW a \in Nat, Covered(u, a)
  PROVE  Covered(u, a)'
<1>1. CASE Settled(u)
  BY <1>1, SettledStable DEF Covered
<1>2. ASSUME NEW i \in 1 .. Len(log), InPlay(i)',
             log[i].update = u, log[i].attempt >= a
      PROVE Covered(u, a)'
  <2>1. i \in 1 .. Len(log') /\ log'[i] = log[i]
    BY LogGrows
  <2> QED BY <1>2, <2>1 DEF Covered
<1>3. CASE ~Settled(u)
  <2>1. PICK i \in 1 .. Len(log) : log[i].update = u /\ log[i].attempt >= a /\ InPlay(i)
    BY <1>3 DEF Covered
  <2>2. log[i].attempt \in Nat
    BY SizeAssumption, EntryFacts
  <2>3. ASSUME NEW w \in Workers, MarkProcessed(w) PROVE Covered(u, a)'
    <3>1. PICK some \in Completed(w) :
            /\ pending' = pending \ {t.id : t \in some}
            /\ live' = live \ {t.id : t \in some}
      BY <2>3 DEF MarkProcessed
    <3>2. \A t \in some : t \in tasks /\ t.phase = "done"
      BY CompletedFacts
    <3>3. i \notin {t.id : t \in some}
      BY <1>3, <2>1, <3>2 DEF CoverInv, Settled, UpdateOf
    <3>4. UNCHANGED lastDelivered
      BY <2>3 DEF MarkProcessed
    <3>5. InPlay(i)'
      BY <2>1, <3>1, <3>3, <3>4 DEF InPlay
    <3> QED BY <1>2, <2>1, <3>5
  <2>4. ASSUME NEW t \in tasks, Ack(t), t.id = i PROVE Covered(u, a)'
    <3>1. Covered(u, log[i].attempt + 1)
      BY <2>1, <2>4 DEF CoverInv, Ack, UpdateOf, AttemptOf
    <3>2. PICK j \in 1 .. Len(log) :
            log[j].update = u /\ log[j].attempt >= log[i].attempt + 1 /\ InPlay(j)
      BY <1>3, <3>1 DEF Covered
    <3>3. j # i /\ log[j].attempt \in Nat
      BY <2>2, <3>2, EntryFacts
    <3>4. log[j].attempt >= a
      BY <2>1, <2>2, <3>2, <3>3
    <3>5. InPlay(j)'
      BY <2>4, <3>2, <3>3 DEF Ack, InPlay
    <3> QED BY <1>2, <3>2, <3>4, <3>5
  <2>5. CASE (\A w \in Workers : ~MarkProcessed(w)) /\ \A t \in tasks : Ack(t) => t.id # i
    BY <1>2, <2>1, <2>5, InPlayKept
  <2> QED BY <2>3, <2>4, <2>5
<1> QED BY <1>1, <1>3

LEMMA CoverInit == Init => CoverInv
BY DEF Init, CoverInv

\* What a task stands for does not change while it lives.
LEMMA SameEntry ==
  ASSUME TypeInv, [Next]_vars, NEW t \in tasks
  PROVE  UpdateOf(t)' = UpdateOf(t) /\ AttemptOf(t)' = AttemptOf(t)
BY LogGrows, TasksNumbered DEF UpdateOf, AttemptOf

\* A step leaves every task as it is, takes tasks away, or hands out fresh
\* ones, unless it is one of the seven steps a worker takes on one task.
LEMMA TaskSteps ==
  ASSUME TypeInv, [Next]_vars, NEW s \in tasks', s \notin tasks
  PROVE  \/ s.phase = "fresh"
         \/ \E t \in tasks : /\ s.id = t.id
                             /\ \/ DispatchReturns(t) /\ s.phase = "done"
                                \/ DispatchRaises(t) /\ s.phase = "failed"
                                \/ AddRetry(t) /\ s.phase = "added"
                                \/ AddDead(t) /\ s.phase = "added"
                                \/ Ack(t) /\ s.phase = "acked"
                                \/ Delete(t) /\ s.phase = "deleted"
<1>1. ASSUME NEW t \in tasks, NEW phase \in Phases, Advance(t, phase)
      PROVE s.id = t.id /\ s.phase = phase
  BY <1>1, AdvanceFacts DEF TypeInv, TypeOK, TasksType
<1>2. ASSUME NEW w \in Workers, NEW ids, HandOver(w, ids) PROVE s.phase = "fresh"
  BY <1>2 DEF HandOver
<1>3. ASSUME tasks' \subseteq tasks PROVE FALSE
  BY <1>3
<1>4. CASE \E w \in Workers : Read(w) \/ ClaimOrphans(w) \/ ClaimFromSlow(w)
  BY <1>2, <1>4 DEF Read, ClaimOrphans, ClaimFromSlow
<1>5. CASE \E t \in tasks : \/ DispatchReturns(t) \/ DispatchRaises(t) \/ AddRetry(t)
                            \/ AddDead(t) \/ Ack(t) \/ Delete(t)
  BY <1>1, <1>5
     DEF Phases, DispatchReturns, DispatchRaises, AddRetry, AddDead, Ack, Delete
<1> QED
  BY <1>3, <1>4, <1>5
     DEF Next, vars, Enqueue, Duplicate, ExpireDedupe, MarkProcessed, Crash, CountRetry

LEMMA CoverStep == TypeInv /\ CoverInv /\ [Next]_vars => CoverInv'
<1> SUFFICES ASSUME TypeInv, CoverInv, [Next]_vars PROVE CoverInv'
  OBVIOUS
<1>0. TypeInv'
  BY TypeStep
<1>1. \A u \in Updates, a \in Nat : Covered(u, a) => Covered(u, a)'
  BY CoveredStable
<1>2. \A u \in acked' \cup dedupe' : Covered(u, 0)'
  <2> SUFFICES ASSUME NEW u \in acked' \cup dedupe' PROVE Covered(u, 0)'
    OBVIOUS
  <2>1. u \in Updates
    BY <1>0 DEF TypeInv, TypeOK, StreamType
  <2>2. CASE u \in acked \cup dedupe
    BY <1>1, <2>1, <2>2 DEF CoverInv
  <2>3. CASE u \notin acked \cup dedupe
    <3>1. Enqueue(u)
      BY <2>3 DEF Next, vars, Enqueue, Duplicate, ExpireDedupe, Reply, Read, ClaimOrphans,
                  ClaimFromSlow, MarkProcessed, Crash, DispatchReturns, DispatchRaises,
                  AddRetry, AddDead, Ack, Delete, CountRetry
    <3>2. [update |-> u, attempt |-> 0] \in Entry
      BY <2>1, SizeAssumption DEF Entry
    <3>3. /\ Len(log') = Len(log) + 1 /\ Len(log) \in Nat
          /\ log'[Len(log) + 1] = [update |-> u, attempt |-> 0]
      BY <3>1, <3>2, XAddFacts DEF Enqueue, XAdd, TypeInv, TypeOK, StreamType
    <3>4. Len(log) + 1 \in live' /\ Len(log) + 1 > lastDelivered'
      BY <3>1, <3>3 DEF Enqueue, XAdd, TypeInv, TypeOK, StreamType
    <3>5. Len(log) + 1 \in 1 .. Len(log')
      BY <3>3
    <3> QED BY <3>3, <3>4, <3>5 DEF Covered, InPlay
  <2> QED BY <2>2, <2>3
<1>3. ASSUME NEW s \in tasks'
      PROVE /\ s.phase = "done" => dispatched'[UpdateOf(s)'] > 0
            /\ s.phase \in {"added", "acked", "deleted"} =>
                 Covered(UpdateOf(s), AttemptOf(s) + 1)'
  <2>1. CASE s \in tasks
    <3>1. /\ UpdateOf(s)' = UpdateOf(s) /\ AttemptOf(s)' = AttemptOf(s)
          /\ UpdateOf(s) \in Updates /\ AttemptOf(s) + 1 \in Nat
      BY <2>1, SameEntry, TasksNumbered
    <3>2. s.phase = "done" => dispatched'[UpdateOf(s)] > 0
      <4>1. ASSUME NEW t \in tasks, DispatchReturns(t), dispatched[UpdateOf(s)] > 0
            PROVE dispatched'[UpdateOf(s)] > 0
        BY <3>1, <4>1, TasksNumbered DEF DispatchReturns, TypeInv, TypeOK, CountersType
      <4>2. CASE \E t \in tasks : DispatchReturns(t)
        BY <2>1, <4>1, <4>2 DEF CoverInv
      <4>3. CASE UNCHANGED dispatched
        BY <2>1, <4>3 DEF CoverInv
      <4> QED BY <4>2, <4>3
        DEF Next, vars, history, Enqueue, Duplicate, ExpireDedupe, Read, ClaimOrphans,
            ClaimFromSlow, MarkProcessed, Crash, DispatchRaises, AddRetry, AddDead, Ack,
            Delete, CountRetry
    <3> QED BY <1>1, <2>1, <3>1, <3>2 DEF CoverInv
  <2>2. CASE s \notin tasks
    <3>1. CASE s.phase = "fresh"
      BY <3>1
    <3>2. ASSUME NEW t \in tasks, s.id = t.id
          PROVE /\ UpdateOf(s)' = UpdateOf(t) /\ AttemptOf(s)' = AttemptOf(t)
                /\ UpdateOf(t) \in Updates /\ AttemptOf(t) + 1 \in Nat
      BY <3>2, LogGrows, TasksNumbered DEF UpdateOf, AttemptOf
    <3>3. ASSUME NEW t \in tasks, s.id = t.id, DispatchReturns(t)
          PROVE dispatched'[UpdateOf(s)'] > 0
      BY <3>2, <3>3 DEF DispatchReturns, TypeInv, TypeOK, CountersType
    <3>4. ASSUME NEW t \in tasks, s.id = t.id, AddRetry(t)
          PROVE Covered(UpdateOf(s), AttemptOf(s) + 1)'
      <4> DEFINE copy == [update |-> UpdateOf(t), attempt |-> AttemptOf(t) + 1]
      <4>1. copy \in Entry
        BY <3>4, SizeAssumption, TasksNumbered DEF AddRetry, Exhausted, Entry
      <4>2. /\ Len(log') = Len(log) + 1 /\ Len(log) \in Nat
            /\ log'[Len(log) + 1] = copy
        BY <3>4, <4>1, XAddFacts DEF AddRetry, XAdd, TypeInv, TypeOK, StreamType
      <4>3. Len(log) + 1 \in live' /\ Len(log) + 1 > lastDelivered'
        BY <3>4, <4>2 DEF AddRetry, XAdd, TypeInv, TypeOK, StreamType
      <4>4. Len(log) + 1 \in 1 .. Len(log')
        BY <4>2
      <4> QED BY <3>2, <3>4, <4>2, <4>3, <4>4 DEF Covered, InPlay
    <3>5. ASSUME NEW t \in tasks, s.id = t.id, AddDead(t)
          PROVE Covered(UpdateOf(s), AttemptOf(s) + 1)'
      <4> DEFINE burial == [update |-> UpdateOf(t), attempts |-> AttemptOf(t) + 1,
                            original |-> t.id]
      <4>1. burial \in Burial
        BY TasksNumbered DEF Burial, TypeInv, TypeOK, StreamType
      <4>2. Len(dead') = Len(dead) + 1 /\ dead'[Len(dead) + 1] = burial /\ Len(dead) \in Nat
        BY <3>5, <4>1, AppendProperties DEF AddDead, TypeInv, TypeOK, StreamType
      <4> QED BY <3>2, <3>5, <4>2 DEF Covered, Settled, Buried
    <3>6. ASSUME NEW t \in tasks, s.id = t.id, Ack(t) \/ Delete(t)
          PROVE Covered(UpdateOf(s), AttemptOf(s) + 1)'
      <4>1. Covered(UpdateOf(t), AttemptOf(t) + 1)
        BY <3>6 DEF CoverInv, Ack, Delete
      <4>2. Covered(UpdateOf(t), AttemptOf(t) + 1)'
        BY <1>1, <3>2, <3>6, <4>1, SameEntry
      <4> QED BY <3>2, <3>6, <4>2, SameEntry
    <3> QED BY <2>2, <3>1, <3>3, <3>4, <3>5, <3>6, TaskSteps
  <2> QED BY <2>1, <2>2
<1> QED BY <1>2, <1>3 DEF CoverInv

\* Telegram is never told 200 for an update that then disappears, whatever
\* crashes, is claimed twice or expires (retry_or_dead, mark_processed_many).
THEOREM AckedNeverLost == Spec => []NoAckedUpdateLost
<1>1. TypeInv /\ CoverInv => NoAckedUpdateLost
  BY DEF CoverInv, Covered, NoAckedUpdateLost
<1>2. Spec => [](TypeInv /\ CoverInv)
  BY TypeInit, CoverInit, TypeStep, CoverStep, PTL DEF Spec
<1> QED BY <1>1, <1>2, PTL

-----------------------------------------------------------------------------
(* An update is buried only after max_attempts dispatches of it raised. *)

\* An attempt number never runs ahead of the dispatches that raised.
FailureInv ==
  /\ \A i \in 1 .. Len(log) : log[i].attempt <= failures[log[i].update]
  /\ \A t \in tasks : t.phase \in {"failed", "added", "acked", "deleted"} =>
                        AttemptOf(t) + 1 <= failures[UpdateOf(t)]
  /\ BuriedOnlyAfterMaxFailures

LEMMA FailureInit == Init => FailureInv
BY DEF Init, FailureInv, BuriedOnlyAfterMaxFailures

LEMMA FailuresGrow ==
  ASSUME TypeInv, [Next]_vars, NEW u \in Updates
  PROVE  failures[u] \in Nat /\ failures'[u] \in Nat /\ failures[u] <= failures'[u]
<1>0. failures \in [Updates -> Nat]
  BY DEF TypeInv, TypeOK, CountersType
<1>1. ASSUME NEW t \in tasks, DispatchRaises(t)
      PROVE failures'[u] \in Nat /\ failures[u] <= failures'[u]
  BY <1>0, <1>1, TasksNumbered DEF DispatchRaises
<1>2. CASE \E t \in tasks : DispatchRaises(t)
  BY <1>0, <1>1, <1>2
<1>3. CASE UNCHANGED failures
  BY <1>0, <1>3
<1> QED
  BY <1>0, <1>2, <1>3
     DEF Next, vars, history, Enqueue, Duplicate, ExpireDedupe, Read, ClaimOrphans,
         ClaimFromSlow, MarkProcessed, Crash, DispatchReturns, AddRetry, AddDead, Ack,
         Delete, CountRetry

LEMMA FailureStep == TypeInv /\ FailureInv /\ [Next]_vars => FailureInv'
<1> SUFFICES ASSUME TypeInv, FailureInv, [Next]_vars PROVE FailureInv'
  OBVIOUS
<1>1. ASSUME NEW i \in 1 .. Len(log') PROVE log'[i].attempt <= failures'[log'[i].update]
  <2>1. CASE i \in 1 .. Len(log)
    <3>1. log'[i] = log[i] /\ log[i].attempt <= failures[log[i].update]
      BY <2>1, LogGrows DEF FailureInv
    <3>2. log[i].update \in Updates /\ log[i].attempt \in Nat
      BY <2>1, EntryFacts
    <3> QED BY <3>1, <3>2, FailuresGrow
  <2>2. CASE i \notin 1 .. Len(log)
    <3>1. ASSUME NEW u \in Updates, Enqueue(u)
          PROVE log'[i].attempt <= failures'[log'[i].update]
      <4>1. [update |-> u, attempt |-> 0] \in Entry
        BY SizeAssumption DEF Entry
      <4>2. log'[i] = [update |-> u, attempt |-> 0]
        BY <2>2, <3>1, <4>1, XAddFacts, LogGrows
           DEF Enqueue, XAdd, TypeInv, TypeOK, StreamType
      <4> QED BY <4>2, FailuresGrow
    <3>2. ASSUME NEW t \in tasks, AddRetry(t)
          PROVE log'[i].attempt <= failures'[log'[i].update]
      <4>1. [update |-> UpdateOf(t), attempt |-> AttemptOf(t) + 1] \in Entry
        BY <3>2, SizeAssumption, TasksNumbered DEF AddRetry, Exhausted, Entry
      <4>2. log'[i] = [update |-> UpdateOf(t), attempt |-> AttemptOf(t) + 1]
        BY <2>2, <3>2, <4>1, XAddFacts, LogGrows
           DEF AddRetry, XAdd, TypeInv, TypeOK, StreamType
      <4>3. AttemptOf(t) + 1 <= failures[UpdateOf(t)]
        BY <3>2 DEF AddRetry, MayRetry, FailureInv
      <4> QED BY <4>2, <4>3, FailuresGrow, TasksNumbered
    <3>3. CASE UNCHANGED log
      BY <2>2, <3>3
    <3> QED
      BY <3>1, <3>2, <3>3
         DEF Next, vars, stream, Duplicate, ExpireDedupe, Read, ClaimOrphans,
             ClaimFromSlow, MarkProcessed, Crash, DispatchReturns, DispatchRaises,
             AddDead, Ack, Delete, CountRetry
  <2> QED BY <2>1, <2>2
<1>2. ASSUME NEW s \in tasks', s.phase \in {"failed", "added", "acked", "deleted"}
      PROVE AttemptOf(s)' + 1 <= failures'[UpdateOf(s)']
  <2>1. CASE s \in tasks
    BY <1>2, <2>1, SameEntry, FailuresGrow, TasksNumbered DEF FailureInv
  <2>2. CASE s \notin tasks
    <3>1. PICK t \in tasks :
            /\ s.id = t.id
            /\ \/ DispatchRaises(t)
               \/ t.phase \in {"failed", "added", "acked", "deleted"}
      BY <1>2, <2>2, TaskSteps DEF AddRetry, AddDead, MayRetry, Ack, Delete
    <3>2. /\ UpdateOf(s)' = UpdateOf(t) /\ AttemptOf(s)' = AttemptOf(t)
          /\ UpdateOf(t) \in Updates /\ AttemptOf(t) \in Nat
      BY <3>1, LogGrows, TasksNumbered DEF UpdateOf, AttemptOf
    <3>3. CASE DispatchRaises(t)
      <4>1. AttemptOf(t) <= failures[UpdateOf(t)]
        BY TasksNumbered DEF FailureInv, UpdateOf, AttemptOf
      <4>2. failures'[UpdateOf(t)] = failures[UpdateOf(t)] + 1
        BY <3>2, <3>3 DEF DispatchRaises, TypeInv, TypeOK, CountersType
      <4> QED BY <3>2, <4>1, <4>2, FailuresGrow
    <3>4. CASE t.phase \in {"failed", "added", "acked", "deleted"}
      BY <3>2, <3>4, FailuresGrow DEF FailureInv
    <3> QED BY <3>1, <3>3, <3>4
  <2> QED BY <2>1, <2>2
<1>3. BuriedOnlyAfterMaxFailures'
  <2> USE DEF BuriedOnlyAfterMaxFailures
  <2>1. \A k \in 1 .. Len(dead) : dead[k] \in Burial /\ dead[k].update \in Updates
    <3>1. \A k \in 1 .. Len(dead) : dead[k] \in Burial
      BY DEF TypeInv, TypeOK, StreamType
    <3> QED BY <3>1 DEF Burial
  <2>2. CASE UNCHANGED dead
    BY <2>1, <2>2, FailuresGrow, SizeAssumption DEF FailureInv
  <2>3. ASSUME NEW t \in tasks, AddDead(t) PROVE BuriedOnlyAfterMaxFailures'
    <3> DEFINE burial == [update |-> UpdateOf(t), attempts |-> AttemptOf(t) + 1,
                          original |-> t.id]
    <3>1. burial \in Burial
      BY TasksNumbered DEF Burial, TypeInv, TypeOK, StreamType
    <3>2. /\ Len(dead') = Len(dead) + 1 /\ dead'[Len(dead) + 1] = burial /\ Len(dead) \in Nat
          /\ \A k \in 1 .. Len(dead) : dead'[k] = dead[k]
      BY <2>3, <3>1, AppendProperties DEF AddDead, TypeInv, TypeOK, StreamType
    <3>3. /\ AttemptOf(t) + 1 >= MaxAttempts
          /\ AttemptOf(t) + 1 <= failures[UpdateOf(t)]
          /\ UpdateOf(t) \in Updates /\ AttemptOf(t) \in Nat
      BY <2>3, TasksNumbered DEF AddDead, MayRetry, Exhausted, FailureInv
    <3>4. UNCHANGED failures
      BY <2>3 DEF AddDead, history
    <3>5. burial.attempts >= MaxAttempts /\ failures[burial.update] >= MaxAttempts
      BY <3>3, SizeAssumption, FailuresGrow
    <3> HIDE DEF burial
    <3> SUFFICES ASSUME NEW k \in 1 .. Len(dead')
                 PROVE dead'[k].attempts >= MaxAttempts /\ failures[dead'[k].update] >= MaxAttempts
      BY <3>4
    <3>6. k \in 1 .. Len(dead) \/ k = Len(dead) + 1
      BY <3>2
    <3> QED BY <3>2, <3>5, <3>6 DEF FailureInv
  <2>4. CASE \E t \in tasks : AddDead(t)
    BY <2>3, <2>4
  <2> QED
    BY <2>2, <2>4
       DEF Next, vars, stream, Enqueue, Duplicate, ExpireDedupe, Read, ClaimOrphans,
           ClaimFromSlow, MarkProcessed, Crash, DispatchReturns, DispatchRaises,
           AddRetry, Ack, Delete, CountRetry
<1> QED BY <1>1, <1>2, <1>3 DEF FailureInv

\* The dead-letter stream holds only updates whose dispatch raised at least
\* max_attempts times: duplicated copies never use up each other's attempts.
THEOREM BuriedHonestly == Spec => []BuriedOnlyAfterMaxFailures
<1>1. Spec => [](TypeInv /\ FailureInv)
  BY TypeInit, FailureInit, TypeStep, FailureStep, PTL DEF Spec
<1> QED BY <1>1, PTL DEF FailureInv

-----------------------------------------------------------------------------
(* The pending list gives up an entry only once its outcome is durable. *)

\* The outcome a task past the XADD of retry_or_dead has left behind.
Copied(t) == \E j \in 1 .. Len(log) :
               log[j].update = UpdateOf(t) /\ log[j].attempt = AttemptOf(t) + 1
BuriedAs(t) == \E k \in 1 .. Len(dead) : dead[k].original = t.id

OutcomeInv ==
  \A t \in tasks : t.phase \in {"added", "acked", "deleted"} => Copied(t) \/ BuriedAs(t)

LEMMA OutcomeInit == Init => OutcomeInv
BY DEF Init, OutcomeInv

LEMMA DeadGrows ==
  ASSUME TypeInv, [Next]_vars
  PROVE  /\ Len(dead) \in Nat /\ Len(dead') \in Nat /\ Len(dead) <= Len(dead')
         /\ \A k \in 1 .. Len(dead) : dead'[k] = dead[k]
         /\ \A t \in tasks : AddDead(t) => \E k \in 1 .. Len(dead') : dead'[k].original = t.id
<1>0. Len(dead) \in Nat
  BY DEF TypeInv, TypeOK, StreamType
<1>1. ASSUME NEW t \in tasks, AddDead(t)
      PROVE /\ Len(dead') = Len(dead) + 1
            /\ \A k \in 1 .. Len(dead) : dead'[k] = dead[k]
            /\ dead'[Len(dead) + 1].original = t.id
  <2> DEFINE burial == [update |-> UpdateOf(t), attempts |-> AttemptOf(t) + 1,
                        original |-> t.id]
  <2>1. burial \in Burial /\ burial.original = t.id
    BY TasksNumbered DEF Burial, TypeInv, TypeOK, StreamType
  <2>2. dead' = Append(dead, burial)
    BY <1>1 DEF AddDead
  <2> HIDE DEF burial
  <2> QED BY <2>1, <2>2, AppendProperties DEF TypeInv, TypeOK, StreamType
<1>2. CASE \E t \in tasks : AddDead(t)
  BY <1>0, <1>1, <1>2
<1>3. CASE UNCHANGED dead /\ ~\E t \in tasks : AddDead(t)
  BY <1>0, <1>3
<1> QED
  BY <1>2, <1>3
     DEF Next, vars, stream, Enqueue, Duplicate, ExpireDedupe, Read, ClaimOrphans,
         ClaimFromSlow, MarkProcessed, Crash, DispatchReturns, DispatchRaises,
         AddRetry, Ack, Delete, CountRetry

LEMMA OutcomeStep == TypeInv /\ OutcomeInv /\ [Next]_vars => OutcomeInv'
<1> SUFFICES ASSUME TypeInv, OutcomeInv, [Next]_vars,
                    NEW s \in tasks', s.phase \in {"added", "acked", "deleted"}
             PROVE  (Copied(s) \/ BuriedAs(s))'
  BY DEF OutcomeInv
<1>1. ASSUME NEW t \in tasks, s.id = t.id, Copied(t) \/ BuriedAs(t)
      PROVE (Copied(s) \/ BuriedAs(s))'
  <2>1. UpdateOf(s)' = UpdateOf(t) /\ AttemptOf(s)' = AttemptOf(t)
    BY <1>1, LogGrows, TasksNumbered DEF UpdateOf, AttemptOf
  <2>2. 1 .. Len(log) \subseteq 1 .. Len(log') /\ 1 .. Len(dead) \subseteq 1 .. Len(dead')
    BY LogGrows, DeadGrows
  <2>3. CASE Copied(t)
    BY <2>1, <2>2, <2>3, LogGrows DEF Copied
  <2>4. CASE BuriedAs(t)
    BY <1>1, <2>2, <2>4, DeadGrows DEF BuriedAs
  <2> QED BY <1>1, <2>3, <2>4
<1>2. ASSUME NEW t \in tasks, s.id = t.id, AddRetry(t) PROVE Copied(s)'
  <2> DEFINE copy == [update |-> UpdateOf(t), attempt |-> AttemptOf(t) + 1]
  <2>1. copy \in Entry
    BY <1>2, SizeAssumption, TasksNumbered DEF AddRetry, Exhausted, Entry
  <2>2. /\ Len(log') = Len(log) + 1 /\ Len(log) \in Nat
        /\ log'[Len(log) + 1] = copy
    BY <1>2, <2>1, XAddFacts DEF AddRetry, XAdd, TypeInv, TypeOK, StreamType
  <2>3. Len(log) + 1 \in 1 .. Len(log')
    BY <2>2
  <2>4. UpdateOf(s)' = UpdateOf(t) /\ AttemptOf(s)' = AttemptOf(t)
    BY <1>2, LogGrows, TasksNumbered DEF UpdateOf, AttemptOf
  <2> QED BY <2>2, <2>3, <2>4 DEF Copied
<1>3. ASSUME NEW t \in tasks, s.id = t.id, AddDead(t) PROVE BuriedAs(s)'
  BY <1>3, DeadGrows DEF BuriedAs
<1>4. CASE s \in tasks
  BY <1>1, <1>4 DEF OutcomeInv
<1>5. CASE s \notin tasks
  <2>1. PICK t \in tasks :
          /\ s.id = t.id
          /\ AddRetry(t) \/ AddDead(t) \/ t.phase \in {"added", "acked"}
    BY <1>5, TaskSteps DEF Ack, Delete
  <2> QED BY <1>1, <1>2, <1>3, <2>1 DEF OutcomeInv
<1> QED BY <1>4, <1>5

LEMMA AckStep ==
  ASSUME TypeInv, CoverInv, OutcomeInv, [Next]_vars, NEW i \in pending, i \notin pending'
  PROVE  \/ dispatched[log[i].update] > 0
         \/ \E j \in 1 .. Len(log) : /\ log[j].update = log[i].update
                                     /\ log[j].attempt = log[i].attempt + 1
         \/ \E k \in 1 .. Len(dead) : dead[k].original = i
<1>1. ASSUME NEW w \in Workers, MarkProcessed(w) PROVE dispatched[log[i].update] > 0
  <2>1. PICK some \in Completed(w) : pending' = pending \ {t.id : t \in some}
    BY <1>1 DEF MarkProcessed
  <2> QED BY <2>1, CompletedFacts DEF CoverInv, UpdateOf
<1>2. ASSUME NEW t \in tasks, Ack(t)
      PROVE \/ \E j \in 1 .. Len(log) : /\ log[j].update = log[i].update
                                        /\ log[j].attempt = log[i].attempt + 1
            \/ \E k \in 1 .. Len(dead) : dead[k].original = i
  <2>1. t.id = i /\ t.phase = "added"
    BY <1>2 DEF Ack
  <2> QED BY <2>1 DEF OutcomeInv, Copied, BuriedAs, UpdateOf, AttemptOf
<1>3. CASE \E w \in Workers : MarkProcessed(w)
  BY <1>1, <1>3
<1>4. CASE \E t \in tasks : Ack(t)
  BY <1>2, <1>4
<1> QED
  BY <1>3, <1>4
     DEF Next, vars, stream, Enqueue, Duplicate, ExpireDedupe, Read, ClaimOrphans,
         ClaimFromSlow, Crash, DispatchReturns, DispatchRaises, AddRetry, AddDead,
         Delete, CountRetry

\* XACK never precedes the result of the message it acknowledges.
THEOREM AckedAfterOutcome == Spec => AckOnlyAfterOutcome
<1> DEFINE Settles == \A i \in pending : i \notin pending' =>
                        LET u == log[i].update
                        IN \/ dispatched[u] > 0
                           \/ \E j \in 1 .. Len(log) :
                                log[j].update = u /\ log[j].attempt = log[i].attempt + 1
                           \/ \E k \in 1 .. Len(dead) : dead[k].original = i
           Inv == TypeInv /\ CoverInv /\ OutcomeInv
<1>1. Inv /\ [Next]_vars => [Settles]_vars
  BY AckStep
<1>2. Spec => []Inv
  <2>1. Init => Inv
    BY TypeInit, CoverInit, OutcomeInit
  <2>2. Inv /\ [Next]_vars => Inv'
    BY TypeStep, CoverStep, OutcomeStep
  <2> QED BY <2>1, <2>2, PTL DEF Spec
<1>3. Spec => [][Settles]_vars
  <2> HIDE DEF Inv, Settles
  <2> QED BY <1>1, <1>2, PTL DEF Spec
<1> QED BY <1>3 DEF AckOnlyAfterOutcome

-----------------------------------------------------------------------------
(* Without a crash, a claim from a slow worker and an expired key, once.   *)

Quiet == crashes = 0 /\ steals = 0 /\ expiries = 0

\* Entries whose dispatch may still come or be repeated: not delivered yet, or
\* in the hands of a worker that has neither handled it nor copied it.
Open == {i \in 1 .. Len(log) :
           \/ i > lastDelivered
           \/ \E t \in tasks : t.id = i /\ t.phase \in {"fresh", "failed"}}

OneHand == \A s, t \in tasks : s.id = t.id => s = t

\* EffectivelyOnce says nothing of what is still under way.  What keeps it: an
\* entry is in one hand only, a pending one in somebody's (so nothing is there
\* to claim), the dedupe key stands for every entry of the update, an update
\* has at most one open entry, and none once it is settled.
Once ==
  /\ OneHand
  /\ pending \subseteq Held
  /\ \A i \in 1 .. Len(log) : log[i].update \in dedupe
  /\ \A i, j \in Open : log[i].update = log[j].update => i = j
  /\ \A i \in Open : ~Settled(log[i].update)
  /\ \A u \in Updates : /\ Settled(u) => u \in dedupe
                        /\ dispatched[u] <= 1
                        /\ ~(dispatched[u] = 1 /\ Buried(u))

OnceInv == Quiet => Once

LEMMA OnceInit == Init => OnceInv
BY DEF Init, OnceInv, Once, OneHand, Open, Held, Settled, Buried

\* A fault once counted stays counted, so a quiet state has a quiet past; and
\* while nothing went wrong no pending entry is without a worker.
LEMMA QuietSteps ==
  ASSUME TypeInv, OnceInv, [Next]_vars, Quiet'
  PROVE  /\ Quiet /\ Once
         /\ \A u \in Updates : ~ExpireDedupe(u)
         /\ \A w \in Workers : ~ClaimFromSlow(w) /\ ~Crash(w) /\ ~ClaimOrphans(w)
<1>0. crashes \in Nat /\ steals \in Nat /\ expiries \in Nat
  BY BoundAssumption DEF TypeInv, TypeOK, CountersType
<1>1. /\ \A u \in Updates : ~ExpireDedupe(u)
      /\ \A w \in Workers : ~ClaimFromSlow(w) /\ ~Crash(w)
  BY <1>0 DEF Quiet, ExpireDedupe, ClaimFromSlow, Crash
<1>2. Quiet
  BY <1>1 DEF Quiet, Next, vars, budgets, Enqueue, Duplicate, Read, ClaimOrphans,
              MarkProcessed, DispatchReturns, DispatchRaises, AddRetry, AddDead, Ack,
              Delete, CountRetry
<1>3. \A w \in Workers : ~ClaimOrphans(w)
  BY <1>2 DEF OnceInv, Once, ClaimOrphans
<1> QED BY <1>1, <1>2, <1>3 DEF OnceInv

\* What a quiet step does to the tasks and to the open entries.
LEMMA HandStep ==
  ASSUME TypeInv, OnceInv, [Next]_vars, Quiet'
  PROVE  OneHand'
<1> USE DEF OneHand
<1>0. OneHand
  BY QuietSteps DEF Once
<1>1. ASSUME NEW t \in tasks, NEW phase \in Phases, Advance(t, phase) PROVE OneHand'
  BY <1>0, <1>1, AdvanceFacts DEF Advance, TypeInv, TypeOK, TasksType, Task
<1>2. ASSUME NEW w \in Workers, Read(w) PROVE OneHand'
  <2>1. PICK batch : /\ HandOver(w, batch)
                     /\ \A i \in batch : i > lastDelivered
    BY <1>2 DEF Read, TypeInv, TypeOK, StreamType
  <2>2. \A t \in tasks : ~(t.id > lastDelivered)
    BY TasksNumbered DEF TypeInv, TypeOK, StreamType
  <2>3. \A t \in tasks' : \/ t \in tasks
                          \/ t.id \in batch /\ t = [worker |-> w, id |-> t.id, phase |-> "fresh"]
    BY <2>1 DEF HandOver
  <2> QED BY <1>0, <2>1, <2>2, <2>3
<1>3. CASE tasks' \subseteq tasks
  BY <1>0, <1>3
<1>4. CASE \E t \in tasks : \/ DispatchReturns(t) \/ DispatchRaises(t) \/ AddRetry(t)
                            \/ AddDead(t) \/ Ack(t) \/ Delete(t)
  BY <1>1, <1>4
     DEF Phases, DispatchReturns, DispatchRaises, AddRetry, AddDead, Ack, Delete
<1>5. CASE \E w \in Workers : Read(w)
  BY <1>2, <1>5
<1> QED
  BY <1>3, <1>4, <1>5, QuietSteps
     DEF Next, vars, Enqueue, Duplicate, MarkProcessed, CountRetry

LEMMA HeldStep ==
  ASSUME TypeInv, OnceInv, [Next]_vars, Quiet'
  PROVE  (pending \subseteq Held)'
<1>0. pending \subseteq Held
  BY QuietSteps DEF Once
<1>1. ASSUME NEW t \in tasks, NEW phase \in Phases, Advance(t, phase) PROVE Held' = Held
  <2>1. [t EXCEPT !.phase = phase].id = t.id
    BY DEF TypeInv, TypeOK, TasksType, Task
  <2> QED BY <1>1, <2>1 DEF Held, Advance
<1>2. ASSUME NEW w \in Workers, NEW ids, HandOver(w, ids) PROVE Held' = Held \cup ids
  <2>1. \A i \in ids : [worker |-> w, id |-> i, phase |-> "fresh"].id = i
    OBVIOUS
  <2> QED BY <1>2, <2>1 DEF Held, HandOver
<1>3. ASSUME NEW w \in Workers, Read(w) PROVE (pending \subseteq Held)'
  <2>1. PICK batch : HandOver(w, batch) /\ pending' = pending \cup batch
    BY <1>3 DEF Read
  <2> QED BY <1>0, <1>2, <2>1
<1>4. ASSUME NEW w \in Workers, MarkProcessed(w) PROVE (pending \subseteq Held)'
  <2>1. PICK some \in Completed(w) :
          pending' = pending \ {t.id : t \in some} /\ tasks' = tasks \ some
    BY <1>4 DEF MarkProcessed
  <2> QED BY <1>0, <2>1 DEF Held
<1>5. ASSUME NEW t \in tasks, CountRetry(t) PROVE (pending \subseteq Held)'
  <2>1. t.id \notin pending /\ tasks' = tasks \ {t} /\ pending' = pending
    BY <1>5 DEF CountRetry, TypeInv, DeliveryInv, stream
  <2> QED BY <1>0, <2>1 DEF Held
<1>6. CASE \E t \in tasks : \/ DispatchReturns(t) \/ DispatchRaises(t) \/ AddRetry(t)
                            \/ AddDead(t) \/ Ack(t) \/ Delete(t)
  <2>1. Held' = Held
    BY <1>1, <1>6 DEF Phases, DispatchReturns, DispatchRaises, AddRetry, AddDead, Ack, Delete
  <2>2. pending' \subseteq pending
    BY <1>6 DEF stream, DispatchReturns, DispatchRaises, AddRetry, AddDead, Ack, Delete
  <2> QED BY <1>0, <2>1, <2>2
<1>7. CASE UNCHANGED <<tasks, pending>>
  BY <1>0, <1>7 DEF Held
<1>8. CASE \E w \in Workers : Read(w) \/ MarkProcessed(w)
  BY <1>3, <1>4, <1>8
<1>9. CASE \E t \in tasks : CountRetry(t)
  BY <1>5, <1>9
<1> QED
  BY <1>6, <1>7, <1>8, <1>9, QuietSteps DEF Next, vars, stream, Enqueue, Duplicate

\* An entry opens when it is added, and only then; handling it, copying it and
\* burying it close it.
LEMMA OpenStep ==
  ASSUME TypeInv, OnceInv, [Next]_vars, Quiet'
  PROVE  /\ \A i \in Open' : i \in Open \/ (i \notin 1 .. Len(log) /\ i \in 1 .. Len(log'))
         /\ \A t \in tasks :
              /\ MayDispatch(t) \/ MayRetry(t) => t.id \in Open
              /\ DispatchReturns(t) \/ AddRetry(t) \/ AddDead(t) => t.id \notin Open'
<1>0. lastDelivered \in Nat /\ lastDelivered' \in Nat /\ lastDelivered <= lastDelivered'
  <2>1. TypeInv'
    BY TypeStep
  <2>2. lastDelivered \in Nat /\ lastDelivered' \in Nat /\ Len(log) \in Nat
        /\ lastDelivered <= Len(log)
    BY <2>1 DEF TypeInv, TypeOK, StreamType
  <2>3. ASSUME NEW w \in Workers, Read(w) PROVE lastDelivered <= lastDelivered'
    BY <2>2, <2>3, SizeAssumption DEF Read
  <2>4. CASE UNCHANGED lastDelivered
    BY <2>2, <2>4
  <2>5. CASE \E w \in Workers : Read(w)
    BY <2>2, <2>3, <2>5
  <2> QED BY <2>2, <2>4, <2>5, QuietSteps
          DEF Next, vars, stream, Enqueue, Duplicate, MarkProcessed, DispatchReturns,
              DispatchRaises, AddRetry, AddDead, Ack, Delete, CountRetry
<1>1. ASSUME NEW s \in tasks', s \notin tasks, s.phase = "fresh" PROVE s.id > lastDelivered
  <2>1. ASSUME NEW w \in Workers, Read(w) PROVE s.id > lastDelivered
    <3>1. PICK batch : HandOver(w, batch) /\ \A i \in batch : i > lastDelivered
      BY <2>1 DEF Read, TypeInv, TypeOK, StreamType
    <3> QED BY <1>1, <3>1 DEF HandOver
  <2>2. ASSUME NEW t \in tasks, NEW phase \in Phases, Advance(t, phase), phase # "fresh"
        PROVE FALSE
    BY <1>1, <2>2, AdvanceFacts DEF TypeInv, TypeOK, TasksType
  <2>3. ~(tasks' \subseteq tasks)
    BY <1>1
  <2>4. CASE \E t \in tasks : \/ DispatchReturns(t) \/ DispatchRaises(t) \/ AddRetry(t)
                              \/ AddDead(t) \/ Ack(t) \/ Delete(t)
    BY <2>2, <2>4
       DEF Phases, DispatchReturns, DispatchRaises, AddRetry, AddDead, Ack, Delete
  <2> QED BY <2>1, <2>3, <2>4, QuietSteps
          DEF Next, vars, Enqueue, Duplicate, MarkProcessed, CountRetry
<1>2. \A t \in tasks : MayDispatch(t) \/ MayRetry(t) => t.id \in Open
  BY TasksNumbered DEF Open, MayDispatch, MayRetry
<1>3. \A i \in Open' : i \in Open \/ (i \notin 1 .. Len(log) /\ i \in 1 .. Len(log'))
  <2> SUFFICES ASSUME NEW i \in Open', i \in 1 .. Len(log) PROVE i \in Open
    BY DEF Open
  <2>0. i \in Nat
    OBVIOUS
  <2>1. CASE i > lastDelivered'
    BY <1>0, <2>0, <2>1 DEF Open
  <2>2. ASSUME NEW s \in tasks', s.id = i, s.phase \in {"fresh", "failed"} PROVE i \in Open
    <3>1. CASE s \in tasks
      BY <2>2, <3>1 DEF Open
    <3>2. CASE s \notin tasks /\ s.phase = "fresh"
      BY <1>1, <2>2, <3>2 DEF Open
    <3>3. CASE s \notin tasks /\ s.phase = "failed"
      <4>1. PICK t \in tasks : s.id = t.id /\ DispatchRaises(t)
        BY <3>3, TaskSteps
      <4> QED BY <1>2, <2>2, <4>1 DEF DispatchRaises
    <3> QED BY <2>2, <3>1, <3>2, <3>3
  <2> QED BY <2>1, <2>2 DEF Open
<1>4. ASSUME NEW t \in tasks, DispatchReturns(t) \/ AddRetry(t) \/ AddDead(t)
      PROVE t.id \notin Open'
  <2>1. PICK phase \in {"done", "added"} : Advance(t, phase)
    BY <1>4 DEF DispatchReturns, AddRetry, AddDead
  <2>2. \A s \in tasks' : s.id = t.id => s.phase = phase
    <3>1. OneHand
      BY QuietSteps DEF Once
    <3>2. [t EXCEPT !.phase = phase].phase = phase
      BY DEF TypeInv, TypeOK, TasksType, Task
    <3> QED BY <2>1, <3>1, <3>2 DEF OneHand, Advance
  <2>3. t.id <= lastDelivered' /\ t.id \in Nat
    BY <1>0, <1>4, TasksNumbered
  <2> QED BY <1>0, <2>2, <2>3 DEF Open
<1> QED BY <1>2, <1>3, <1>4

LEMMA NewEntry ==
  ASSUME TypeInv, OnceInv, [Next]_vars, Quiet',
         NEW i \in 1 .. Len(log'), i \notin 1 .. Len(log)
  PROVE  /\ i = Len(log) + 1
         /\ \/ \E u \in Updates : Enqueue(u) /\ log'[i].update = u
            \/ \E t \in tasks : AddRetry(t) /\ log'[i].update = UpdateOf(t)
<1> USE DEF TypeInv, TypeOK, StreamType
<1>1. ASSUME NEW entry \in Entry, XAdd(entry) PROVE i = Len(log) + 1 /\ log'[i] = entry
  <2>1. Len(log') = Len(log) + 1 /\ log'[Len(log) + 1] = entry /\ Len(log) \in Nat
    BY <1>1, XAddFacts DEF XAdd
  <2> QED BY <2>1
<1>2. ASSUME NEW u \in Updates, Enqueue(u)
      PROVE i = Len(log) + 1 /\ log'[i].update = u
  <2>1. [update |-> u, attempt |-> 0] \in Entry
    BY SizeAssumption DEF Entry
  <2> QED BY <1>1, <1>2, <2>1 DEF Enqueue
<1>3. ASSUME NEW t \in tasks, AddRetry(t)
      PROVE i = Len(log) + 1 /\ log'[i].update = UpdateOf(t)
  <2>1. [update |-> UpdateOf(t), attempt |-> AttemptOf(t) + 1] \in Entry
    BY <1>3, SizeAssumption, TasksNumbered DEF AddRetry, Exhausted, Entry
  <2> QED BY <1>1, <1>3, <2>1 DEF AddRetry
<1>4. log' # log
  OBVIOUS
<1>5. CASE \E u \in Updates : Enqueue(u)
  BY <1>2, <1>5
<1>6. CASE \E t \in tasks : AddRetry(t)
  BY <1>3, <1>6
<1> QED
  BY <1>4, <1>5, <1>6, QuietSteps
     DEF Next, vars, stream, Duplicate, Read, MarkProcessed, DispatchReturns,
         DispatchRaises, AddDead, Ack, Delete, CountRetry

\* An update is settled by a dispatch that returns or by its burial, of an
\* entry that was open.
LEMMA SettleSteps ==
  ASSUME TypeInv, OnceInv, [Next]_vars, Quiet', NEW u \in Updates
  PROVE  \/ /\ dispatched'[u] = dispatched[u]
            /\ Buried(u)' <=> Buried(u)
         \/ \E t \in tasks :
              /\ UpdateOf(t) = u /\ t.id \in Open
              /\ \/ DispatchReturns(t) /\ dispatched'[u] = dispatched[u] + 1 /\ dead' = dead
                 \/ AddDead(t) /\ dispatched'[u] = dispatched[u]
<1>1. ASSUME NEW t \in tasks, DispatchReturns(t)
      PROVE IF UpdateOf(t) = u THEN dispatched'[u] = dispatched[u] + 1
                               ELSE dispatched'[u] = dispatched[u]
  BY <1>1 DEF DispatchReturns, TypeInv, TypeOK, CountersType
<1>2. ASSUME NEW t \in tasks, AddDead(t), UpdateOf(t) # u PROVE Buried(u)' <=> Buried(u)
  <2> DEFINE burial == [update |-> UpdateOf(t), attempts |-> AttemptOf(t) + 1,
                        original |-> t.id]
  <2>1. burial \in Burial /\ burial.update # u
    BY <1>2, TasksNumbered DEF Burial, TypeInv, TypeOK, StreamType
  <2>2. dead' = Append(dead, burial)
    BY <1>2 DEF AddDead
  <2> HIDE DEF burial
  <2>3. /\ Len(dead') = Len(dead) + 1 /\ dead'[Len(dead) + 1] = burial /\ Len(dead) \in Nat
        /\ \A k \in 1 .. Len(dead) : dead'[k] = dead[k]
    BY <2>1, <2>2, AppendProperties DEF TypeInv, TypeOK, StreamType
  <2> QED BY <2>1, <2>3 DEF Buried
<1>3. \A t \in tasks : DispatchReturns(t) \/ AddDead(t) => t.id \in Open
  BY OpenStep DEF DispatchReturns, AddDead
<1>4. CASE UNCHANGED <<dispatched, dead>>
  BY <1>4 DEF Buried
<1>5. ASSUME NEW t \in tasks, DispatchReturns(t) PROVE dead' = dead
  BY <1>5 DEF DispatchReturns
<1>6. ASSUME NEW t \in tasks, AddDead(t) PROVE dispatched' = dispatched
  BY <1>6 DEF AddDead, history
<1>7. CASE \E t \in tasks : DispatchReturns(t)
  <2>1. PICK t \in tasks : DispatchReturns(t)
    BY <1>7
  <2>2. CASE UpdateOf(t) = u
    BY <1>1, <1>3, <1>5, <2>1, <2>2
  <2>3. CASE UpdateOf(t) # u
    BY <1>1, <1>5, <2>1, <2>3 DEF Buried
  <2> QED BY <2>2, <2>3
<1>8. CASE \E t \in tasks : AddDead(t)
  <2>1. PICK t \in tasks : AddDead(t)
    BY <1>8
  <2>2. CASE UpdateOf(t) = u
    BY <1>3, <1>6, <2>1, <2>2
  <2>3. CASE UpdateOf(t) # u
    BY <1>2, <1>6, <2>1, <2>3
  <2> QED BY <2>2, <2>3
<1> QED
  BY <1>4, <1>7, <1>8, QuietSteps
     DEF Next, vars, history, Enqueue, Duplicate, Read, MarkProcessed, DispatchRaises,
         AddRetry, Ack, Delete, CountRetry

LEMMA OnceStep == TypeInv /\ OnceInv /\ [Next]_vars => OnceInv'
<1> SUFFICES ASSUME TypeInv, OnceInv, [Next]_vars, Quiet' PROVE Once'
  BY DEF OnceInv
<1>0. Once
  BY QuietSteps
<1>1. \A i \in Open : /\ i \in 1 .. Len(log) /\ log[i].update \in Updates
                      /\ ~Settled(log[i].update)
  BY <1>0, EntryFacts DEF Once, Open
<1>2. dedupe \subseteq dedupe'
  BY QuietSteps
     DEF Next, vars, Enqueue, Duplicate, Read, MarkProcessed, DispatchReturns,
         DispatchRaises, AddRetry, AddDead, Ack, Delete, CountRetry
<1>3. \A t \in tasks : AddRetry(t) => t.id \in Open /\ t.id \notin Open'
  BY OpenStep DEF AddRetry
<1>4. (\A i \in 1 .. Len(log) : log[i].update \in dedupe)'
  <2> SUFFICES ASSUME NEW i \in 1 .. Len(log') PROVE log'[i].update \in dedupe'
    OBVIOUS
  <2>1. CASE i \in 1 .. Len(log)
    BY <1>0, <1>2, <2>1, LogGrows DEF Once
  <2>2. CASE i \notin 1 .. Len(log)
    BY <1>0, <1>2, <2>2, NewEntry, TasksNumbered DEF Once, Enqueue, UpdateOf
  <2> QED BY <2>1, <2>2
<1>5. ASSUME NEW i \in Open', NEW j \in Open', log'[i].update = log'[j].update,
             i \notin 1 .. Len(log)
      PROVE i = j
  <2>1. i \in 1 .. Len(log') /\ i = Len(log) + 1
    BY <1>5, NewEntry DEF Open
  <2>2. CASE j \in Open
    <3>1. j \in 1 .. Len(log) /\ log'[j] = log[j] /\ log[j].update \in dedupe
      BY <1>0, <1>1, <2>2, LogGrows DEF Once
    <3>2. PICK t \in tasks : AddRetry(t) /\ log'[i].update = UpdateOf(t)
      BY <1>5, <2>1, <3>1, NewEntry DEF Enqueue
    <3>3. t.id = j
      BY <1>0, <1>3, <1>5, <2>2, <3>1, <3>2 DEF Once, UpdateOf
    <3> QED BY <1>3, <3>2, <3>3
  <2>3. CASE j \notin 1 .. Len(log) /\ j \in 1 .. Len(log')
    BY <2>1, <2>3, NewEntry
  <2> QED BY <2>2, <2>3, OpenStep
<1>6. (\A i, j \in Open : log[i].update = log[j].update => i = j)'
  <2> SUFFICES ASSUME NEW i \in Open', NEW j \in Open', log'[i].update = log'[j].update
               PROVE i = j
    OBVIOUS
  <2>1. CASE i \in Open /\ j \in Open
    BY <1>0, <1>1, <2>1, LogGrows DEF Once
  <2> QED BY <1>5, <2>1, OpenStep
<1>7. (\A i \in Open : ~Settled(log[i].update))'
  <2> SUFFICES ASSUME NEW i \in Open', NEW u, u = log'[i].update PROVE ~Settled(u)'
    BY DEF Settled, Buried
  <2>1. CASE i \in Open
    <3>1. u = log[i].update /\ u \in Updates /\ ~Settled(u)
      BY <1>1, <2>1, LogGrows
    <3>2. ~\E t \in tasks : /\ UpdateOf(t) = u /\ t.id \in Open
                            /\ DispatchReturns(t) \/ AddDead(t)
      BY <1>0, <2>1, <3>1, OpenStep DEF Once, UpdateOf
    <3>3. dispatched'[u] = dispatched[u] /\ (Buried(u)' <=> Buried(u))
      BY <3>1, <3>2, SettleSteps
    <3> QED BY <3>1, <3>3 DEF Settled
  <2>2. CASE i \notin 1 .. Len(log) /\ i \in 1 .. Len(log')
    <3>1. ASSUME NEW v \in Updates, Enqueue(v), u = v PROVE ~Settled(u)'
      BY <1>0, <3>1 DEF Enqueue, Once, Settled, Buried, history
    <3>2. ASSUME NEW t \in tasks, AddRetry(t), u = UpdateOf(t) PROVE ~Settled(u)'
      <4>1. ~Settled(u) /\ UNCHANGED <<dispatched, dead>>
        BY <1>1, <1>3, <3>2 DEF AddRetry, UpdateOf, history
      <4> QED BY <4>1 DEF Settled, Buried
    <3> QED BY <2>2, <3>1, <3>2, NewEntry
  <2> QED BY <2>1, <2>2, OpenStep
<1>8. (\A u \in Updates : /\ Settled(u) => u \in dedupe
                          /\ dispatched[u] <= 1
                          /\ ~(dispatched[u] = 1 /\ Buried(u)))'
  <2> SUFFICES ASSUME NEW u \in Updates
               PROVE  /\ Settled(u)' => u \in dedupe'
                      /\ dispatched'[u] <= 1
                      /\ ~(dispatched'[u] = 1 /\ Buried(u)')
    BY DEF Settled, Buried
  <2>0. /\ Settled(u) => u \in dedupe
        /\ dispatched[u] <= 1 /\ dispatched[u] \in Nat
        /\ ~(dispatched[u] = 1 /\ Buried(u))
    BY <1>0 DEF Once, TypeInv, TypeOK, CountersType
  <2>1. CASE dispatched'[u] = dispatched[u] /\ (Buried(u)' <=> Buried(u))
    BY <1>2, <2>0, <2>1 DEF Settled
  <2>2. ASSUME NEW t \in tasks, UpdateOf(t) = u, t.id \in Open,
               \/ DispatchReturns(t) /\ dispatched'[u] = dispatched[u] + 1 /\ dead' = dead
               \/ AddDead(t) /\ dispatched'[u] = dispatched[u]
        PROVE  /\ u \in dedupe'
               /\ dispatched'[u] <= 1
               /\ ~(dispatched'[u] = 1 /\ Buried(u)')
    <3>1. ~Settled(u) /\ u \in dedupe
      BY <1>0, <1>1, <2>2 DEF Once, UpdateOf
    <3>2. dispatched[u] = 0 /\ ~Buried(u)
      BY <2>0, <3>1 DEF Settled
    <3>3. dead' = dead => ~Buried(u)'
      BY <3>2 DEF Buried
    <3> QED BY <1>2, <2>2, <3>1, <3>2, <3>3
  <2> QED BY <2>1, <2>2, SettleSteps
<1>9. OneHand' /\ (pending \subseteq Held)'
  BY HandStep, HeldStep
<1> QED BY <1>4, <1>6, <1>7, <1>8, <1>9 DEF Once

\* While no worker dies, none is robbed of an entry and no dedupe key expires,
\* no update is handled twice, and none is both handled and buried.
THEOREM HandledOnce == Spec => []EffectivelyOnce
<1>1. TypeInv /\ OnceInv => EffectivelyOnce
  BY DEF OnceInv, Quiet, Once, EffectivelyOnce
<1>2. Spec => [](TypeInv /\ OnceInv)
  BY TypeInit, OnceInit, TypeStep, OnceStep, PTL DEF Spec
<1> QED BY <1>1, <1>2, PTL

-----------------------------------------------------------------------------
(* The ingress implements UpdateDelivery.                                  *)

Waiting   == {log[i].update : i \in {k \in 1 .. Len(log) : InPlay(k)}}
Given     == {dead[k].update : k \in 1 .. Len(dead)}
Disturbed == crashes + steals + expiries > 0

mapped == <<acked, Waiting, dispatched, failures, Given, Disturbed>>

\* CoverInv speaks of updates with a 200 or a key; once keys expire, an entry
\* may belong to an update that has neither.
EntriesInv == \A i \in 1 .. Len(log) : Covered(log[i].update, 0)

LEMMA EntriesInit == Init => EntriesInv
BY DEF Init, EntriesInv

LEMMA MappedFacts ==
  ASSUME TypeInv
  PROVE  /\ Disturbed \in BOOLEAN /\ (Disturbed <=> ~Quiet)
         /\ Waiting \subseteq Updates
         /\ \A u : u \in Given <=> Buried(u)
         /\ \A u : Delivery!Settled(u) <=> Settled(u)
         /\ \A u : Covered(u, 0) <=> Settled(u) \/ u \in Waiting
<1>1. crashes \in Nat /\ steals \in Nat /\ expiries \in Nat
  BY BoundAssumption DEF TypeInv, TypeOK, CountersType
<1>2. Disturbed \in BOOLEAN /\ (Disturbed <=> ~Quiet)
  BY <1>1 DEF Disturbed, Quiet
<1>3. \A u : u \in Given <=> Buried(u)
  BY DEF Given, Buried
<1>4. \A i \in 1 .. Len(log) : log[i].attempt \in Nat /\ log[i].update \in Updates
  BY EntryFacts
<1>5. \A u : Covered(u, 0) <=> Settled(u) \/ u \in Waiting
  BY <1>4 DEF Covered, Waiting
<1> QED BY <1>2, <1>3, <1>4, <1>5 DEF Delivery!Settled, Settled, Waiting, Given

\* XADD puts one more update into the queue and takes none out.
LEMMA XAddWaiting ==
  ASSUME TypeInv, NEW entry \in Entry, XAdd(entry), UNCHANGED <<lastDelivered, pending>>
  PROVE  Waiting' = Waiting \cup {entry.update} /\ Covered(entry.update, 0)'
<1> USE DEF TypeInv, TypeOK, StreamType
<1>1. /\ Len(log') = Len(log) + 1 /\ Len(log) \in Nat
      /\ \A i \in 1 .. Len(log) : log'[i] = log[i]
      /\ log'[Len(log) + 1] = entry
  BY XAddFacts DEF XAdd
<1>2. ASSUME NEW i \in 1 .. Len(log) PROVE InPlay(i)' <=> InPlay(i)
  <2>1. i \in live' <=> i \in live
    BY <1>1 DEF XAdd
  <2> QED BY <2>1 DEF InPlay
<1>3. PICK n \in 1 .. Len(log') : log'[n] = entry /\ InPlay(n)'
  <2>1. PICK n \in Nat : n = Len(log) + 1
    BY <1>1
  <2>2. n \in live' /\ n > lastDelivered'
    BY <1>1, <2>1 DEF XAdd
  <2> QED BY <1>1, <2>1, <2>2 DEF InPlay
<1>4. \A i \in 1 .. Len(log') : i \in 1 .. Len(log) \/ i = Len(log) + 1
  BY <1>1
<1>5. 1 .. Len(log) \subseteq 1 .. Len(log')
  BY <1>1
<1>6. Waiting' = Waiting \cup {entry.update}
  <2>1. ASSUME NEW u \in Waiting' PROVE u \in Waiting \cup {entry.update}
    <3>1. PICK i \in 1 .. Len(log') : InPlay(i)' /\ u = log'[i].update
      BY DEF Waiting
    <3> QED BY <1>1, <1>2, <1>4, <3>1 DEF Waiting
  <2>2. ASSUME NEW u \in Waiting PROVE u \in Waiting'
    <3>1. PICK i \in 1 .. Len(log) : InPlay(i) /\ u = log[i].update
      BY DEF Waiting
    <3>2. i \in 1 .. Len(log') /\ InPlay(i)' /\ u = log'[i].update
      BY <1>1, <1>2, <1>5, <3>1
    <3> QED BY <3>2 DEF Waiting
  <2>3. entry.update \in Waiting'
    BY <1>3 DEF Waiting
  <2> QED BY <2>1, <2>2, <2>3
<1>7. Covered(entry.update, 0)'
  BY <1>3, SizeAssumption DEF Covered, Entry
<1> QED BY <1>6, <1>7

LEMMA EntriesStep == TypeInv /\ CoverInv /\ EntriesInv /\ [Next]_vars => EntriesInv'
<1> SUFFICES ASSUME TypeInv, CoverInv, EntriesInv, [Next]_vars, NEW i \in 1 .. Len(log'),
                    NEW v, v = log'[i].update
             PROVE  Covered(v, 0)'
  BY DEF EntriesInv
<1>1. CASE i \in 1 .. Len(log)
  <2>1. log'[i] = log[i] /\ log[i].update \in Updates /\ Covered(log[i].update, 0)
    BY <1>1, LogGrows, EntryFacts DEF EntriesInv
  <2>2. Covered(log[i].update, 0)'
    BY <2>1, CoveredStable
  <2>3. v = log[i].update
    BY <2>1
  <2> QED BY <2>2, <2>3
<1>2. CASE i \notin 1 .. Len(log)
  <2>1. ASSUME NEW entry \in Entry, XAdd(entry), UNCHANGED <<lastDelivered, pending>>
        PROVE  Covered(v, 0)'
    <3>1. v = entry.update
      BY <1>2, <2>1, XAddFacts DEF XAdd, TypeInv, TypeOK, StreamType
    <3>2. Covered(entry.update, 0)'
      BY <2>1, XAddWaiting
    <3> QED BY <3>1, <3>2
  <2>2. ASSUME NEW u \in Updates, Enqueue(u) PROVE Covered(v, 0)'
    <3>1. [update |-> u, attempt |-> 0] \in Entry
      BY SizeAssumption DEF Entry
    <3> QED BY <2>1, <2>2, <3>1 DEF Enqueue
  <2>3. ASSUME NEW t \in tasks, AddRetry(t) PROVE Covered(v, 0)'
    <3>1. [update |-> UpdateOf(t), attempt |-> AttemptOf(t) + 1] \in Entry
      BY <2>3, SizeAssumption, TasksNumbered DEF AddRetry, Exhausted, Entry
    <3> QED BY <2>1, <2>3, <3>1 DEF AddRetry
  <2>4. log' # log
    BY <1>2
  <2>5. CASE \E u \in Updates : Enqueue(u)
    BY <2>2, <2>5
  <2>6. CASE \E t \in tasks : AddRetry(t)
    BY <2>3, <2>6
  <2> QED
    BY <2>4, <2>5, <2>6
       DEF Next, vars, stream, Duplicate, ExpireDedupe, Read, ClaimOrphans, ClaimFromSlow,
           MarkProcessed, Crash, DispatchReturns, DispatchRaises, AddDead, Ack, Delete,
           CountRetry
<1> QED BY <1>1, <1>2

\* A task may be given to the handler as long as its update is not settled, or
\* settled in the course of a disturbance.
LEMMA TaskDeliverable ==
  ASSUME TypeInv, EntriesInv, OnceInv, NEW t \in tasks, t.phase \in {"fresh", "failed"}
  PROVE  Delivery!Deliverable(UpdateOf(t))
<1>1. Settled(UpdateOf(t)) \/ UpdateOf(t) \in Waiting
  BY TasksNumbered, MappedFacts DEF EntriesInv, UpdateOf
<1>2. Quiet => ~Settled(UpdateOf(t))
  BY TasksNumbered DEF OnceInv, Once, Open, UpdateOf
<1> QED BY <1>1, <1>2, MappedFacts DEF Delivery!Deliverable, Waiting, Disturbed

\* What a step takes out of the queue is settled: its cover is kept, and only
\* by its settlement.
LEMMA LeavesSettled ==
  ASSUME TypeInv, TypeInv', CoverInv, EntriesInv, [Next]_vars, NEW u \in Waiting,
         u \notin Waiting', UNCHANGED <<dispatched, dead>>
  PROVE  Settled(u)
<1>1. u \in Updates /\ Covered(u, 0)
  BY MappedFacts
<1>2. Covered(u, 0)'
  BY <1>1, CoveredStable
<1>3. Settled(u)' => Settled(u)
  BY DEF Settled, Buried
<1>4. Covered(u, 0)' => Settled(u)' \/ u \in Waiting'
  BY DEF Covered, Waiting
<1> QED BY <1>2, <1>3, <1>4

LEMMA RefinedInit == Init => Delivery!Init
BY DEF Init, Delivery!Init

LEMMA RefinedStep ==
  TypeInv /\ TypeInv' /\ CoverInv /\ EntriesInv /\ FailureInv /\ OnceInv /\ [Next]_vars
    => [Delivery!Next]_(Delivery!vars)
<1> SUFFICES ASSUME TypeInv, TypeInv', CoverInv, EntriesInv, FailureInv, OnceInv, [Next]_vars
             PROVE  Delivery!Next \/ UNCHANGED mapped
  BY DEF Delivery!vars, mapped, Waiting, Given, Disturbed
<1>0. /\ UNCHANGED <<log, live, lastDelivered, pending>> => UNCHANGED Waiting
      /\ UNCHANGED dead => UNCHANGED Given
      /\ UNCHANGED budgets => UNCHANGED Disturbed
  BY DEF Waiting, InPlay, Given, budgets, Disturbed
<1>1. ASSUME NEW u \in Updates, Enqueue(u) PROVE Delivery!Next
  <2>1. [update |-> u, attempt |-> 0] \in Entry
    BY SizeAssumption DEF Entry
  <2>2. Waiting' = Waiting \cup {u}
    BY <1>1, <2>1, XAddWaiting DEF Enqueue
  <2>3. Quiet => u \notin Waiting /\ ~Settled(u)
    BY <1>1 DEF Enqueue, OnceInv, Once, Waiting
  <2>4. UNCHANGED <<dispatched, failures, Given, Disturbed>>
    BY <1>0, <1>1 DEF Enqueue, history
  <2>5. Delivery!Receive(u)
    BY <1>1, <2>2, <2>3, <2>4, MappedFacts
       DEF Delivery!Receive, Enqueue, Reply, Waiting, Given, Disturbed
  <2> QED BY <2>5 DEF Delivery!Next
<1>2. ASSUME NEW u \in Updates, Duplicate(u) PROVE Delivery!Next \/ UNCHANGED mapped
  <2>1. UNCHANGED <<Waiting, dispatched, failures, Given, Disturbed>>
    BY <1>0, <1>2 DEF Duplicate, stream, history
  <2>2. u \in Waiting \/ Settled(u)
    BY <1>2, MappedFacts DEF Duplicate, CoverInv
  <2>3. CASE acked' = acked
    BY <2>1, <2>3 DEF mapped
  <2>4. CASE acked' = acked \cup {u}
    <3>1. Delivery!Repeat(u)
      BY <2>1, <2>2, <2>4, MappedFacts DEF Delivery!Repeat, Waiting, Given, Disturbed
    <3> QED BY <3>1 DEF Delivery!Next
  <2> QED BY <1>2, <2>3, <2>4 DEF Duplicate, Reply
<1>3. ASSUME UNCHANGED <<acked, log, live, lastDelivered, pending, dead, history>>,
             crashes' + steals' + expiries' > 0
      PROVE  Delivery!Next
  <2>1. Delivery!Disturb
    BY <1>0, <1>3 DEF Delivery!Disturb, history, Waiting, Given
  <2> QED BY <2>1 DEF Delivery!Next
<1>4. ASSUME NEW w \in Workers, Read(w) PROVE UNCHANGED mapped
  <2> DEFINE newest == IF lastDelivered + BatchSize <= Len(log)
                       THEN lastDelivered + BatchSize ELSE Len(log)
  <2>1. /\ lastDelivered' = newest /\ pending' = pending \cup (lastDelivered + 1 .. newest)
        /\ UNCHANGED <<log, live>>
    BY <1>4 DEF Read
  <2>2. lastDelivered \in Nat /\ newest \in Nat /\ newest >= lastDelivered /\ Len(log) \in Nat
    BY <1>4, SizeAssumption DEF Read, TypeInv, TypeOK, StreamType
  <2> HIDE DEF newest
  <2>3. \A i \in 1 .. Len(log) : InPlay(i)' <=> InPlay(i)
    BY <2>1, <2>2 DEF InPlay, TypeInv, DeliveryInv
  <2>4. Waiting' = Waiting
    BY <2>1, <2>3 DEF Waiting
  <2> QED BY <1>0, <1>4, <2>4 DEF Read, mapped, history
<1>5. ASSUME UNCHANGED <<acked, log, lastDelivered, dead, history, budgets>>,
             Waiting' \subseteq Waiting
      PROVE  Delivery!Next
  <2>1. PICK gone \in SUBSET Updates : gone = Waiting \ Waiting'
    BY MappedFacts
  <2>2. \A u \in gone : Settled(u)
    BY <1>5, <2>1, LeavesSettled DEF history
  <2>3. Delivery!Leave(gone)
    BY <1>0, <1>5, <2>1, <2>2, MappedFacts
       DEF Delivery!Leave, history, Waiting, Given, Disturbed
  <2> QED BY <2>3 DEF Delivery!Next
<1>6. ASSUME pending' \subseteq pending, live' \subseteq live, UNCHANGED <<log, lastDelivered>>
      PROVE  Waiting' \subseteq Waiting
  BY <1>6 DEF Waiting, InPlay
<1>7. ASSUME NEW w \in Workers, MarkProcessed(w) PROVE Delivery!Next
  <2>1. pending' \subseteq pending /\ live' \subseteq live
    BY <1>7 DEF MarkProcessed
  <2> QED BY <1>5, <1>6, <1>7, <2>1 DEF MarkProcessed
<1>8. ASSUME NEW t \in tasks, Ack(t) \/ Delete(t) PROVE Delivery!Next
  <2>1. pending' \subseteq pending /\ live' \subseteq live
    BY <1>8 DEF Ack, Delete
  <2> QED BY <1>5, <1>6, <1>8, <2>1 DEF Ack, Delete
<1>9. ASSUME NEW t \in tasks, DispatchReturns(t) \/ DispatchRaises(t) PROVE Delivery!Next
  <2>1. UpdateOf(t) \in Updates /\ Delivery!Deliverable(UpdateOf(t))
    BY <1>9, TasksNumbered, TaskDeliverable DEF DispatchReturns, DispatchRaises, MayDispatch
  <2>2. UNCHANGED <<acked, Waiting, Given, Disturbed>>
    BY <1>0, <1>9 DEF DispatchReturns, DispatchRaises, stream
  <2>3. CASE DispatchReturns(t)
    <3>1. Delivery!Handle(UpdateOf(t))
      BY <2>1, <2>2, <2>3 DEF Delivery!Handle, DispatchReturns, Waiting, Given, Disturbed
    <3> QED BY <2>1, <3>1 DEF Delivery!Next
  <2>4. CASE DispatchRaises(t)
    <3>1. Delivery!Raise(UpdateOf(t))
      BY <2>1, <2>2, <2>4 DEF Delivery!Raise, DispatchRaises, Waiting, Given, Disturbed
    <3> QED BY <2>1, <3>1 DEF Delivery!Next
  <2> QED BY <1>9, <2>3, <2>4
<1>10. ASSUME NEW t \in tasks, AddRetry(t) PROVE Delivery!Next \/ UNCHANGED mapped
  <2>1. UpdateOf(t) \in Updates /\ Delivery!Deliverable(UpdateOf(t))
    BY <1>10, TasksNumbered, TaskDeliverable DEF AddRetry, MayRetry
  <2>2. [update |-> UpdateOf(t), attempt |-> AttemptOf(t) + 1] \in Entry
    BY <1>10, SizeAssumption, TasksNumbered DEF AddRetry, Exhausted, Entry
  <2>3. Waiting' = Waiting \cup {UpdateOf(t)}
    BY <1>10, <2>2, XAddWaiting DEF AddRetry
  <2>4. UNCHANGED <<acked, dispatched, failures, Given, Disturbed>>
    BY <1>0, <1>10 DEF AddRetry, history
  <2>5. CASE UpdateOf(t) \in Waiting
    BY <2>3, <2>4, <2>5 DEF mapped
  <2>6. CASE UpdateOf(t) \notin Waiting
    <3>1. Disturbed
      BY <2>1, <2>6 DEF Delivery!Deliverable, Waiting, Disturbed
    <3>2. PICK u \in Updates : u = UpdateOf(t)
      BY <2>1
    <3>3. Delivery!Receive(u)
      BY <2>3, <2>4, <3>1, <3>2 DEF Delivery!Receive, Waiting, Given, Disturbed
    <3> QED BY <3>3 DEF Delivery!Next
  <2> QED BY <2>5, <2>6
<1>11. ASSUME NEW t \in tasks, AddDead(t) PROVE Delivery!Next
  <2> DEFINE burial == [update |-> UpdateOf(t), attempts |-> AttemptOf(t) + 1,
                        original |-> t.id]
  <2>1. UpdateOf(t) \in Updates /\ Delivery!Deliverable(UpdateOf(t))
    BY <1>11, TasksNumbered, TaskDeliverable DEF AddDead, MayRetry
  <2>2. failures[UpdateOf(t)] >= MaxAttempts
    <3>1. AttemptOf(t) + 1 >= MaxAttempts /\ AttemptOf(t) + 1 <= failures[UpdateOf(t)]
      BY <1>11 DEF AddDead, MayRetry, Exhausted, FailureInv
    <3>2. AttemptOf(t) \in Nat /\ failures[UpdateOf(t)] \in Nat /\ MaxAttempts \in Nat
      BY <2>1, TasksNumbered, SizeAssumption DEF TypeInv, TypeOK, CountersType
    <3> QED BY <3>1, <3>2
  <2>3. burial \in Burial /\ burial.update = UpdateOf(t) /\ dead' = Append(dead, burial)
    BY <1>11, TasksNumbered DEF AddDead, Burial, TypeInv, TypeOK, StreamType
  <2>4. Given' = Given \cup {UpdateOf(t)}
    <3> HIDE DEF burial
    <3>1. /\ Len(dead') = Len(dead) + 1 /\ dead'[Len(dead) + 1] = burial
          /\ Len(dead) \in Nat /\ \A k \in 1 .. Len(dead) : dead'[k] = dead[k]
      BY <2>3, AppendProperties DEF TypeInv, TypeOK, StreamType
    <3>2. 1 .. Len(dead') = (1 .. Len(dead)) \cup {Len(dead) + 1}
      BY <3>1
    <3> QED BY <2>3, <3>1, <3>2 DEF Given
  <2>5. UNCHANGED <<acked, Waiting, dispatched, failures, Disturbed>>
    BY <1>0, <1>11 DEF AddDead, stream, history
  <2>6. PICK u \in Updates : u = UpdateOf(t)
    BY <2>1
  <2>7. Delivery!Bury(u)
    BY <2>1, <2>2, <2>4, <2>5, <2>6
       DEF Delivery!Bury, Delivery!Deliverable, Delivery!Settled, Waiting, Given, Disturbed
  <2> QED BY <2>7 DEF Delivery!Next
<1>12. ASSUME UNCHANGED <<acked, stream, history, dead, budgets>> PROVE UNCHANGED mapped
  BY <1>0, <1>12 DEF mapped, stream, history
<1>13. crashes \in Nat /\ steals \in Nat /\ expiries \in Nat
  BY BoundAssumption DEF TypeInv, TypeOK, CountersType
<1>14. ASSUME NEW u \in Updates, ExpireDedupe(u) PROVE Delivery!Next
  BY <1>3, <1>13, <1>14 DEF ExpireDedupe, stream
<1>15. ASSUME NEW w \in Workers, ClaimFromSlow(w) \/ Crash(w) PROVE Delivery!Next
  BY <1>3, <1>13, <1>15 DEF ClaimFromSlow, Crash, stream
<1>16. ASSUME NEW w \in Workers, ClaimOrphans(w) PROVE UNCHANGED mapped
  BY <1>12, <1>16 DEF ClaimOrphans
<1>17. ASSUME NEW t \in tasks, CountRetry(t) PROVE UNCHANGED mapped
  BY <1>12, <1>17 DEF CountRetry
<1>18. CASE UNCHANGED vars
  BY <1>12, <1>18 DEF vars
<1> QED
  BY <1>1, <1>2, <1>4, <1>7, <1>8, <1>9, <1>10, <1>11, <1>14, <1>15, <1>16, <1>17, <1>18
     DEF Next

\* Whatever the workers, batches and commands interleave, die and repeat, the
\* ingress does to an update what UpdateDelivery allows, and nothing else: the
\* stream, the pending list and the dead-letter stream together are one queue
\* that delivers until an update is handled or buried.
THEOREM IngressImplementsDelivery == Spec => ImplementsUpdateDelivery
<1> DEFINE Inv == TypeInv /\ CoverInv /\ EntriesInv /\ FailureInv /\ OnceInv
<1>1. Init => Inv
  BY TypeInit, CoverInit, EntriesInit, FailureInit, OnceInit
<1>2. Inv /\ [Next]_vars => Inv'
  BY TypeStep, CoverStep, EntriesStep, FailureStep, OnceStep
<1>3. Inv /\ Inv' /\ [Next]_vars => [Delivery!Next]_(Delivery!vars)
  BY RefinedStep
<1> QED
  BY <1>1, <1>2, <1>3, RefinedInit, PTL
     DEF Spec, ImplementsUpdateDelivery, Delivery!Spec
=============================================================================
