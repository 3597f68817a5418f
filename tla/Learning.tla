------------------------------- MODULE Learning -------------------------------
(***************************************************************************)
(* What the outbox makes of one learner's accepted answers in one topic:   *)
(* the mistakes (services/mistakes.py, repositories/mistakes.py), the      *)
(* progress row and its scores (services/progress.py, progress_model.py,   *)
(* repositories/progress.py), by whole batches (workers/outbox_batch.py,   *)
(* outbox_batch_helpers.py) or event by event (workers/outbox.py).         *)
(*                                                                         *)
(*   batch:  BatchBegin [mistakes locked] --> BatchFinish, or Fail         *)
(*   event:  EventBegin [rows read]       --> EventFinish, or Fail         *)
(*                                                                         *)
(* A batch locks the rows it changes; an event reads without a lock and    *)
(* writes the columns whose value it changed.  A transaction that fails    *)
(* leaves nothing and its answers are taken again.  That an answer takes   *)
(* effect once is the business of module Outbox.                           *)
(*                                                                         *)
(* Scores are hundredths of a percent; a day is a Berlin date; the texts,  *)
(* content_available, the history rows and the streak are left out.        *)
(***************************************************************************)
EXTENDS Integers, Sequences, FiniteSets, FiniteSetsExt, SequencesExt

CONSTANTS
  QuizIds,          \* external_quiz_id of the questions of the topic
  RequiredRepeats,  \* REQUIRED_SUCCESSFUL_REPEATS
  RequiredDays,     \* REQUIRED_SUCCESSFUL_REPEAT_DAYS
  Available,        \* available_items_count, 0 when it is not known
  MaxAnswers,       \* bound: answers accepted
  MaxBacklog,       \* bound: answers accepted and not yet settled
  MaxJobs,          \* bound: transactions under way
  MaxDays           \* bound: days

ASSUME LearningAssumption ==
  /\ IsFiniteSet(QuizIds) /\ Available \in Nat
  /\ RequiredRepeats \in Nat \ {0} /\ RequiredDays \in Nat \ {0}
  /\ MaxAnswers \in Nat /\ MaxBacklog \in Nat /\ MaxJobs \in Nat /\ MaxDays \in Nat \ {0}

VARIABLES
  accepted,       \* user_answers by answered_at: [quiz, correct, review, day]
  settled,        \* history: answers to a quiz in order of their effect: [id, day]
  today,          \* the date
  mistakes,       \* the current mistakes row of a quiz
  topic,          \* the progress row
  jobs,           \* transactions under way
  mistakeRaces,   \* history: quizzes an event wrote after another transaction had
  topicRaced,     \* history: an event wrote the progress row on a stale read
  replayed        \* history: quizzes with a success credited to a later day

learningRaces == <<mistakeRaces, topicRaced, replayed>>
learningVars  == <<accepted, settled, today, mistakes, topic, jobs, learningRaces>>

\* The payload of an "answer.accepted" event, as far as it takes effect.
AnswerEvent(day) == [quiz : QuizIds, correct : BOOLEAN, review : BOOLEAN, day : 1 .. day]

MistakeRow ==
  [status : {"none", "new", "repeated", "improved", "resolved"}, count : Nat,
   repeats : Nat, days : Nat,
   last : Nat]                          \* day of last_successful_repeat_at, 0: none
NoMistake ==
  [status |-> "none", count |-> 0, repeats |-> 0, days |-> 0, last |-> 0]

\* The progress row; "signals" is history: what the scores were made of.
TopicRow ==
  [exists : BOOLEAN, answered : Nat, correct : Nat, wrong : Nat, accuracy : 0 .. 10000,
   unique : Nat, last : Nat,
   scores : [coverage : -1 .. 10000, stability : 0 .. 10000, weakness : 0 .. 10000,
             status : {"new", "weak", "learning", "stable", "strong"}],
   signals : [unresolved : SUBSET QuizIds, total : Nat, repeated : Nat]]

\* A transaction has claimed answers and read or locked rows of these quizzes.
Job(quizzes) ==
  [kind : {"batch", "event"}, ids : SUBSET (1 .. MaxAnswers),
   rows : [quizzes -> MistakeRow], topic : TopicRow]

Unresolved(rows) == {q \in DOMAIN rows : rows[q].status \in {"new", "repeated", "improved"}}

-----------------------------------------------------------------------------
(* The life of a mistake. *)

\* record_wrong_answer: create, increment_wrong or reopen_as_active.

\* Mutant of Wrong: increment_wrong does not reset the review counters.
WrongKeepingRepeats(row) ==
  [row EXCEPT !.status = IF row.status = "none" THEN "new" ELSE "repeated",
              !.count = @ + 1]

Wrong(row) ==
  [status |-> IF row.status = "none" THEN "new" ELSE "repeated",
   count |-> row.count + 1, repeats |-> 0, days |-> 0, last |-> 0]

\* record_review_success: only for an unresolved mistake.

\* Mutant of Success: every repeat counts as a day of its own.
SuccessEveryDay(row, day) ==
  IF row.status \in {"none", "resolved"} THEN row ELSE
  LET repeats == row.repeats + 1  days == row.days + 1
  IN [row EXCEPT !.repeats = repeats, !.days = days, !.last = day,
        !.status = IF repeats >= RequiredRepeats /\ days >= RequiredDays
                   THEN "resolved" ELSE "improved"]

Success(row, day) ==
  IF row.status \in {"none", "resolved"} THEN row ELSE
  LET repeats == row.repeats + 1
      days    == IF row.last = day THEN row.days ELSE row.days + 1
  IN [row EXCEPT !.repeats = repeats, !.days = days, !.last = day,
        !.status = IF repeats >= RequiredRepeats /\ days >= RequiredDays
                   THEN "resolved" ELSE "improved"]

\* Correct answers outside a review change no mistake.
AfterAnswer(row, answer, day) ==
  IF ~answer.correct THEN Wrong(row)
  ELSE IF answer.review THEN Success(row, day) ELSE row

\* _plan_mistake_changes: the answers of a batch, sorted by answered_at.
Replay(row, ids) ==
  MapThenFoldSet(LAMBDA id, r : AfterAnswer(r, accepted[id], accepted[id].day),
                 row, LAMBDA id : id, Max, ids)

-----------------------------------------------------------------------------
(* progress_model.py. *)

Larger(a, b)  == IF a >= b THEN a ELSE b
Smaller(a, b) == IF a <= b THEN a ELSE b

\* A share of a whole in hundredths of a percent, ROUND_HALF_UP.
HundredthsOf(part, whole) == (20000 * part + whole) \div (2 * whole)

AccuracyScore(correct, total) == IF total <= 0 THEN 0 ELSE HundredthsOf(correct, total)

\* coverage_from_counts; -1 stands for None.
CoverageScore(unique, available) ==
  IF available <= 0 THEN -1 ELSE Smaller(HundredthsOf(unique, available), 10000)

RecencyRisk(days) ==
  CASE days <= 0 -> 0 [] days = 1 -> 1000 [] days = 2 -> 2000 [] days = 3 -> 3500
    [] days \in 4 .. 6 -> 5000 [] days \in 7 .. 13 -> 7000 [] OTHER -> 9000

\* answer_confidence and stability_confidence, as ranks: none, low, medium, high.
AnswerConfidence(answered) ==
  CASE answered <= 0 -> 0 [] answered \in 1 .. 4 -> 1 [] answered \in 5 .. 14 -> 2 [] OTHER -> 3
StabilityConfidence(eligible) ==
  CASE eligible <= 0 -> 0 [] eligible \in 1 .. 2 -> 1 [] eligible \in 3 .. 7 -> 2 [] OTHER -> 3

DaysOf(events, q)     == {events[i].day : i \in {k \in DOMAIN events : events[k].quiz = q}}
CorrectDays(events, q) ==
  {events[i].day : i \in {k \in DOMAIN events : events[k].quiz = q /\ events[k].correct}}
LatestOf(events, q)   == events[Max({k \in DOMAIN events : events[k].quiz = q})]

\* _item_stability_score.
ItemStability(events, q, unresolved) ==
  LET days == CorrectDays(events, q)
  IN CASE ~LatestOf(events, q).correct -> 0
       [] LatestOf(events, q).correct /\ q \in unresolved -> 10
       [] OTHER -> CASE Cardinality(days) >= 3 /\ Max(days) - Min(days) >= 7 -> 100
                     [] Cardinality(days) >= 3 /\ Max(days) - Min(days) < 7 -> 90
                     [] Cardinality(days) = 2 -> 75
                     [] OTHER -> 55

\* stability_from_answers: items answered on two days or more count.
Eligible(events) == {q \in QuizIds : Cardinality(DaysOf(events, q)) >= 2}
StabilityScore(events, unresolved) ==
  LET eligible == Eligible(events)
      total    == MapThenSumSet(LAMBDA q : ItemStability(events, q, unresolved), eligible)
  IN IF eligible = {} THEN 0
     ELSE (200 * total + Cardinality(eligible)) \div (2 * Cardinality(eligible))

\* get_topic_mistake_signals, _load_mistake_signals.
Signals(rows) ==
  [unresolved |-> Unresolved(rows),
   total      |-> MapThenSumSet(LAMBDA q : rows[q].count, Unresolved(rows)),
   repeated   |-> MapThenSumSet(LAMBDA q : rows[q].count - 1, Unresolved(rows))]
NoSignals == [unresolved |-> {}, total |-> 0, repeated |-> 0]

\* weakness_from_signals: 0.30 errors, 0.25 unresolved, 0.20 repeated, 0.15
\* instability, 0.10 recency, brought to one denominator.
WeaknessScore(answered, accuracy, unique, stability, recency, open, made, repeated) ==
  LET u == Larger(unique, 1)
      m == Larger(made, 1)
      n == 6 * (10000 - accuracy) * u * m + 50000 * Smaller(open, u) * m
           + 40000 * Smaller(repeated, m) * u
           + 3 * (10000 - stability) * u * m + 2 * recency * u * m
      d == 20 * u * m
  IN IF answered <= 0 THEN 0 ELSE (2 * n + d) \div (2 * d)

\* determine_topic_status.  Its last return is never reached: an accuracy below
\* 60 or a coverage below 10 has been answered before.
TopicStatus(answered, accuracy, coverage, stability, weakness, confidence, stable, open) ==
  IF answered < 5 \/ coverage < 1000 THEN "new"
  ELSE IF weakness >= 6000 \/ accuracy < 6000 \/ open >= 3 THEN "weak"
  ELSE IF /\ accuracy >= 8500 /\ coverage >= 7000 /\ stability >= 7500
          /\ weakness < 2500 /\ confidence = 3 /\ stable = 3 THEN "strong"
  ELSE IF /\ accuracy >= 7500 /\ coverage >= 4000 /\ stability >= 6000
          /\ weakness < 4000 THEN "stable"
  ELSE "learning"

\* calculate_topic_scores; last is the day of last_answered_at, now the day of "now".
Scores(answered, accuracy, unique, last, now, events, signals) ==
  LET coverage  == CoverageScore(unique, Available)
      stability == StabilityScore(events, signals.unresolved)
      open      == Cardinality(signals.unresolved)
      weakness  == WeaknessScore(answered, accuracy, unique, stability,
                     RecencyRisk(now - last), open, signals.total, signals.repeated)
  IN [coverage |-> coverage, stability |-> stability, weakness |-> weakness,
      status |-> TopicStatus(answered, accuracy, coverage, stability, weakness,
                   AnswerConfidence(answered), StabilityConfidence(Cardinality(Eligible(events))),
                   open)]

\* No progress row yet: its columns' values until the first answer.
NoTopic ==
  [exists |-> FALSE, answered |-> 0, correct |-> 0, wrong |-> 0, accuracy |-> 0, unique |-> 0,
   last |-> 0,
   scores |-> [coverage |-> -1, stability |-> 0, weakness |-> 0, status |-> "new"],
   signals |-> NoSignals]

-----------------------------------------------------------------------------
LearningInit ==
  /\ accepted = <<>> /\ settled = [q \in QuizIds |-> <<>>] /\ today = 1
  /\ mistakes = [q \in QuizIds |-> NoMistake]
  /\ topic = NoTopic
  /\ jobs = {}
  /\ mistakeRaces = {} /\ topicRaced = FALSE /\ replayed = {}

Settled     == UNION {{turn.id : turn \in ToSet(settled[q])} : q \in QuizIds}
Outstanding == DOMAIN accepted \ (Settled \cup UNION {j.ids : j \in jobs})
UniqueSeen  == Cardinality({accepted[id].quiz : id \in DOMAIN accepted})

\* Rows a batch has changed and not yet committed.
Locked == {q \in QuizIds : \E j \in jobs :
             j.kind = "batch" /\ q \in DOMAIN j.rows /\ j.rows[q] # NoMistake}

\* The learner answers; the answer row and its event are committed elsewhere.
Accept(quiz, correct, review) ==
  /\ Len(accepted) < MaxAnswers
  /\ Len(accepted) - Cardinality(Settled) < MaxBacklog
  /\ accepted' = Append(accepted, [quiz |-> quiz, correct |-> correct,
                                   review |-> review, day |-> today])
  /\ UNCHANGED <<settled, today, mistakes, topic, jobs, learningRaces>>

NextDay ==
  /\ today < MaxDays /\ accepted # <<>>
  /\ today' = today + 1
  /\ UNCHANGED <<accepted, settled, mistakes, topic, jobs, learningRaces>>

-----------------------------------------------------------------------------
(* PostgresOutboxBatchProcessor.process. *)

IdsOf(q, ids)  == {id \in ids : accepted[id].quiz = q}
Relevant(ids)  == {id \in ids : ~accepted[id].correct \/ accepted[id].review}
TouchedBy(ids) == {accepted[id].quiz : id \in Relevant(ids)}

\* _apply_mistakes.  The rows are loaded FOR UPDATE, so that a row another batch
\* has changed is waited for; a row it has inserted is not seen, and a second
\* insert of it fails.
BatchBegin(ids) ==
  LET rows == [q \in TouchedBy(ids) |-> Replay(mistakes[q], IdsOf(q, ids))]
  IN /\ Cardinality(jobs) < MaxJobs
     /\ \A q \in TouchedBy(ids) \cap Locked : mistakes[q] = NoMistake /\ rows[q] = NoMistake
     /\ jobs' = jobs \cup {[kind |-> "batch", ids |-> ids, rows |-> rows, topic |-> topic]}
  /\ UNCHANGED <<accepted, settled, today, mistakes, topic, learningRaces>>

\* _progress_update_row: accuracy and scores, from the totals as they are read.
Rescored(row, seen, now, signals) ==
  LET accuracy == AccuracyScore(seen.correct, seen.answered)
  IN [row EXCEPT !.accuracy = accuracy, !.unique = UniqueSeen, !.signals = signals,
                 !.scores = Scores(seen.answered, accuracy, UniqueSeen, seen.last, now,
                                   accepted, signals)]

\* A row that exists is locked and read before its totals are increased, and the
\* session keeps the object it has: the scores rest on the totals of before.
BatchTopic(row, job, behind, signals) ==
  LET right == {id \in job.ids : accepted[id].correct}
      now   == Max({accepted[id].day : id \in job.ids})
      added == [row EXCEPT !.exists = TRUE,
                           !.answered = @ + Cardinality(job.ids),
                           !.correct = @ + Cardinality(right),
                           !.wrong = @ + Cardinality(job.ids \ right),
                           !.last = Larger(@, now)]
  IN Rescored(added, IF behind THEN row ELSE added, now, signals)

WrittenBy(job) == [q \in QuizIds |-> IF q \in DOMAIN job.rows /\ job.rows[q] # NoMistake
                                     THEN job.rows[q] ELSE mistakes[q]]

\* The i-th of a set of answers.
Nth(ids, i) == CHOOSE id \in ids : Cardinality({k \in ids : k <= id}) = i

Settle(ids, day(_)) ==
  settled' = [q \in QuizIds |->
    settled[q] \o [i \in 1 .. Cardinality(IdsOf(q, ids)) |->
      LET id == Nth(IdsOf(q, ids), i) IN [id |-> id, day |-> day(id)]]]

BatchFinishWith(job, signals) ==
  /\ job.kind = "batch"
  /\ \E behind \in IF ~topic.exists THEN {FALSE}
                   ELSE IF job.topic.exists THEN {TRUE} ELSE BOOLEAN :
       topic' = BatchTopic(topic, job, behind, signals)
  /\ mistakes' = WrittenBy(job)
  /\ jobs' = jobs \ {job}
  /\ Settle(job.ids, LAMBDA id : accepted[id].day)
  /\ mistakeRaces' = mistakeRaces \cup
       {q \in DOMAIN job.rows : job.rows[q] = NoMistake /\ mistakes[q] # NoMistake}
  /\ UNCHANGED <<accepted, today, topicRaced, replayed>>

\* Mutant of BatchFinish: the progress row is recalculated before the mistakes.
BatchFinishTopicFirst(job) == BatchFinishWith(job, Signals(mistakes))

\* _apply_progress and the commit.  The progress row stays locked from the upsert
\* to the commit, so the mistakes of every earlier commit are counted.
BatchFinish(job) == BatchFinishWith(job, Signals(WrittenBy(job)))

-----------------------------------------------------------------------------
(* OutboxEventProcessor.process. *)

EventBegin(id) ==
  /\ Cardinality(jobs) < MaxJobs
  /\ jobs' = jobs \cup {[kind |-> "event", ids |-> {id}, rows |-> mistakes, topic |-> topic]}
  /\ UNCHANGED <<accepted, settled, today, mistakes, topic, learningRaces>>

\* The ORM writes the columns that differ from what it read.
Changed(read, new, row) ==
  [column \in DOMAIN new |-> IF new[column] # read[column] THEN new[column] ELSE row[column]]

\* record_answer_result: the answer is counted on its row and once more, as of now.
EventTopic(read, answer, id, rows) ==
  LET answered == read.answered + 1
      correct  == read.correct + (IF answer.correct THEN 1 ELSE 0)
      wrong    == read.wrong + (IF answer.correct THEN 0 ELSE 1)
      accuracy == AccuracyScore(correct, answered)
      again    == [answer EXCEPT !.day = today]
      events   == IF answered > 1 THEN Append(accepted, again) ELSE <<again>>
      before   == \E k \in DOMAIN accepted \ {id} : accepted[k].quiz = answer.quiz
      unique   == IF answered <= 1 THEN 1
                  ELSE Larger(read.unique + (IF before THEN 0 ELSE 1), UniqueSeen)
  IN [exists |-> TRUE, answered |-> answered, correct |-> correct, wrong |-> wrong,
      accuracy |-> accuracy, unique |-> unique, last |-> today, signals |-> Signals(rows),
      scores |-> Scores(answered, accuracy, unique, today, today, events, Signals(rows))]

\* _process_answer_accepted and the commit.  The worker does not hand answered_at
\* on: the day of a success is the day it is processed.  Inserting a row that is
\* there by now fails, as does inserting the progress row twice and a row with
\* fewer answers than correct and wrong ones.
EventFinish(job) ==
  \E id \in job.ids :
    LET answer == accepted[id]
        q      == answer.quiz
        read   == job.rows[q]
        new    == AfterAnswer(read, answer, today)
        seen   == [job.rows EXCEPT ![q] = new]
        row    == EventTopic(job.topic, answer, id, seen)
    IN /\ job.kind = "event"
       /\ new # read => q \notin Locked
       /\ read = NoMistake /\ new # read => q \notin Unresolved(mistakes)
       /\ ~job.topic.exists => ~topic.exists
       /\ mistakes' = [mistakes EXCEPT ![q] =
            IF new = read THEN @ ELSE IF read = NoMistake THEN new ELSE Changed(read, new, @)]
       /\ topic' = [Changed(job.topic, row, topic) EXCEPT !.signals = row.signals,
            !.scores = Changed(job.topic.scores, row.scores, topic.scores)]
       /\ topic'.correct + topic'.wrong <= topic'.answered
       /\ jobs' = jobs \ {job}
       /\ Settle(job.ids, LAMBDA i : today)
       /\ mistakeRaces' = mistakeRaces \cup (IF read # mistakes[q] THEN {q} ELSE {})
       /\ topicRaced' = (topicRaced \/ job.rows # mistakes \/ job.topic # topic)
       /\ replayed' = replayed \cup (IF answer.correct /\ answer.day # today THEN {q} ELSE {})
       /\ UNCHANGED <<accepted, today>>

\* The transaction raises and is rolled back.
Fail(job) ==
  /\ jobs' = jobs \ {job}
  /\ UNCHANGED <<accepted, settled, today, mistakes, topic, learningRaces>>

LearningNext ==
  \/ \E q \in QuizIds : Accept(q, FALSE, FALSE) \/ Accept(q, TRUE, TRUE) \/ Accept(q, TRUE, FALSE)
  \/ NextDay
  \/ \E ids \in (SUBSET Outstanding) \ {{}} : BatchBegin(ids)
  \/ \E id \in Outstanding : EventBegin(id)
  \/ \E job \in jobs : BatchFinish(job) \/ EventFinish(job) \/ Fail(job)

LearningSpec == LearningInit /\ [][LearningNext]_learningVars

-----------------------------------------------------------------------------
(* Properties. *)

\* The tables and the transactions hold values of their types; every answer is
\* settled at most once and by no transaction under way.
LearningTypeOK ==
  /\ \A id \in DOMAIN accepted :
       accepted[id] \in AnswerEvent(today)
  /\ mistakes \in [QuizIds -> MistakeRow]
  /\ topic \in TopicRow /\ topic.correct + topic.wrong <= topic.answered
  /\ Cardinality(Settled) = MapThenSumSet(LAMBDA q : Len(settled[q]), QuizIds)
  /\ Settled \subseteq DOMAIN accepted
  /\ \A j \in jobs : DOMAIN j.rows \subseteq QuizIds /\ j \in Job(DOMAIN j.rows)
  /\ \A j \in jobs : j.ids \subseteq DOMAIN accepted \ Settled

\* Turns of a history: its wrong answers, and the review successes since.
Wrongs(h)    == {i \in DOMAIN h : ~accepted[h[i].id].correct}
Successes(h) == {i \in DOMAIN h : /\ accepted[h[i].id].correct /\ accepted[h[i].id].review
                                  /\ \A w \in Wrongs(h) : w < i}
Before(turns, i) == {k \in turns : k < i}
NewDays(h, turns) ==
  {i \in turns : Before(turns, i) # {} => h[Max(Before(turns, i))].day # h[i].day}
Enough(h, turns) ==
  Cardinality(turns) >= RequiredRepeats /\ Cardinality(NewDays(h, turns)) >= RequiredDays

\* What the answers to a quiz say of its mistake: it counts the wrong ones; the
\* successes since the last of them, as far as they are needed, are its repeats;
\* it is resolved when they are enough.
MistakeOf(h) ==
  LET good == Successes(h)
      used == {i \in good : ~Enough(h, Before(good, i))}
  IN IF Wrongs(h) = {} THEN NoMistake
     ELSE [status |-> IF Enough(h, good) THEN "resolved" ELSE IF good # {} THEN "improved"
                      ELSE IF Cardinality(Wrongs(h)) = 1 THEN "new" ELSE "repeated",
           count |-> Cardinality(Wrongs(h)), repeats |-> Cardinality(used),
           days |-> Cardinality(NewDays(h, used)),
           last |-> IF used = {} THEN 0 ELSE h[Max(used)].day]

\* A mistake says what the answers that took effect say, however batches, single
\* events, failures and retries were mixed, unless an event wrote the row on a
\* read that was stale by then.
MistakeMatchesAnswers ==
  \A q \in QuizIds \ mistakeRaces : mistakes[q] = MistakeOf(settled[q])

\* A mistake is resolved by review answers the learner gave on as many days as
\* are required, unless a success was handled as a single event on a later day.
ResolvedOverDays ==
  \A q \in QuizIds \ (mistakeRaces \cup replayed) : mistakes[q].status = "resolved" =>
    Cardinality({accepted[id].day : id \in {i \in Settled :
      accepted[i].quiz = q /\ accepted[i].correct /\ accepted[i].review}}) >= RequiredDays

\* The scores of the topic rest on all its unresolved mistakes, those of other
\* transactions included, unless an event wrote the row on a stale read.
ScoresSeeEveryMistake == topicRaced \/ topic.signals = Signals(mistakes)

\* docs/05_progress_model.md: accuracy is correct / total.
AccuracyIsCorrectOverTotal == topic.accuracy = AccuracyScore(topic.correct, topic.answered)
=============================================================================
