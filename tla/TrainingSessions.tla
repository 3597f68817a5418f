-------------------------- MODULE TrainingSessions --------------------------
(***************************************************************************)
(* One learner's training sessions while nothing is written behind: start, *)
(* replace, review, resume, next question, cancel, and the answer that is  *)
(* stored in the handler's own transaction (bot/handlers/training.py,      *)
(* review.py; services/training_session*.py, training_question_flow.py,    *)
(* training_answer_flow.py, training_answer_fast_path.py; entitlements.py  *)
(* for the daily limit).                                                   *)
(*                                                                         *)
(* A handler is one transaction at READ COMMITTED.  It decides on what it  *)
(* read when it began, and its writes are absolute values:                 *)
(*                                                                         *)
(*   show, cancel:  Begin --> [read] --> Show or Cancel, or Abort          *)
(*   answer:        Tap --> [held] --Write--> [written] --> Answered       *)
(*                                                                         *)
(* An answer runs under a lock of its question, which is released before   *)
(* the commit and may expire earlier.  A unique key makes the second of    *)
(* two inserts wait for the first and then fail or find the row.           *)
(*                                                                         *)
(* One day and one plan; every item is of the level and theme asked for.   *)
(* The question cache is on and loses nothing, which only lets more taps   *)
(* through: without an entry the session's pending question is compared.   *)
(***************************************************************************)
EXTENDS Integers, FiniteSets

CONSTANTS
  MaxSessions,   \* bound: sessions are 1 .. MaxSessions
  Items,         \* active items of the catalog
  Mistakes,      \* items the learner has an open mistake for
  Planned,       \* DEFAULT_SESSION_QUESTIONS
  DailyLimit,    \* daily_question_limit of the plan
  NoItem,        \* no question
  MaxHandlers,   \* bound: handlers under way at once
  MaxAborts,     \* bound: handlers that die or whose database fails
  MaxExpiries    \* bound: answer locks that expire while they are held

ASSUME SessionAssumption ==
  /\ MaxSessions \in Nat /\ Planned \in Nat \ {0} /\ DailyLimit \in Nat
  /\ IsFiniteSet(Items) /\ Mistakes \subseteq Items /\ NoItem \notin Items
  /\ MaxHandlers \in Nat /\ MaxAborts \in Nat /\ MaxExpiries \in Nat

VARIABLES
  sessionStatus, \* QuizSession.status, "absent" before the insert
  flow,          \* QuizSession.session_type
  planned,       \* QuizSession.total_questions
  counted,       \* QuizSession.answered_count
  pending,       \* api_metadata["pending_question"]
  shownRows,     \* training_session_items: [session, position, item]
  answerRows,    \* user_answers, each with its outbox event: [session, item]
  daily,         \* the daily_limits row of today: [exists, used]
  cached,        \* questions in the Redis question cache
  handlers,      \* transactions under way
  showsCrossed,  \* history: two sessions were shown a question at once
  startsCrossed, \* history: two handlers that start a session ran at once
  endsCrossed,   \* history: sessions two ending handlers worked on at once
  asksCrossed,   \* history: sessions two handlers asked for a question of at once
  aborts, expiries

sessionTables  == <<sessionStatus, flow, planned, counted, pending>>
sessionRows    == <<shownRows, answerRows, daily>>
sessionHistory == <<showsCrossed, startsCrossed, endsCrossed, asksCrossed>>
sessionBounds  == <<aborts, expiries>>
sessionVars ==
  <<sessionTables, sessionRows, cached, handlers, sessionHistory, sessionBounds>>

SessionIds == 1 .. MaxSessions
Question   == [session : SessionIds, item : Items]

\* The tables' columns that anything here depends on.
SessionStatuses == {"absent", "active", "completed", "cancelled"}
ShownRow  == [session : SessionIds, position : Nat \ {0}, item : Items]
AnswerRow == [session : SessionIds, item : Items]
DailyRow  == [exists : BOOLEAN, used : 0 .. DailyLimit]

SessionInit ==
  /\ sessionStatus = [s \in SessionIds |-> "absent"]
  /\ flow = [s \in SessionIds |-> "regular"]
  /\ planned = [s \in SessionIds |-> Planned]
  /\ counted = [s \in SessionIds |-> 0]
  /\ pending = [s \in SessionIds |-> NoItem]
  /\ shownRows = {} /\ answerRows = {}
  /\ daily = [exists |-> FALSE, used |-> 0]
  /\ cached = {}
  /\ handlers = {}
  /\ showsCrossed = FALSE /\ startsCrossed = FALSE /\ endsCrossed = {} /\ asksCrossed = {}
  /\ aborts = 0 /\ expiries = 0

-----------------------------------------------------------------------------
(* What a handler reads. *)

\* get_active_for_user returns one row of these, in no stated order.
ActiveSessions == {s \in SessionIds : sessionStatus[s] = "active"}
Unused         == {s \in SessionIds : sessionStatus[s] = "absent"}
ShownIn(s)     == {r.item : r \in {t \in shownRows : t.session = s}}
AnsweredIn(s)  == {a.item : a \in {r \in answerRows : r.session = s}}
Least(S)       == CHOOSE s \in S : \A t \in S : s <= t

\* The id the insert of a session gets.
NewSession == Least(Unused)

\* The pending question read back from the session's metadata is q.
PendingIs(q) == pending[q.session] = q.item

\* Fewer answers than the session's question limit.
Unfinished(s) == Cardinality(AnsweredIn(s)) < planned[s]

\* _is_review_session.
IsReview(s) == flow[s] = "review"

\* The review screen has its start button only for a learner with open mistakes.
ReviewOffered == Mistakes # {}

\* ensure_daily_question_available; a missing row is created with nothing used.
DailyAvailable == daily.used < DailyLimit

\* question_references: a row for every item that was ever shown.
Referenced == {r.item : r \in shownRows}

ShowKinds == {"open", "new", "review", "next"}
Handler ==
  [kind : ShowKinds \cup {"cancel", "answer"}, n : Nat,
   session : SessionIds \cup {0},         \* the session it read; 0 when there was none
   item : Items \cup {NoItem},            \* the question tapped
   creates : BOOLEAN,                     \* it inserts a session
   answered : SUBSET Items,               \* list_question_ids_by_session
   known : SUBSET Items,                  \* items with a question reference
   counted : Nat, used : Nat, fresh : BOOLEAN,
   phase : {"read", "held", "written"},
   holds : BOOLEAN]                       \* it holds the answer lock of its question

Reads(kind, s, i, creates) ==
  [kind |-> kind, n |-> CHOOSE n \in 0 .. MaxHandlers : \A h \in handlers : h.n # n,
   session |-> s, item |-> IF kind = "answer" THEN i ELSE NoItem, creates |-> creates,
   answered |-> IF kind \in {"review", "next"} /\ ~creates THEN AnsweredIn(s) ELSE {},
   known |-> IF kind \in ShowKinds THEN Referenced ELSE {},
   counted |-> IF kind = "answer" THEN counted[s] ELSE 0,
   used |-> IF kind \in ShowKinds THEN daily.used ELSE 0,
   fresh |-> kind \in ShowKinds /\ ~daily.exists,
   phase |-> IF kind = "answer" THEN "held" ELSE "read",
   holds |-> kind = "answer"]

\* Handlers that may end the session they read.
Ends(h) == h.kind \in {"answer", "cancel"} \/ h.creates

\* Handlers that ask for the next question of the session they read.
Asks(h) == h.kind \in ShowKinds /\ ~h.creates

\* Two show handlers of one session; their position key lets one through.
SameQueue(g, h) == ~g.creates /\ ~h.creates /\ g.session = h.session

Begin(h) ==
  /\ Cardinality(handlers) < MaxHandlers
  /\ handlers' = handlers \cup {h}
  /\ showsCrossed' = (showsCrossed \/ (h.kind \in ShowKinds /\
       \E g \in handlers : g.kind \in ShowKinds /\ ~SameQueue(g, h)))
  /\ startsCrossed' = (startsCrossed \/ (h.creates /\ \E g \in handlers : g.creates))
  /\ endsCrossed' = endsCrossed \cup
       {s \in SessionIds : s = h.session /\ Ends(h)
                           /\ \E g \in handlers : g.session = s /\ Ends(g)}
  /\ asksCrossed' = asksCrossed \cup
       {s \in SessionIds : s = h.session /\ Asks(h)
                           /\ \E g \in handlers : g.session = s /\ Asks(g)}
  /\ UNCHANGED <<sessionTables, sessionRows, cached, sessionBounds>>

\* A session is created only if one is left in the bound for every creator.
Room == Cardinality(Unused) > Cardinality({h \in handlers : h.creates})

-----------------------------------------------------------------------------
(* Handlers that show a question. *)

\* handle_theme_selected, start_saved_theme_training_from_message: with an
\* active session the learner is offered to resume it.
OpenTheme ==
  /\ ActiveSessions = {} /\ DailyAvailable /\ Room
  /\ Begin(Reads("open", 0, NoItem, TRUE))

\* handle_start_new_training, the button carries a session id.
StartNew(s) ==
  /\ s \in ActiveSessions /\ DailyAvailable /\ Room
  /\ Begin(Reads("new", s, NoItem, TRUE))

\* handle_review_start: without a session one is created, an active review is
\* taken up again, another active session is a conflict.
StartReview ==
  /\ ReviewOffered /\ DailyAvailable
  /\ \/ ActiveSessions = {} /\ Room /\ Begin(Reads("review", 0, NoItem, TRUE))
     \/ \E s \in ActiveSessions :
          /\ IsReview(s) /\ Unfinished(s)
          /\ Begin(Reads("review", s, NoItem, FALSE))

\* handle_next: the result of an answer offers the next question; the button's
\* question must still be the pending one.
NextQuestion(q) ==
  /\ q.session \in ActiveSessions
  /\ PendingIs(q) /\ Unfinished(q.session)
  /\ DailyAvailable
  /\ Begin(Reads("next", q.session, q.item, FALSE))

\* cache_pending_question_if_enabled, when a question is sent.
AddToCache(q) == cached' = cached \cup {q}

\* continue_active_training_from_message: the pending question is sent again.
ResendPending(s) ==
  /\ pending[s] # NoItem
  /\ AddToCache([session |-> s, item |-> pending[s]])
  /\ UNCHANGED <<sessionTables, sessionRows, handlers, sessionHistory, sessionBounds>>

\* handle_resume_training: without a pending question a question is asked for.
Resume(s) ==
  /\ s \in ActiveSessions /\ Unfinished(s)
  /\ \/ ResendPending(s)
     \/ pending[s] = NoItem /\ DailyAvailable /\ Begin(Reads("next", s, NoItem, FALSE))

\* continue_training of the menu: the active session goes on, or the saved theme
\* is opened; the buttons for either do the same.
ContinueTraining == OpenTheme \/ \E s \in ActiveSessions : Resume(s)

\* The session that get_or_create_current_question finds in this transaction.
Current(h) ==
  IF h.creates THEN (ActiveSessions \ {h.session}) \cup {NewSession} ELSE {h.session}

SeenIn(h, t) == IF t = h.session THEN h.answered ELSE AnsweredIn(t)

\* Row locks: an uncommitted answer has updated its session.
NotLocked(s) == \A g \in handlers : g.phase = "written" => g.session # s

AlreadyShown(t, i) == \E r \in shownRows : r.session = t /\ r.item = i
PositionFree(t, p) == \A r \in shownRows : ~(r.session = t /\ r.position = p)
DailyRowFree(h)    == h.fresh => ~daily.exists

\* upsert_snapshot finds the reference of an item, or inserts one; of two first
\* showings of an item at once, to any learners, one fails on the unique key.
ReferenceFound(h, i) == i \in h.known

\* Mutant of ShowRow: the position is not part of a key.
ShowRowAnywhere(h, t, i) ==
  IF AlreadyShown(t, i) THEN UNCHANGED <<shownRows, daily>>
  ELSE /\ DailyRowFree(h)
       /\ shownRows' = shownRows \cup
            {[session |-> t, position |-> Cardinality(SeenIn(h, t)) + 1, item |-> i]}
       /\ daily' = [exists |-> TRUE, used |-> h.used + 1]

\* _create_shown_session_item and _record_question_shown: a question not shown
\* in this session before takes the next position and is charged.
ShowRow(h, t, i) ==
  IF AlreadyShown(t, i) THEN UNCHANGED <<shownRows, daily>>
  ELSE LET p == Cardinality(SeenIn(h, t)) + 1 IN
       /\ PositionFree(t, p) /\ DailyRowFree(h)
       /\ shownRows' = shownRows \cup {[session |-> t, position |-> p, item |-> i]}
       /\ daily' = [exists |-> TRUE, used |-> h.used + 1]

\* Mutant of Statuses: a replaced session is left as it is.
StatusesKeepingOld(h) ==
  IF h.creates THEN [sessionStatus EXCEPT ![NewSession] = "active"] ELSE sessionStatus

\* _replace_active_session_if_needed and the insert.
Statuses(h) ==
  [s \in SessionIds |->
     IF h.creates /\ s = h.session THEN "cancelled"
     ELSE IF h.creates /\ s = NewSession THEN "active" ELSE sessionStatus[s]]

\* set_pending_question.
SetPending(t, i) == pending' = [pending EXCEPT ![t] = i]

\* _session_question_limit: a review asks no more questions than there are mistakes.
QuestionLimit(kind) ==
  IF kind = "review" /\ Cardinality(Mistakes) < Planned THEN Cardinality(Mistakes) ELSE Planned

\* The new session's type and number of questions.
SessionCreated(kind) ==
  /\ flow' = [flow EXCEPT ![NewSession] = IF kind = "review" THEN "review" ELSE "regular"]
  /\ planned' = [planned EXCEPT ![NewSession] = QuestionLimit(kind)]

\* The rest of a show handler, its commit, and the message that is sent: the
\* catalog service picks an item that was not answered in this session.
Show(h) ==
  /\ h.kind \in ShowKinds
  /\ \E t \in Current(h) : \E i \in Items \ SeenIn(h, t) :
       LET q == [session |-> t, item |-> i] IN
       /\ NotLocked(h.session) /\ NotLocked(t)
       /\ ShowRow(h, t, i)
       /\ SetPending(t, i)
       /\ AddToCache(q)
  /\ sessionStatus' = Statuses(h)
  /\ IF h.creates THEN SessionCreated(h.kind) ELSE UNCHANGED <<flow, planned>>
  /\ handlers' = handlers \ {h}
  /\ UNCHANGED <<counted, answerRows, sessionHistory, sessionBounds>>

\* A unique key refuses the item that was picked, or no item is left.
Refused(h) ==
  /\ h.kind \in ShowKinds
  /\ \E t \in Current(h) :
       \/ Items \subseteq SeenIn(h, t)
       \/ \E i \in Items \ SeenIn(h, t) :
            \/ ~ReferenceFound(h, i)
            \/ /\ ~AlreadyShown(t, i)
               /\ ~(PositionFree(t, Cardinality(SeenIn(h, t)) + 1) /\ DailyRowFree(h))
  /\ handlers' = handlers \ {h}
  /\ UNCHANGED <<sessionTables, sessionRows, cached, sessionHistory, sessionBounds>>

-----------------------------------------------------------------------------
(* Cancelling. *)

\* handle_cancel_training, the button carries a session id.
BeginCancel(s) == s \in ActiveSessions /\ Begin(Reads("cancel", s, NoItem, FALSE))

\* open_menu_from_callback abandons whichever session is active.
OpenMenu == \E s \in ActiveSessions : BeginCancel(s)

Cancel(h) ==
  /\ h.kind = "cancel" /\ NotLocked(h.session)
  /\ sessionStatus' = [sessionStatus EXCEPT ![h.session] = "cancelled"]
  /\ pending' = [pending EXCEPT ![h.session] = NoItem]
  /\ handlers' = handlers \ {h}
  /\ UNCHANGED <<flow, planned, counted, sessionRows, cached, sessionHistory, sessionBounds>>

-----------------------------------------------------------------------------
(* Answering. *)

\* Every question shown was sent; its buttons never go away.
Sent == {[session |-> r.session, item |-> r.item] : r \in shownRows}

QuestionOf(h) == [session |-> h.session, item |-> h.item]

\* Mutant of Answerable: a cached question is not checked against its session.
AnswerableFromCache(q) ==
  q \in cached \/ (sessionStatus[q.session] = "active" /\ PendingIs(q))

\* _validate_pending_answer: the token is the one of the session's question.
ValidInSession(q) == sessionStatus[q.session] = "active" /\ PendingIs(q)

\* _validate_context: a cached question needs an active session only.
Answerable(q) ==
  ValidInSession(q) \/ (q \in cached /\ sessionStatus[q.session] = "active")

\* answer_attempt_lock around an answer: one holder for each question.
LockFree(q) == \A h \in handlers : h.holds => QuestionOf(h) # q

\* handle_submit_answer.
Tap(q) ==
  /\ LockFree(q) /\ Answerable(q)
  /\ Begin(Reads("answer", q.session, q.item, FALSE))

\* The lock's TTL ends while its holder is still at work.
LockExpires(h) ==
  /\ h.holds /\ expiries < MaxExpiries
  /\ handlers' = (handlers \ {h}) \cup {[h EXCEPT !.holds = FALSE]}
  /\ expiries' = expiries + 1
  /\ UNCHANGED <<sessionTables, sessionRows, cached, sessionHistory, aborts>>

\* Mutant of Inserted: a second answer to a question is another row.
InsertedAgain(h) == TRUE

\* create_idempotent: ON CONFLICT DO NOTHING on the session's question.
Inserted(h) == QuestionOf(h) \notin answerRows

\* The insert waits for an uncommitted row of the question; then the session
\* row is updated and the lock given back.
Write(h) ==
  /\ h.phase = "held" /\ NotLocked(h.session) /\ Inserted(h)
  /\ handlers' = (handlers \ {h}) \cup {[h EXCEPT !.phase = "written", !.holds = FALSE]}
  /\ cached' = cached \ {QuestionOf(h)}
  /\ UNCHANGED <<sessionTables, sessionRows, sessionHistory, sessionBounds>>

\* The insert found the row of an earlier tap.
Duplicate(h) ==
  /\ h.phase = "held" /\ ~Inserted(h)
  /\ handlers' = handlers \ {h}
  /\ UNCHANGED <<sessionTables, sessionRows, cached, sessionHistory, sessionBounds>>

\* The answer is the last of its session.
Completes(h) == h.counted + 1 >= planned[h.session]

\* Mutant of PendingAfter: the question is dropped with every answer.
PendingDropped(s, completed) == NoItem

\* _update_session_state: the question stays pending until the next is shown.
PendingAfter(s, completed) == IF completed THEN NoItem ELSE pending[s]

\* _enqueue_answer_accepted: the row of an answer and the event it always has.
StoredWith(h) == answerRows \cup {QuestionOf(h)}

\* _apply_side_effects_and_result: the counter, the session and the event.
SideEffects(h) ==
  LET s == h.session
      completed == Completes(h) IN
  /\ answerRows' = StoredWith(h)
  /\ counted' = [counted EXCEPT ![s] = h.counted + 1]
  /\ pending' = [pending EXCEPT ![s] = PendingAfter(s, completed)]
  /\ sessionStatus' = [sessionStatus EXCEPT ![s] = IF completed THEN "completed" ELSE @]

\* The commit of an accepted answer.
Answered(h) ==
  /\ h.phase = "written"
  /\ SideEffects(h)
  /\ handlers' = handlers \ {h}
  /\ UNCHANGED <<flow, planned, shownRows, daily, cached, sessionHistory, sessionBounds>>

\* The handler dies, the database or the catalog raises: rolled back.
Abort(h) ==
  /\ aborts < MaxAborts
  /\ handlers' = handlers \ {h}
  /\ aborts' = aborts + 1
  /\ UNCHANGED <<sessionTables, sessionRows, cached, sessionHistory, expiries>>

SessionNext ==
  \/ ContinueTraining \/ StartReview \/ OpenMenu
  \/ \E s \in SessionIds : StartNew(s)
  \/ \E q \in answerRows : NextQuestion(q)
  \/ \E q \in Sent : Tap(q)
  \/ \E h \in handlers : \/ Show(h) \/ Refused(h) \/ Cancel(h) \/ LockExpires(h)
                         \/ Write(h) \/ Duplicate(h) \/ Answered(h) \/ Abort(h)

SessionSpec == SessionInit /\ [][SessionNext]_sessionVars

-----------------------------------------------------------------------------
SessionTypeOK ==
  /\ sessionStatus \in [SessionIds -> SessionStatuses]
  /\ flow \in [SessionIds -> {"regular", "review"}]
  /\ planned \in [SessionIds -> Nat] /\ counted \in [SessionIds -> Nat]
  /\ pending \in [SessionIds -> Items \cup {NoItem}]
  /\ shownRows \subseteq ShownRow
  /\ answerRows \subseteq AnswerRow
  /\ daily \in DailyRow
  /\ cached \subseteq Question
  /\ handlers \subseteq Handler
  /\ showsCrossed \in BOOLEAN /\ startsCrossed \in BOOLEAN
  /\ endsCrossed \subseteq SessionIds /\ asksCrossed \subseteq SessionIds
  /\ aborts \in 0 .. MaxAborts /\ expiries \in 0 .. MaxExpiries

\* The limit row is read and written back without a lock.  However handlers
\* overlap inside one session, every question shown is charged once and the
\* limit holds; only questions shown in two sessions at once can lose a charge,
\* and a question is never charged twice.
ChargedPerShownQuestion ==
  /\ daily.used <= Cardinality(shownRows)
  /\ ~showsCrossed => daily.used = Cardinality(shownRows)
  /\ \A r, t \in shownRows : r.session = t.session /\ r.position = t.position => r = t

\* Double taps, expired locks and answers that overlap a cancellation leave
\* answered_count equal to the number of stored answers, and a session is
\* completed only with all of them.
AnswersCountedOnce ==
  \A s \in SessionIds :
    /\ counted[s] = Cardinality(AnsweredIn(s))
    /\ sessionStatus[s] = "completed" => counted[s] = planned[s]

\* The lookup of the active session is not locked and nothing in the schema
\* keeps a second one out: two at once only come of two starts at once.
OneActiveSession == ~startsCrossed => Cardinality(ActiveSessions) <= 1

\* A learner with an active session can go on: it has questions left, and its
\* pending question was shown to him, so that he can answer it or has done so
\* and is offered the next.  Unless two handlers asked for a question of the
\* session at once, it is the last one shown.
LearnerCanGoOn ==
  ~startsCrossed =>
    \A s \in ActiveSessions :
      /\ Unfinished(s)
      /\ \E r \in shownRows :
           /\ r.session = s /\ r.item = pending[s]
           /\ s \notin asksCrossed => r.position = Cardinality(ShownIn(s))

\* A session that has ended stays as it ended, unless two of the handlers that
\* can end it had read it as active at once.
EndedStaysEnded ==
  [][\A s \in SessionIds :
       sessionStatus[s] \in {"completed", "cancelled"} /\ s \notin endsCrossed
         => sessionStatus'[s] = sessionStatus[s]]_sessionVars
=============================================================================
