------------------------ MODULE TrainingSessionsProofs ------------------------
(***************************************************************************)
(* Theorems about TrainingSessions, for any number of sessions, questions, *)
(* handlers, failures and expired locks, and any limits.                   *)
(***************************************************************************)
EXTENDS TrainingSessions, FiniteSetTheorems, WellFoundedInduction, TLAPS

Creators == {h \in handlers : h.creates}

\* Every handler that creates a session finds a number for it.
RoomLeft ==
  /\ IsFiniteSet(handlers) /\ IsFiniteSet(shownRows)
  /\ Cardinality(Creators) <= Cardinality(Unused)

\* The questions of a session are different and numbered without a gap.
Numbered ==
  /\ \A r, t \in shownRows :
       r.session = t.session /\ (r.position = t.position \/ r.item = t.item) => r = t
  /\ \A r \in shownRows : r.position <= Cardinality(ShownIn(r.session))
  /\ \A s \in SessionIds : \A p \in 1 .. Cardinality(ShownIn(s)) : ~PositionFree(s, p)

\* Only the last question shown may be open, and what the session's row says is
\* what the rows of its answers say.
Counts ==
  /\ \A r \in shownRows :
       r.item \notin AnsweredIn(r.session) => r.position = Cardinality(ShownIn(r.session))
  /\ \A s \in SessionIds :
       /\ AnsweredIn(s) \subseteq ShownIn(s)
       /\ Cardinality(ShownIn(s)) <= planned[s]
       /\ counted[s] = Cardinality(AnsweredIn(s))
       /\ sessionStatus[s] = "absent" => ShownIn(s) = {}
       /\ sessionStatus[s] = "active" => counted[s] < planned[s]
       /\ sessionStatus[s] = "completed" => counted[s] = planned[s]

\* What a handler that shows a question has read is true of an earlier state.
ReadBefore(h) ==
  /\ h.used < DailyLimit /\ h.used <= Cardinality(shownRows)
  /\ h.answered \subseteq AnsweredIn(h.session)
  /\ h.kind = "review" => ReviewOffered
  /\ ~h.creates => h.session \in SessionIds /\ Cardinality(h.answered) < planned[h.session]

\* A tap is of a question that was sent; the counter it has read is out of date
\* only if its question was answered meanwhile.
TapOK(h) ==
  /\ QuestionOf(h) \in Sent
  /\ QuestionOf(h) \notin answerRows => h.counted = counted[h.session]
  /\ h.phase = "written" => QuestionOf(h) \notin answerRows

HandlersOK ==
  /\ \A h \in handlers :
       /\ h.session # 0 => sessionStatus[h.session] # "absent"
       /\ h.kind \in ShowKinds => ReadBefore(h)
       /\ h.kind = "cancel" => h.session \in SessionIds
       /\ h.kind = "answer" => TapOK(h)
       /\ h.phase # "read" \/ h.holds => h.kind = "answer"
       /\ h.creates => h.kind \in ShowKinds
  /\ \A g, h \in handlers :
       g.phase = "written" /\ h.phase = "written" /\ g.session = h.session => g = h

\* While the handlers that show questions are all of one session, the charge a
\* handler has read is the present one, or its position is taken.
Charges ==
  /\ daily.used <= Cardinality(shownRows)
  /\ ~showsCrossed =>
       /\ daily.used = Cardinality(shownRows)
       /\ \A g, h \in handlers : g.kind \in ShowKinds /\ h.kind \in ShowKinds =>
            g = h \/ SameQueue(g, h)
       /\ \A h \in handlers : h.kind \in ShowKinds =>
            \/ h.used = daily.used
            \/ ~h.creates /\ Cardinality(h.answered) < Cardinality(ShownIn(h.session))

\* While starts have not overlapped, a handler that creates a session has read
\* the only active one.
StartsAlone ==
  ~startsCrossed =>
    /\ \A s, t \in ActiveSessions : s = t
    /\ \A g, h \in Creators : g = h
    /\ \A h \in Creators : ActiveSessions \subseteq {h.session}

\* A handler that asks for the next question alone has read all answers but that
\* of the last question.
AsksAlone ==
  ~startsCrossed =>
    /\ \A g, h \in handlers :
         Asks(g) /\ Asks(h) /\ g.session = h.session /\ g.session \notin asksCrossed => g = h
    /\ \A h \in handlers : \A r \in shownRows :
         Asks(h) /\ r.session = h.session /\ h.session \notin asksCrossed
         /\ r.item \notin h.answered => r.position = Cardinality(ShownIn(r.session))

\* A handler that may end a session alone has read it as it is.
EndsAlone ==
  /\ \A g, h \in handlers :
       Ends(g) /\ Ends(h) /\ g.session = h.session /\ g.session \in SessionIds \ endsCrossed
       => g = h
  /\ \A h \in handlers :
       Ends(h) /\ h.session \in SessionIds \ endsCrossed => sessionStatus[h.session] = "active"

\* The inductive invariant.
SessionInv ==
  /\ SessionTypeOK /\ RoomLeft /\ Numbered /\ Counts /\ HandlersOK /\ Charges
  /\ StartsAlone /\ AsksAlone /\ EndsAlone /\ LearnerCanGoOn

-----------------------------------------------------------------------------
(* Sets of questions, and the rows they come from. *)

LEMMA ItemSets ==
  ASSUME NEW S, S \subseteq Items
  PROVE  IsFiniteSet(S) /\ Cardinality(S) \in Nat
<1>1. IsFiniteSet(S)
  BY FS_Subset, SessionAssumption
<1> QED BY <1>1, FS_CardinalityType

LEMMA SmallerSet ==
  ASSUME NEW T, T \subseteq Items, NEW S, S \subseteq T
  PROVE  Cardinality(S) <= Cardinality(T) /\ (Cardinality(S) = Cardinality(T) => S = T)
BY ItemSets, FS_Subset

LEMMA OneMore ==
  ASSUME NEW S, S \subseteq Items, NEW i \in Items, i \notin S
  PROVE  Cardinality(S \cup {i}) = Cardinality(S) + 1
BY ItemSets, FS_AddElement

LEMMA SessionNumbers == 0 \notin SessionIds /\ SessionIds \subseteq Nat /\ IsFiniteSet(SessionIds)
BY FS_Interval, SessionAssumption DEF SessionIds

LEMMA RowSets ==
  ASSUME shownRows \subseteq ShownRow, answerRows \subseteq AnswerRow
  PROVE  \A s : /\ ShownIn(s) \subseteq Items /\ AnsweredIn(s) \subseteq Items
                /\ Cardinality(ShownIn(s)) \in Nat /\ Cardinality(AnsweredIn(s)) \in Nat
<1>1. \A s : ShownIn(s) \subseteq Items /\ AnsweredIn(s) \subseteq Items
  BY DEF ShownIn, AnsweredIn, ShownRow, AnswerRow
<1> QED BY <1>1, ItemSets

\* A question by its session and item.
LEMMA Questions ==
  ASSUME answerRows \subseteq AnswerRow
  PROVE  \A s, i : /\ [session |-> s, item |-> i] \in answerRows <=> i \in AnsweredIn(s)
                   /\ [session |-> s, item |-> i] \in Sent <=> i \in ShownIn(s)
<1>1. \A a \in answerRows : a = [session |-> a.session, item |-> a.item]
  BY DEF AnswerRow
<1>2. \A s, i : [session |-> s, item |-> i] \in answerRows <=> i \in AnsweredIn(s)
  BY <1>1 DEF AnsweredIn
<1>3. \A s, i : [session |-> s, item |-> i] \in Sent <=> i \in ShownIn(s)
  BY DEF ShownIn, Sent
<1> QED BY <1>2, <1>3

LEMMA LeastIsIn ==
  ASSUME NEW S, S \subseteq SessionIds, S # {}
  PROVE  Least(S) \in S
<1> DEFINE less == OpToRel(<, Nat)
<1>1. S \subseteq Nat
  BY SessionNumbers
<1>2. IsWellFoundedOn(less, Nat)
  BY NatLessThanWellFounded
<1> HIDE DEF less
<1>3. PICK x \in S : \A y \in S : <<y, x>> \notin less
  BY <1>1, <1>2, WFMin
<1>4. \A y \in S : ~ (y < x)
  BY <1>1, <1>3 DEF less, OpToRel
<1>5. \A y \in S : x \in Int /\ y \in Int
  BY <1>1
<1>6. \A y \in S : x <= y
  BY <1>4, <1>5
<1> QED BY <1>6 DEF Least

\* A handler that creates a session finds a number.
LEMMA NewSessionFacts ==
  ASSUME SessionInv, NEW h \in handlers, h.creates
  PROVE  NewSession \in SessionIds /\ sessionStatus[NewSession] = "absent"
<1>1. Unused \subseteq SessionIds /\ IsFiniteSet(Unused) /\ Cardinality(Unused) \in Nat
  BY SessionNumbers, FS_Subset, FS_CardinalityType DEF Unused
<1>2. IsFiniteSet(Creators) /\ h \in Creators
  BY FS_Subset DEF Creators, SessionInv, RoomLeft
<1>3. Cardinality(Creators) # 0 /\ Cardinality(Creators) \in Nat
  BY <1>2, FS_EmptySet, FS_CardinalityType
<1>4. Unused # {}
  BY <1>1, <1>3, FS_EmptySet DEF SessionInv, RoomLeft
<1> QED BY <1>1, <1>4, LeastIsIn DEF NewSession, Unused

-----------------------------------------------------------------------------
(* The first state, and steps that only concern handlers. *)

LEMMA SessionInitial == SessionInit => SessionInv
<1> SUFFICES ASSUME SessionInit
             PROVE  SessionInv
  OBVIOUS
<1>1. SessionTypeOK
  <2>1. daily \in DailyRow
    BY SessionAssumption DEF SessionInit, DailyRow
  <2>2. /\ sessionStatus \in [SessionIds -> SessionStatuses]
        /\ flow \in [SessionIds -> {"regular", "review"}]
        /\ planned \in [SessionIds -> Nat] /\ counted \in [SessionIds -> Nat]
        /\ pending \in [SessionIds -> Items \cup {NoItem}]
    BY SessionAssumption DEF SessionInit, SessionStatuses
  <2>3. aborts \in 0 .. MaxAborts /\ expiries \in 0 .. MaxExpiries
    BY SessionAssumption DEF SessionInit
  <2> QED BY <2>1, <2>2, <2>3 DEF SessionInit, SessionTypeOK
<1>2. \A s : ShownIn(s) = {} /\ AnsweredIn(s) = {}
  BY DEF SessionInit, ShownIn, AnsweredIn
<1>3. RoomLeft
  <2>1. IsFiniteSet(handlers) /\ IsFiniteSet(shownRows) /\ Creators = {}
    BY FS_EmptySet DEF SessionInit, Creators
  <2>2. Cardinality(Unused) \in Nat
    BY SessionNumbers, FS_Subset, FS_CardinalityType DEF Unused
  <2> QED BY <2>1, <2>2, FS_EmptySet DEF RoomLeft
<1>4. Numbered /\ Counts
  <2>1. \A s \in SessionIds : 1 .. Cardinality(ShownIn(s)) = {}
    BY <1>2, FS_EmptySet
  <2>2. \A s \in SessionIds : planned[s] \in Nat /\ counted[s] = 0 /\ sessionStatus[s] = "absent"
    BY SessionAssumption DEF SessionInit
  <2>3. shownRows = {}
    BY DEF SessionInit
  <2> QED BY <1>2, <2>1, <2>2, <2>3, FS_EmptySet DEF Numbered, Counts
<1>5. HandlersOK /\ Charges
  BY FS_EmptySet DEF SessionInit, HandlersOK, Charges
<1>6. ActiveSessions = {}
  BY DEF SessionInit, ActiveSessions
<1>7. StartsAlone /\ AsksAlone /\ EndsAlone /\ LearnerCanGoOn
  BY <1>6 DEF SessionInit, StartsAlone, Creators, AsksAlone, EndsAlone, LearnerCanGoOn
<1> QED BY <1>1, <1>3, <1>4, <1>5, <1>7 DEF SessionInv

\* The rows are left as they are.
SameRows == UNCHANGED <<sessionTables, sessionRows>>

LEMMA SameRowsFacts ==
  ASSUME SameRows
  PROVE  /\ \A s : ShownIn(s)' = ShownIn(s) /\ AnsweredIn(s)' = AnsweredIn(s)
         /\ Sent' = Sent /\ ActiveSessions' = ActiveSessions /\ Unused' = Unused
         /\ UNCHANGED <<sessionStatus, flow, planned, counted, pending, shownRows, answerRows,
                        daily>>
BY DEF SameRows, sessionTables, sessionRows, ShownIn, AnsweredIn, Sent, ActiveSessions, Unused

\* Handlers end without a trace, or a cached question comes or goes.
LEMMA HandlersLeave ==
  ASSUME SessionInv, SameRows, UNCHANGED sessionHistory, handlers' \subseteq handlers,
         cached' \subseteq Question, aborts' \in 0 .. MaxAborts, expiries' \in 0 .. MaxExpiries
  PROVE  SessionInv'
<1> USE SameRowsFacts
<1>1. UNCHANGED <<showsCrossed, startsCrossed, endsCrossed, asksCrossed>>
  BY DEF sessionHistory
<1>2. SessionTypeOK'
  BY <1>1 DEF SessionInv, SessionTypeOK
<1>3. RoomLeft'
  <2>1. IsFiniteSet(handlers) /\ IsFiniteSet(handlers')
    BY FS_Subset DEF SessionInv, RoomLeft
  <2>2. IsFiniteSet(Creators) /\ Creators' \subseteq Creators
    BY <2>1, FS_Subset DEF Creators
  <2>3. IsFiniteSet(Creators') /\ Cardinality(Creators') <= Cardinality(Creators)
    BY <2>2, FS_Subset
  <2>4. /\ Cardinality(Creators) \in Nat /\ Cardinality(Creators') \in Nat
        /\ Cardinality(Unused) \in Nat
    BY <2>2, <2>3, SessionNumbers, FS_Subset, FS_CardinalityType DEF Unused
  <2> QED BY <2>1, <2>3, <2>4 DEF SessionInv, RoomLeft
<1>4. Numbered' /\ Counts'
  BY DEF SessionInv, Numbered, Counts, PositionFree
<1>5. HandlersOK'
  BY DEF SessionInv, HandlersOK, ReadBefore, TapOK, QuestionOf
<1>6. Charges'
  BY <1>1 DEF SessionInv, Charges, SameQueue
<1>7. StartsAlone' /\ AsksAlone' /\ EndsAlone'
  BY <1>1 DEF SessionInv, StartsAlone, Creators, AsksAlone, Asks, EndsAlone, Ends
<1>8. LearnerCanGoOn'
  BY <1>1 DEF SessionInv, LearnerCanGoOn, Unfinished
<1> QED BY <1>2, <1>3, <1>4, <1>5, <1>6, <1>7, <1>8 DEF SessionInv

-----------------------------------------------------------------------------
(* Handlers that begin. *)

\* What is true of a handler when it begins.
NewHandler(h) ==
  /\ h \in Handler
  /\ h.creates => /\ h.kind \in ShowKinds /\ Room
                  /\ ActiveSessions = {} \/ h.session \in ActiveSessions
  /\ h.session # 0 => sessionStatus[h.session] # "absent"
  /\ h.kind \in ShowKinds => ReadBefore(h) /\ h.used = daily.used
  /\ h.kind = "cancel" => h.session \in SessionIds
  /\ h.kind = "answer" => TapOK(h)
  /\ h.phase # "written" /\ (h.phase # "read" \/ h.holds => h.kind = "answer")
  /\ Ends(h) /\ h.session # 0 => sessionStatus[h.session] = "active"
  /\ Asks(h) => h.answered = AnsweredIn(h.session)

LEMMA HandlerBegins ==
  ASSUME SessionInv, NEW h, NewHandler(h), Begin(h)
  PROVE  SessionInv'
<1>1. /\ handlers' = handlers \cup {h} /\ SameRows
      /\ UNCHANGED <<cached, aborts, expiries>>
      /\ showsCrossed' = (showsCrossed \/ (h.kind \in ShowKinds /\
           \E g \in handlers : g.kind \in ShowKinds /\ ~SameQueue(g, h)))
      /\ startsCrossed' = (startsCrossed \/ (h.creates /\ \E g \in handlers : g.creates))
      /\ endsCrossed' = endsCrossed \cup
           {s \in SessionIds : s = h.session /\ Ends(h)
                               /\ \E g \in handlers : g.session = s /\ Ends(g)}
      /\ asksCrossed' = asksCrossed \cup
           {s \in SessionIds : s = h.session /\ Asks(h)
                               /\ \E g \in handlers : g.session = s /\ Asks(g)}
  BY DEF Begin, SameRows, sessionBounds
<1> USE <1>1, SameRowsFacts
<1>2. SessionTypeOK'
  <2>1. handlers' \subseteq Handler
    BY DEF SessionInv, SessionTypeOK, NewHandler
  <2>2. showsCrossed' \in BOOLEAN /\ startsCrossed' \in BOOLEAN
    BY DEF SessionInv, SessionTypeOK
  <2>3. endsCrossed' \subseteq SessionIds /\ asksCrossed' \subseteq SessionIds
    BY DEF SessionInv, SessionTypeOK
  <2> QED BY <2>1, <2>2, <2>3 DEF SessionInv, SessionTypeOK
<1>3. RoomLeft'
  <2>1. IsFiniteSet(handlers) /\ IsFiniteSet(handlers')
    BY FS_AddElement DEF SessionInv, RoomLeft
  <2>2. IsFiniteSet(Creators) /\ Cardinality(Creators) \in Nat /\ Cardinality(Unused) \in Nat
    BY <2>1, SessionNumbers, FS_Subset, FS_CardinalityType DEF Creators, Unused
  <2>3. CASE h.creates
    <3>1. Creators' = Creators \cup {h}
      BY <2>3 DEF Creators
    <3>2. Cardinality(Creators') \in {Cardinality(Creators), Cardinality(Creators) + 1}
      BY <2>2, <3>1, FS_AddElement
    <3>3. Cardinality(Unused) > Cardinality(Creators)
      BY <2>3 DEF NewHandler, Room, Creators
    <3> QED BY <2>1, <2>2, <3>2, <3>3 DEF SessionInv, RoomLeft
  <2>4. CASE ~h.creates
    <3>1. Creators' = Creators
      BY <2>4 DEF Creators
    <3> QED BY <2>1, <3>1 DEF SessionInv, RoomLeft
  <2> QED BY <2>3, <2>4
<1>4. Numbered' /\ Counts'
  BY DEF SessionInv, Numbered, Counts, PositionFree
<1>5. HandlersOK'
  BY DEF SessionInv, HandlersOK, NewHandler, ReadBefore, TapOK, QuestionOf
<1>6. Charges'
  <2>1. \A f, g : SameQueue(f, g) = SameQueue(g, f)
    BY DEF SameQueue
  <2> SUFFICES ASSUME ~showsCrossed'
               PROVE  /\ daily.used = Cardinality(shownRows)
                      /\ \A f, g \in handlers' : f.kind \in ShowKinds /\ g.kind \in ShowKinds =>
                           f = g \/ SameQueue(f, g)
                      /\ \A g \in handlers' : g.kind \in ShowKinds =>
                           \/ g.used = daily.used
                           \/ ~g.creates /\ Cardinality(g.answered) < Cardinality(ShownIn(g.session))
    BY DEF SessionInv, Charges, SameQueue
  <2>2. ~showsCrossed /\ Charges
    BY DEF SessionInv
  <2>3. h.kind \in ShowKinds => \A g \in handlers : g.kind \in ShowKinds => SameQueue(g, h)
    OBVIOUS
  <2> QED BY <2>1, <2>2, <2>3 DEF Charges, NewHandler
<1>7. StartsAlone'
  <2> SUFFICES ASSUME ~startsCrossed'
               PROVE  /\ \A s, t \in ActiveSessions : s = t
                      /\ \A f, g \in Creators' : f = g
                      /\ \A g \in Creators' : ActiveSessions \subseteq {g.session}
    BY DEF StartsAlone, Creators
  <2>1. /\ ~startsCrossed /\ StartsAlone
        /\ h.creates => Creators = {}
    BY DEF SessionInv, Creators
  <2>2. Creators' = IF h.creates THEN Creators \cup {h} ELSE Creators
    BY DEF Creators
  <2> QED BY <2>1, <2>2 DEF StartsAlone, NewHandler
<1>8. AsksAlone'
  <2> SUFFICES ASSUME ~startsCrossed'
               PROVE  /\ \A f, g \in handlers' : Asks(f) /\ Asks(g) /\ f.session = g.session
                           /\ f.session \notin asksCrossed' => f = g
                      /\ \A g \in handlers' : \A r \in shownRows :
                           Asks(g) /\ r.session = g.session /\ g.session \notin asksCrossed'
                           /\ r.item \notin g.answered => r.position = Cardinality(ShownIn(r.session))
    BY DEF AsksAlone, Asks
  <2>1. ~startsCrossed /\ AsksAlone /\ asksCrossed \subseteq asksCrossed'
    BY DEF SessionInv
  <2>2. Asks(h) => h.session \in SessionIds /\ h.answered = AnsweredIn(h.session)
    BY DEF NewHandler, Asks, ReadBefore
  <2>3. \A g \in handlers : Asks(g) /\ Asks(h) /\ g.session = h.session => h.session \in asksCrossed'
    BY <2>2
  <2>4. \A r \in shownRows :
          r.item \notin AnsweredIn(r.session) => r.position = Cardinality(ShownIn(r.session))
    BY DEF SessionInv, Counts
  <2> QED BY <2>1, <2>2, <2>3, <2>4 DEF AsksAlone
<1>9. EndsAlone'
  <2>1. EndsAlone /\ endsCrossed \subseteq endsCrossed'
    BY DEF SessionInv
  <2>2. \A g \in handlers : Ends(g) /\ Ends(h) /\ g.session = h.session /\ h.session \in SessionIds
          => h.session \in endsCrossed'
    OBVIOUS
  <2>3. Ends(h) /\ h.session \in SessionIds => sessionStatus[h.session] = "active"
    BY SessionNumbers DEF NewHandler
  <2> QED BY <2>1, <2>2, <2>3 DEF EndsAlone, Ends
<1>10. LearnerCanGoOn'
  <2> SUFFICES ASSUME ~startsCrossed', NEW s \in ActiveSessions
               PROVE  /\ Unfinished(s)
                      /\ \E r \in shownRows :
                           /\ r.session = s /\ r.item = pending[s]
                           /\ s \notin asksCrossed' => r.position = Cardinality(ShownIn(s))
    BY DEF LearnerCanGoOn, Unfinished
  <2>1. LearnerCanGoOn /\ ~startsCrossed /\ asksCrossed \subseteq asksCrossed'
    BY DEF SessionInv
  <2> QED BY <2>1 DEF LearnerCanGoOn
<1> QED BY <1>2, <1>3, <1>4, <1>5, <1>6, <1>7, <1>8, <1>9, <1>10 DEF SessionInv

\* A handler is told from those under way by a number.
LEMMA NumberLeft ==
  ASSUME IsFiniteSet(handlers), Cardinality(handlers) < MaxHandlers
  PROVE  (CHOOSE n \in 0 .. MaxHandlers : \A h \in handlers : h.n # n) \in 0 .. MaxHandlers
<1> DEFINE used    == {h.n : h \in handlers}
           numbers == 0 .. MaxHandlers
           f       == [h \in handlers |-> h.n]
<1>1. f \in Surjection(handlers, used)
  BY DEF Surjection
<1>2. IsFiniteSet(used) /\ Cardinality(used) <= Cardinality(handlers)
  BY <1>1, FS_Surjection
<1>3. IsFiniteSet(numbers) /\ Cardinality(numbers) = MaxHandlers + 1
  <2>1. 0 \in Int /\ MaxHandlers \in Int /\ 0 <= MaxHandlers /\ MaxHandlers - 0 + 1 = MaxHandlers + 1
    BY SessionAssumption
  <2> QED BY <2>1, FS_Interval
<1>4. Cardinality(handlers) \in Nat /\ Cardinality(used) \in Nat
  BY <1>2, FS_CardinalityType
<1>5. \E n \in numbers : n \notin used
  <2> SUFFICES ASSUME numbers \subseteq used
               PROVE  FALSE
    OBVIOUS
  <2>1. Cardinality(numbers) <= Cardinality(used)
    BY <1>2, FS_Subset
  <2> QED BY <1>2, <1>3, <1>4, <2>1, SessionAssumption
<1>6. \E n \in numbers : \A h \in handlers : h.n # n
  BY <1>5
<1> QED BY <1>6

\* What Reads makes of its arguments.
ReadsRight(h, kind, s, creates) ==
  /\ h \in Handler /\ h.kind = kind /\ h.session = s /\ h.creates = creates
  /\ kind \in ShowKinds => h.used = daily.used
  /\ kind \in {"review", "next"} /\ creates = FALSE => h.answered = AnsweredIn(s)
  /\ creates = TRUE => h.answered = {}
  /\ kind # "answer" => h.phase = "read" /\ h.holds = FALSE

LEMMA ReadsFacts ==
  ASSUME SessionInv, Cardinality(handlers) < MaxHandlers,
         NEW kind \in ShowKinds \cup {"cancel", "answer"}, NEW s \in SessionIds \cup {0},
         NEW i \in Items \cup {NoItem}, NEW creates \in BOOLEAN,
         kind = "answer" => s \in SessionIds,
         NEW h, h = Reads(kind, s, i, creates)
  PROVE  ReadsRight(h, kind, s, creates)
<1> DEFINE n == CHOOSE n \in 0 .. MaxHandlers : \A g \in handlers : g.n # n
<1>1. n \in Nat
  BY NumberLeft, SessionAssumption DEF SessionInv, RoomLeft
<1>2. AnsweredIn(s) \subseteq Items /\ Referenced \subseteq Items
  BY RowSets DEF SessionInv, SessionTypeOK, Referenced, ShownRow
<1>3. daily.used \in Nat /\ daily.exists \in BOOLEAN
  BY SessionAssumption DEF SessionInv, SessionTypeOK, DailyRow
<1>4. kind = "answer" => counted[s] \in Nat
  BY DEF SessionInv, SessionTypeOK
<1>5. /\ h.kind = kind /\ h.n = n /\ h.session = s
      /\ h.item = (IF kind = "answer" THEN i ELSE NoItem) /\ h.creates = creates
      /\ h.answered = (IF kind \in {"review", "next"} /\ ~creates THEN AnsweredIn(s) ELSE {})
      /\ h.known = (IF kind \in ShowKinds THEN Referenced ELSE {})
      /\ h.counted = (IF kind = "answer" THEN counted[s] ELSE 0)
      /\ h.used = (IF kind \in ShowKinds THEN daily.used ELSE 0)
      /\ h.fresh = (kind \in ShowKinds /\ ~daily.exists)
      /\ h.phase = (IF kind = "answer" THEN "held" ELSE "read")
      /\ h.holds = (kind = "answer")
      /\ h = [kind |-> h.kind, n |-> h.n, session |-> h.session, item |-> h.item,
              creates |-> h.creates, answered |-> h.answered, known |-> h.known,
              counted |-> h.counted, used |-> h.used, fresh |-> h.fresh, phase |-> h.phase,
              holds |-> h.holds]
  BY DEF Reads
<1> HIDE DEF n
<1>6. /\ h.item \in Items \cup {NoItem} /\ h.answered \subseteq Items /\ h.known \subseteq Items
      /\ h.counted \in Nat /\ h.used \in Nat /\ h.phase \in {"read", "held", "written"}
  BY <1>2, <1>3, <1>4, <1>5
<1>7. h.creates \in BOOLEAN /\ h.fresh \in BOOLEAN /\ h.holds \in BOOLEAN
  BY <1>5
<1>8. h \in Handler
  BY <1>1, <1>5, <1>6, <1>7 DEF Handler
<1> QED BY <1>5, <1>8 DEF ReadsRight

\* No session is answered or shown under 0, and an active session is not absent.
LEMMA SessionFacts ==
  ASSUME SessionInv
  PROVE  /\ 0 \notin SessionIds /\ AnsweredIn(0) = {}
         /\ \A s \in ActiveSessions : s \in SessionIds /\ sessionStatus[s] = "active"
         /\ daily.used \in Nat
BY SessionNumbers, SessionAssumption
   DEF SessionInv, SessionTypeOK, DailyRow, AnsweredIn, AnswerRow, ActiveSessions

\* A handler that creates a session: in place of the active one, or where none is.
LEMMA CreateBegins ==
  ASSUME SessionInv, NEW kind \in {"open", "new", "review"}, NEW s,
         (ActiveSessions = {} /\ s = 0) \/ s \in ActiveSessions,
         kind = "review" => ReviewOffered, DailyAvailable, Room,
         Begin(Reads(kind, s, NoItem, TRUE))
  PROVE  SessionInv'
<1> DEFINE h == Reads(kind, s, NoItem, TRUE)
<1>1. h = Reads(kind, s, NoItem, TRUE) /\ Begin(h)
  OBVIOUS
<1> HIDE DEF h
<1>2. s \in SessionIds \cup {0}
  BY SessionFacts
<1>3. /\ Cardinality(handlers) < MaxHandlers /\ NoItem \in Items \cup {NoItem}
      /\ kind \in ShowKinds /\ kind \in ShowKinds \cup {"cancel", "answer"} /\ kind # "answer"
  BY <1>1 DEF Begin, ShowKinds
<1>4. ReadsRight(h, kind, s, TRUE)
  BY <1>1, <1>2, <1>3, TRUE \in BOOLEAN, ReadsFacts
<1>5. /\ h \in Handler /\ h.kind = kind /\ h.session = s /\ h.creates = TRUE
      /\ h.answered = {} /\ h.used = daily.used /\ h.phase = "read" /\ h.holds = FALSE
  BY <1>3, <1>4 DEF ReadsRight
<1>6. ReadBefore(h)
  BY <1>5, SessionFacts DEF ReadBefore, DailyAvailable, SessionInv, Charges
<1>7. NewHandler(h)
  BY <1>5, <1>6, SessionFacts DEF NewHandler, ShowKinds, Asks
<1> QED BY <1>1, <1>7, HandlerBegins

\* A handler that asks for the next question of an active session.
LEMMA AskBegins ==
  ASSUME SessionInv, NEW kind \in {"review", "next"}, NEW s \in ActiveSessions,
         NEW i \in Items \cup {NoItem},
         kind = "review" => ReviewOffered, DailyAvailable, Unfinished(s),
         Begin(Reads(kind, s, i, FALSE))
  PROVE  SessionInv'
<1> DEFINE h == Reads(kind, s, i, FALSE)
<1>1. h = Reads(kind, s, i, FALSE) /\ Begin(h)
  OBVIOUS
<1> HIDE DEF h
<1>2. s \in SessionIds /\ sessionStatus[s] = "active" /\ s # 0
  BY SessionFacts
<1>3. /\ Cardinality(handlers) < MaxHandlers /\ s \in SessionIds \cup {0}
      /\ kind \in ShowKinds /\ kind \in ShowKinds \cup {"cancel", "answer"} /\ kind # "answer"
  BY <1>1, <1>2 DEF Begin, ShowKinds
<1>4. ReadsRight(h, kind, s, FALSE)
  BY <1>1, <1>3, FALSE \in BOOLEAN, ReadsFacts
<1>5. /\ h \in Handler /\ h.kind = kind /\ h.session = s /\ h.creates = FALSE
      /\ h.answered = AnsweredIn(s) /\ h.used = daily.used /\ h.phase = "read" /\ h.holds = FALSE
  BY <1>3, <1>4 DEF ReadsRight
<1>6. ReadBefore(h)
  BY <1>2, <1>5, SessionFacts DEF ReadBefore, DailyAvailable, SessionInv, Charges, Unfinished
<1>7. NewHandler(h)
  BY <1>2, <1>5, <1>6 DEF NewHandler, ShowKinds, Asks
<1> QED BY <1>1, <1>7, HandlerBegins

LEMMA CancelBegins ==
  ASSUME SessionInv, NEW s \in SessionIds, BeginCancel(s)
  PROVE  SessionInv'
<1> DEFINE h == Reads("cancel", s, NoItem, FALSE)
<1>1. h = Reads("cancel", s, NoItem, FALSE) /\ Begin(h) /\ s \in ActiveSessions
  BY DEF BeginCancel
<1> HIDE DEF h
<1>2. /\ Cardinality(handlers) < MaxHandlers /\ NoItem \in Items \cup {NoItem}
      /\ s \in SessionIds \cup {0} /\ "cancel" \in ShowKinds \cup {"cancel", "answer"}
      /\ "cancel" # "answer" /\ "cancel" \notin ShowKinds
  BY <1>1 DEF Begin, ShowKinds
<1>3. ReadsRight(h, "cancel", s, FALSE)
  BY <1>1, <1>2, FALSE \in BOOLEAN, ReadsFacts
<1>4. /\ h \in Handler /\ h.kind = "cancel" /\ h.session = s /\ h.creates = FALSE
      /\ h.phase = "read" /\ h.holds = FALSE
  BY <1>3 DEF ReadsRight
<1>5. sessionStatus[s] = "active" /\ s # 0
  BY <1>1, SessionFacts
<1>6. NewHandler(h)
  BY <1>4, <1>5 DEF NewHandler, ShowKinds, Asks
<1> QED BY <1>1, <1>6, HandlerBegins

LEMMA TapBegins ==
  ASSUME SessionInv, NEW q \in Sent, Tap(q)
  PROVE  SessionInv'
<1> DEFINE h == Reads("answer", q.session, q.item, FALSE)
<1>1. /\ q = [session |-> q.session, item |-> q.item]
      /\ q.session \in SessionIds /\ q.item \in Items
  BY DEF Sent, SessionInv, SessionTypeOK, ShownRow
<1>2. h = Reads("answer", q.session, q.item, FALSE) /\ Begin(h)
  BY DEF Tap
<1> HIDE DEF h
<1>3. sessionStatus[q.session] = "active" /\ q.session # 0
  BY <1>1, SessionFacts DEF Tap, Answerable, ValidInSession
<1>4. /\ Cardinality(handlers) < MaxHandlers /\ q.item \in Items \cup {NoItem}
      /\ q.session \in SessionIds \cup {0} /\ "answer" \in ShowKinds \cup {"cancel", "answer"}
  BY <1>1, <1>2 DEF Begin
<1>5. ReadsRight(h, "answer", q.session, FALSE)
  BY <1>1, <1>2, <1>4, FALSE \in BOOLEAN, ReadsFacts
<1>6. /\ h \in Handler /\ h.kind = "answer" /\ h.session = q.session /\ h.creates = FALSE
  BY <1>5 DEF ReadsRight
<1>7. /\ h.item = q.item /\ h.counted = counted[q.session] /\ h.phase = "held" /\ h.holds = TRUE
  BY <1>2 DEF Reads
<1>8. TapOK(h)
  BY <1>1, <1>6, <1>7 DEF TapOK, QuestionOf
<1>9. NewHandler(h)
  BY <1>3, <1>6, <1>7, <1>8 DEF NewHandler, ShowKinds, Asks
<1> QED BY <1>2, <1>9, HandlerBegins

\* The pending question is sent again.
LEMMA ResendStep ==
  ASSUME SessionInv, NEW s \in SessionIds, ResendPending(s)
  PROVE  SessionInv'
<1>1. [session |-> s, item |-> pending[s]] \in Question
  BY DEF ResendPending, SessionInv, SessionTypeOK, Question
<1>2. /\ SameRows /\ UNCHANGED sessionHistory /\ handlers' \subseteq handlers
      /\ cached' \subseteq Question /\ aborts' \in 0 .. MaxAborts /\ expiries' \in 0 .. MaxExpiries
  BY <1>1 DEF ResendPending, AddToCache, SameRows, sessionBounds, SessionInv, SessionTypeOK
<1> QED BY <1>2, HandlersLeave

LEMMA BeginSteps ==
  ASSUME SessionInv,
         \/ ContinueTraining \/ StartReview \/ OpenMenu
         \/ \E s \in SessionIds : StartNew(s)
         \/ \E q \in answerRows : NextQuestion(q)
         \/ \E q \in Sent : Tap(q)
  PROVE  SessionInv'
<1>1. CASE OpenTheme
  BY <1>1, CreateBegins DEF OpenTheme
<1>2. ASSUME NEW s \in ActiveSessions, Resume(s)
      PROVE  SessionInv'
  <2>1. CASE ResendPending(s)
    BY <2>1, SessionFacts, ResendStep
  <2>2. CASE ~ResendPending(s)
    BY <1>2, <2>2, AskBegins DEF Resume
  <2> QED BY <2>1, <2>2
<1>3. CASE StartReview
  <2>1. CASE ActiveSessions = {} /\ Room /\ Begin(Reads("review", 0, NoItem, TRUE))
    BY <1>3, <2>1, CreateBegins DEF StartReview
  <2>2. ASSUME NEW s \in ActiveSessions, Unfinished(s), Begin(Reads("review", s, NoItem, FALSE))
        PROVE  SessionInv'
    BY <1>3, <2>2, AskBegins DEF StartReview
  <2> QED BY <1>3, <2>1, <2>2 DEF StartReview
<1>4. CASE OpenMenu
  BY <1>4, SessionFacts, CancelBegins DEF OpenMenu
<1>5. ASSUME NEW s \in SessionIds, StartNew(s)
      PROVE  SessionInv'
  BY <1>5, CreateBegins DEF StartNew
<1>6. ASSUME NEW q \in answerRows, NextQuestion(q)
      PROVE  SessionInv'
  <2>1. q.item \in Items
    BY DEF SessionInv, SessionTypeOK, AnswerRow
  <2> QED BY <1>6, <2>1, AskBegins DEF NextQuestion
<1> QED BY <1>1, <1>2, <1>3, <1>4, <1>5, <1>6, TapBegins DEF ContinueTraining

-----------------------------------------------------------------------------
(* Handlers that go on without a commit. *)

\* An answer writes its row, or its lock expires.
LEMMA AnswerGoesOn ==
  ASSUME SessionInv, NEW h \in handlers, h.kind = "answer", NEW d \in Handler,
         handlers' = (handlers \ {h}) \cup {d}, SameRows, UNCHANGED sessionHistory,
         cached' \subseteq Question, aborts' = aborts, expiries' \in 0 .. MaxExpiries,
         /\ d.kind = h.kind /\ d.session = h.session /\ d.item = h.item
         /\ d.creates = h.creates /\ d.counted = h.counted,
         \/ d.phase = h.phase
         \/ d.phase = "written" /\ NotLocked(h.session) /\ QuestionOf(h) \notin answerRows
  PROVE  SessionInv'
<1> USE SameRowsFacts
<1>1. /\ UNCHANGED <<showsCrossed, startsCrossed, endsCrossed, asksCrossed>>
      /\ HandlersOK /\ h.creates = FALSE /\ d.creates = FALSE /\ d.kind = "answer"
  BY DEF sessionHistory, SessionInv, HandlersOK, SessionTypeOK, Handler, ShowKinds
<1>2. SessionTypeOK'
  BY <1>1 DEF SessionInv, SessionTypeOK
<1>3. RoomLeft'
  <2>1. IsFiniteSet(handlers')
    BY FS_RemoveElement, FS_AddElement DEF SessionInv, RoomLeft
  <2>2. Creators' = Creators
    BY <1>1 DEF Creators
  <2> QED BY <2>1, <2>2 DEF SessionInv, RoomLeft
<1>4. Numbered' /\ Counts'
  BY DEF SessionInv, Numbered, Counts, PositionFree
<1>5. HandlersOK'
  <2>1. QuestionOf(d) = QuestionOf(h)
    BY DEF QuestionOf
  <2>2. TapOK(d)'
    BY <1>1, <2>1 DEF HandlersOK, TapOK, QuestionOf
  <2>3. d.session # 0 => sessionStatus[d.session] # "absent"
    BY <1>1 DEF HandlersOK
  <2>4. ASSUME NEW f \in handlers', NEW g \in handlers',
               f.phase = "written", g.phase = "written", f.session = g.session
        PROVE  f = g
    BY <1>1, <2>4 DEF HandlersOK, NotLocked
  <2>5. ASSUME NEW g \in handlers
        PROVE  /\ g.session # 0 => sessionStatus[g.session] # "absent"
               /\ g.kind \in ShowKinds => ReadBefore(g)'
               /\ g.kind = "cancel" => g.session \in SessionIds
               /\ g.kind = "answer" => TapOK(g)'
               /\ g.phase # "read" \/ g.holds => g.kind = "answer"
               /\ g.creates => g.kind \in ShowKinds
    BY <1>1 DEF HandlersOK, ReadBefore, TapOK, QuestionOf
  <2> HIDE DEF SameRows
  <2> QED BY <1>1, <2>2, <2>3, <2>4, <2>5 DEF HandlersOK, ShowKinds
<1>6. Charges'
  BY <1>1 DEF SessionInv, Charges, SameQueue, ShowKinds
<1>7. StartsAlone'
  BY <1>1 DEF SessionInv, StartsAlone, Creators
<1>8. AsksAlone'
  BY <1>1 DEF SessionInv, AsksAlone, Asks, ShowKinds
<1>9. EndsAlone'
  <2>1. Ends(d) = Ends(h)
    BY <1>1 DEF Ends
  <2> QED BY <1>1, <2>1 DEF SessionInv, EndsAlone, Ends
<1>10. LearnerCanGoOn'
  BY <1>1 DEF SessionInv, LearnerCanGoOn, Unfinished
<1> QED BY <1>2, <1>3, <1>4, <1>5, <1>6, <1>7, <1>8, <1>9, <1>10 DEF SessionInv

LEMMA GoOnSteps ==
  ASSUME SessionInv, NEW h \in handlers, Write(h) \/ LockExpires(h)
  PROVE  SessionInv'
<1>1. h \in Handler /\ HandlersOK /\ cached \subseteq Question
      /\ aborts \in 0 .. MaxAborts /\ expiries \in 0 .. MaxExpiries
  BY DEF SessionInv, SessionTypeOK
<1>2. CASE Write(h)
  <2> DEFINE d == [h EXCEPT !.phase = "written", !.holds = FALSE]
  <2>1. /\ d \in Handler /\ d.kind = h.kind /\ d.session = h.session /\ d.item = h.item
        /\ d.creates = h.creates /\ d.counted = h.counted /\ d.phase = "written"
    BY <1>1 DEF Handler
  <2>2. /\ handlers' = (handlers \ {h}) \cup {d} /\ SameRows /\ UNCHANGED sessionHistory
        /\ NotLocked(h.session) /\ QuestionOf(h) \notin answerRows
        /\ h.phase = "held" /\ cached' \subseteq Question /\ aborts' = aborts
        /\ expiries' \in 0 .. MaxExpiries
    BY <1>1, <1>2 DEF Write, Inserted, SameRows, sessionBounds
  <2>3. h.kind = "answer"
    BY <1>1, <2>2 DEF HandlersOK
  <2> HIDE DEF d
  <2> QED BY <2>1, <2>2, <2>3, AnswerGoesOn
<1>3. CASE LockExpires(h)
  <2> DEFINE d == [h EXCEPT !.holds = FALSE]
  <2>1. /\ d \in Handler /\ d.kind = h.kind /\ d.session = h.session /\ d.item = h.item
        /\ d.creates = h.creates /\ d.counted = h.counted /\ d.phase = h.phase
    BY <1>1 DEF Handler
  <2>2. /\ handlers' = (handlers \ {h}) \cup {d} /\ SameRows /\ UNCHANGED sessionHistory
        /\ h.holds /\ cached' \subseteq Question /\ aborts' = aborts
        /\ expiries' = expiries + 1 /\ expiries < MaxExpiries
    BY <1>1, <1>3 DEF LockExpires, SameRows
  <2>3. h.kind = "answer" /\ expiries' \in 0 .. MaxExpiries
    BY <1>1, <2>2, SessionAssumption DEF HandlersOK
  <2> HIDE DEF d
  <2> QED BY <2>1, <2>2, <2>3, AnswerGoesOn
<1> QED BY <1>2, <1>3

LEMMA LeaveSteps ==
  ASSUME SessionInv, NEW h \in handlers, Refused(h) \/ Duplicate(h) \/ Abort(h)
  PROVE  SessionInv'
<1>1. cached \subseteq Question /\ aborts \in 0 .. MaxAborts /\ expiries \in 0 .. MaxExpiries
  BY DEF SessionInv, SessionTypeOK
<1>2. /\ SameRows /\ UNCHANGED sessionHistory /\ handlers' = handlers \ {h} /\ cached' = cached
      /\ expiries' = expiries /\ (aborts' = aborts \/ (aborts' = aborts + 1 /\ aborts < MaxAborts))
  BY DEF Refused, Duplicate, Abort, SameRows, sessionBounds
<1>3. aborts' \in 0 .. MaxAborts
  BY <1>1, <1>2, SessionAssumption
<1> QED BY <1>1, <1>2, <1>3, HandlersLeave

-----------------------------------------------------------------------------
(* A question is shown. *)

\* What every step that shows question i in session t does to the rows: a row
\* that was there stays, or every question of the session was answered and the
\* next is added.
Shown(h, t, i) ==
  /\ t \in SessionIds /\ i \in Items
  /\ \A s : AnsweredIn(s)' = AnsweredIn(s)
  /\ \A s \in SessionIds \ {t} : ShownIn(s)' = ShownIn(s)
  /\ \/ /\ i \in ShownIn(t) \ SeenIn(h, t)
        /\ shownRows' = shownRows /\ daily' = daily /\ ShownIn(t)' = ShownIn(t)
     \/ /\ i \notin ShownIn(t)
        /\ ShownIn(t) = AnsweredIn(t) /\ ShownIn(t) = SeenIn(h, t)
        /\ ShownIn(t)' = ShownIn(t) \cup {i}
        /\ Cardinality(ShownIn(t)') = Cardinality(ShownIn(t)) + 1
        /\ shownRows' = shownRows \cup
             {[session |-> t, position |-> Cardinality(ShownIn(t)) + 1, item |-> i]}
        /\ Cardinality(shownRows') = Cardinality(shownRows) + 1
        /\ daily' = [exists |-> TRUE, used |-> h.used + 1]

\* The session a handler works on.
LEMMA CurrentFacts ==
  ASSUME SessionInv, NEW h \in handlers, h.kind \in ShowKinds, NEW t \in Current(h)
  PROVE  /\ t \in SessionIds
         /\ ~h.creates => t = h.session /\ Cardinality(h.answered) < planned[t]
         /\ h.creates => /\ NewSession \in SessionIds /\ sessionStatus[NewSession] = "absent"
                         /\ t = NewSession \/ (t # h.session /\ sessionStatus[t] = "active")
                         /\ ~startsCrossed => t = NewSession
         /\ SeenIn(h, t) \subseteq AnsweredIn(t)
<1>1. ReadBefore(h)
  BY DEF SessionInv, HandlersOK
<1>2. SeenIn(h, t) \subseteq AnsweredIn(t)
  BY <1>1 DEF SeenIn, ReadBefore
<1>3. CASE h.creates
  <2>1. NewSession \in SessionIds /\ sessionStatus[NewSession] = "absent"
    BY <1>3, NewSessionFacts
  <2>2. t \in (ActiveSessions \ {h.session}) \cup {NewSession}
    BY <1>3 DEF Current
  <2>3. ~startsCrossed => ActiveSessions \subseteq {h.session}
    BY <1>3 DEF SessionInv, StartsAlone, Creators
  <2> QED BY <1>2, <1>3, <2>1, <2>2, <2>3 DEF ActiveSessions
<1>4. CASE ~h.creates
  BY <1>1, <1>2, <1>4 DEF Current, ReadBefore
<1> QED BY <1>3, <1>4

LEMMA ShowRowFacts ==
  ASSUME SessionInv, NEW h \in handlers, h.kind \in ShowKinds, NEW t \in Current(h),
         NEW i \in Items \ SeenIn(h, t), ShowRow(h, t, i), answerRows' = answerRows
  PROVE  Shown(h, t, i)
<1> DEFINE p == Cardinality(ShownIn(t)) + 1
           n == Cardinality(SeenIn(h, t)) + 1
<1>1. /\ t \in SessionIds /\ SeenIn(h, t) \subseteq AnsweredIn(t)
      /\ AnsweredIn(t) \subseteq ShownIn(t) /\ ShownIn(t) \subseteq Items
      /\ Cardinality(ShownIn(t)) \in Nat
  BY CurrentFacts, RowSets DEF SessionInv, SessionTypeOK, Counts
<1>2. \A s : AnsweredIn(s)' = AnsweredIn(s)
  BY DEF AnsweredIn
<1>3. AlreadyShown(t, i) <=> i \in ShownIn(t)
  BY DEF AlreadyShown, ShownIn
<1>4. CASE AlreadyShown(t, i)
  <2>1. shownRows' = shownRows /\ daily' = daily
    BY <1>4 DEF ShowRow
  <2>2. \A s : ShownIn(s)' = ShownIn(s)
    BY <2>1 DEF ShownIn
  <2> QED BY <1>1, <1>2, <1>3, <1>4, <2>1, <2>2 DEF Shown
<1>5. CASE ~AlreadyShown(t, i)
  <2>1. /\ PositionFree(t, n)
        /\ shownRows' = shownRows \cup {[session |-> t, position |-> n, item |-> i]}
        /\ daily' = [exists |-> TRUE, used |-> h.used + 1]
    BY <1>5 DEF ShowRow
  <2>2. /\ Cardinality(SeenIn(h, t)) \in Nat
        /\ Cardinality(SeenIn(h, t)) <= Cardinality(ShownIn(t))
        /\ Cardinality(SeenIn(h, t)) = Cardinality(ShownIn(t)) => SeenIn(h, t) = ShownIn(t)
    BY <1>1, ItemSets, SmallerSet
  <2>3. n \notin 1 .. Cardinality(ShownIn(t))
    BY <1>1, <2>1 DEF SessionInv, Numbered
  <2>4. SeenIn(h, t) = ShownIn(t) /\ n = p
    BY <1>1, <2>2, <2>3
  <2> DEFINE row == [session |-> t, position |-> p, item |-> i]
  <2>5. shownRows' = shownRows \cup {row} /\ row.session = t /\ row.item = i
    BY <2>1, <2>4
  <2>6. ShownIn(t)' = ShownIn(t) \cup {i} /\ \A s \in SessionIds \ {t} : ShownIn(s)' = ShownIn(s)
    <3> HIDE DEF row
    <3> QED BY <2>5 DEF ShownIn
  <2>7. Cardinality(ShownIn(t) \cup {i}) = Cardinality(ShownIn(t)) + 1
    BY <1>1, <1>3, <1>5, OneMore
  <2>8. Cardinality(shownRows') = Cardinality(shownRows) + 1
    <3>1. row \notin shownRows
      BY <1>5, <2>5 DEF AlreadyShown
    <3> HIDE DEF row
    <3> QED BY <2>5, <3>1, FS_AddElement DEF SessionInv, RoomLeft
  <2> QED BY <1>1, <1>2, <1>3, <1>5, <2>1, <2>4, <2>5, <2>6, <2>7, <2>8 DEF Shown
<1> QED BY <1>4, <1>5

\* The number of a question and the charge.
LEMMA ShownNumbered ==
  ASSUME SessionInv, NEW h \in handlers, h.kind \in ShowKinds, NEW t, NEW i, Shown(h, t, i)
  PROVE  /\ Numbered'
         /\ \A r \in shownRows' :
              r.item \notin AnsweredIn(r.session)' => r.position = Cardinality(ShownIn(r.session)')
         /\ shownRows' \subseteq ShownRow /\ daily' \in DailyRow /\ IsFiniteSet(shownRows')
         /\ Cardinality(shownRows) \in Nat /\ Cardinality(shownRows') \in Nat
         /\ Cardinality(shownRows) <= Cardinality(shownRows')
<1>1. /\ shownRows \subseteq ShownRow /\ daily \in DailyRow /\ Numbered /\ Counts
      /\ IsFiniteSet(shownRows) /\ Cardinality(shownRows) \in Nat
      /\ ShownIn(t) \subseteq Items /\ Cardinality(ShownIn(t)) \in Nat
      /\ h.used \in Nat /\ h.used < DailyLimit
      /\ \A r \in shownRows : r.session \in SessionIds /\ r.item \in ShownIn(r.session)
  BY RowSets, FS_CardinalityType
     DEF SessionInv, SessionTypeOK, RoomLeft, HandlersOK, ReadBefore, Handler, ShownIn, ShownRow
<1>2. CASE /\ i \in ShownIn(t) \ SeenIn(h, t)
           /\ shownRows' = shownRows /\ daily' = daily /\ ShownIn(t)' = ShownIn(t)
  <2>1. \A s \in SessionIds : ShownIn(s)' = ShownIn(s) /\ AnsweredIn(s)' = AnsweredIn(s)
    BY <1>2 DEF Shown
  <2>2. Numbered'
    BY <1>1, <1>2, <2>1 DEF Numbered, PositionFree
  <2> QED BY <1>1, <1>2, <2>1, <2>2 DEF Counts
<1>3. CASE ~ (/\ i \in ShownIn(t) \ SeenIn(h, t)
              /\ shownRows' = shownRows /\ daily' = daily /\ ShownIn(t)' = ShownIn(t))
  <2> DEFINE p   == Cardinality(ShownIn(t)) + 1
             row == [session |-> t, position |-> p, item |-> i]
  <2>1. /\ t \in SessionIds /\ i \in Items /\ i \notin ShownIn(t)
        /\ ShownIn(t) = AnsweredIn(t) /\ Cardinality(ShownIn(t)') = p
        /\ shownRows' = shownRows \cup {row} /\ daily' = [exists |-> TRUE, used |-> h.used + 1]
        /\ Cardinality(shownRows') = Cardinality(shownRows) + 1
        /\ \A s \in SessionIds \ {t} : ShownIn(s)' = ShownIn(s)
        /\ \A s : AnsweredIn(s)' = AnsweredIn(s)
    BY <1>3 DEF Shown
  <2>2. row.session = t /\ row.position = p /\ row.item = i /\ row \in ShownRow
    BY <1>1, <2>1 DEF ShownRow
  <2> HIDE DEF row
  <2>3. \A r \in shownRows : r.session = t => r.position <= Cardinality(ShownIn(t)) /\ r.position \in Nat
    BY <1>1 DEF Numbered, ShownRow
  <2>4. \A r \in shownRows : r.session = t => r.position # p /\ r.item # i
    BY <1>1, <2>1, <2>3
  <2>5. Numbered'
    <3>1. \A q, r \in shownRows' :
            q.session = r.session /\ (q.position = r.position \/ q.item = r.item) => q = r
      BY <1>1, <2>1, <2>2, <2>4 DEF Numbered
    <3>2. \A r \in shownRows' : r.position <= Cardinality(ShownIn(r.session)')
      <4> SUFFICES ASSUME NEW r \in shownRows'
                   PROVE  r.position <= Cardinality(ShownIn(r.session)')
        OBVIOUS
      <4>1. CASE r = row
        BY <1>1, <2>1, <2>2, <4>1
      <4>2. CASE r \in shownRows /\ r.session = t
        BY <1>1, <2>1, <2>3, <4>2
      <4>3. CASE r \in shownRows /\ r.session # t
        BY <1>1, <2>1, <4>3 DEF Numbered
      <4> QED BY <2>1, <4>1, <4>2, <4>3
    <3>3. \A s \in SessionIds : \A n \in 1 .. Cardinality(ShownIn(s)') : ~PositionFree(s, n)'
      <4> SUFFICES ASSUME NEW s \in SessionIds, NEW n \in 1 .. Cardinality(ShownIn(s)')
                   PROVE  \E r \in shownRows' : r.session = s /\ r.position = n
        BY DEF PositionFree
      <4>1. CASE s = t /\ n = p
        BY <2>1, <2>2, <4>1
      <4>2. CASE s = t /\ n # p
        <5>1. n \in 1 .. Cardinality(ShownIn(s))
          BY <1>1, <2>1, <4>2
        <5> QED BY <1>1, <2>1, <5>1 DEF Numbered, PositionFree
      <4>3. CASE s # t
        BY <1>1, <2>1, <4>3 DEF Numbered, PositionFree
      <4> QED BY <4>1, <4>2, <4>3
    <3> QED BY <3>1, <3>2, <3>3 DEF Numbered
  <2>6. ASSUME NEW r \in shownRows', r.item \notin AnsweredIn(r.session)'
        PROVE  r.position = Cardinality(ShownIn(r.session)')
    <3>1. CASE r = row
      BY <2>1, <2>2, <3>1
    <3>2. CASE r \in shownRows /\ r.session = t
      BY <1>1, <2>1, <2>6, <3>2
    <3>3. CASE r \in shownRows /\ r.session # t
      BY <1>1, <2>1, <2>6, <3>3 DEF Counts
    <3> QED BY <2>1, <3>1, <3>2, <3>3
  <2>7. daily' \in DailyRow
    BY <1>1, <2>1, SessionAssumption DEF DailyRow
  <2> QED BY <1>1, <2>1, <2>2, <2>5, <2>6, <2>7, FS_AddElement
<1> QED BY <1>2, <1>3

\* The rows of the sessions.
LEMMA ShownStatuses ==
  ASSUME SessionInv, NEW h \in handlers, h.kind \in ShowKinds, NEW t \in Current(h), NEW i,
         Shown(h, t, i), sessionStatus' = Statuses(h), counted' = counted,
         IF h.creates THEN SessionCreated(h.kind) ELSE UNCHANGED <<flow, planned>>
  PROVE  /\ flow' \in [SessionIds -> {"regular", "review"}] /\ planned' \in [SessionIds -> Nat]
         /\ sessionStatus' \in [SessionIds -> SessionStatuses]
         /\ \A s \in SessionIds : sessionStatus[s] # "absent" =>
              sessionStatus'[s] # "absent" /\ planned'[s] = planned[s]
         /\ Unused' = IF h.creates THEN Unused \ {NewSession} ELSE Unused
         /\ ActiveSessions' = IF h.creates THEN (ActiveSessions \ {h.session}) \cup {NewSession}
                                           ELSE ActiveSessions
         /\ \A s \in SessionIds : sessionStatus'[s] # sessionStatus[s] =>
              h.creates /\ (s = h.session \/ sessionStatus[s] = "absent")
         /\ \A s \in SessionIds :
              /\ AnsweredIn(s)' \subseteq ShownIn(s)'
              /\ Cardinality(ShownIn(s)') <= planned'[s]
              /\ counted'[s] = Cardinality(AnsweredIn(s)')
              /\ sessionStatus'[s] = "absent" => ShownIn(s)' = {}
              /\ sessionStatus'[s] = "active" => counted'[s] < planned'[s]
              /\ sessionStatus'[s] = "completed" => counted'[s] = planned'[s]
<1>1. /\ sessionStatus \in [SessionIds -> SessionStatuses] /\ planned \in [SessionIds -> Nat]
      /\ flow \in [SessionIds -> {"regular", "review"}] /\ counted \in [SessionIds -> Nat]
      /\ HandlersOK /\ Counts /\ ReadBefore(h)
      /\ \A s : Cardinality(ShownIn(s)) \in Nat
  BY RowSets DEF SessionInv, SessionTypeOK, HandlersOK
<1>2. \A s \in SessionIds : sessionStatus'[s] =
        IF h.creates /\ s = h.session THEN "cancelled"
        ELSE IF h.creates /\ s = NewSession THEN "active" ELSE sessionStatus[s]
  BY DEF Statuses
<1>3. /\ ~h.creates => t = h.session /\ Cardinality(h.answered) < planned[t]
      /\ h.creates => /\ NewSession \in SessionIds /\ sessionStatus[NewSession] = "absent"
                      /\ t = NewSession \/ (t # h.session /\ sessionStatus[t] = "active")
  BY CurrentFacts
<1>4. h.session # 0 => sessionStatus[h.session] # "absent"
  BY <1>1 DEF HandlersOK
<1>5. sessionStatus' \in [SessionIds -> SessionStatuses]
  BY <1>1 DEF Statuses, SessionStatuses
<1>6. /\ planned' \in [SessionIds -> Nat] /\ flow' \in [SessionIds -> {"regular", "review"}]
      /\ \A s \in SessionIds : planned'[s] =
           IF h.creates /\ s = NewSession THEN QuestionLimit(h.kind) ELSE planned[s]
      /\ h.creates => QuestionLimit(h.kind) \in Nat /\ QuestionLimit(h.kind) >= 1
  <2>1. Cardinality(Mistakes) \in Nat /\ (Mistakes # {} => Cardinality(Mistakes) # 0)
    BY ItemSets, FS_EmptySet, SessionAssumption
  <2>2. QuestionLimit(h.kind) \in Nat /\ QuestionLimit(h.kind) >= 1
    BY <1>1, <2>1, SessionAssumption DEF QuestionLimit, ReadBefore, ReviewOffered
  <2>3. CASE h.creates
    BY <1>1, <2>2, <2>3 DEF SessionCreated
  <2>4. CASE ~h.creates
    BY <1>1, <2>4
  <2> QED BY <2>2, <2>3, <2>4
<1>7. h.creates => NewSession # h.session
  BY <1>3, <1>4, SessionNumbers
<1>8. Unused' = IF h.creates THEN Unused \ {NewSession} ELSE Unused
  <2>1. CASE h.creates
    <3>1. \A s \in SessionIds :
            sessionStatus'[s] = "absent" <=> sessionStatus[s] = "absent" /\ s # NewSession
      BY <1>2, <1>4, <2>1, SessionNumbers
    <3> QED BY <2>1, <3>1 DEF Unused
  <2>2. CASE ~h.creates
    BY <1>2, <2>2 DEF Unused
  <2> QED BY <2>1, <2>2
<1>9. ActiveSessions' = IF h.creates THEN (ActiveSessions \ {h.session}) \cup {NewSession}
                                      ELSE ActiveSessions
  <2>1. CASE h.creates
    BY <1>2, <1>3, <1>7, <2>1 DEF ActiveSessions
  <2>2. CASE ~h.creates
    BY <1>2, <2>2 DEF ActiveSessions
  <2> QED BY <2>1, <2>2
<1>10. \A s \in SessionIds : sessionStatus[s] # "absent" =>
         sessionStatus'[s] # "absent" /\ planned'[s] = planned[s]
  BY <1>2, <1>3, <1>6
<1>11. ASSUME NEW s \in SessionIds
       PROVE  /\ AnsweredIn(s)' \subseteq ShownIn(s)'
              /\ Cardinality(ShownIn(s)') <= planned'[s]
              /\ counted'[s] = Cardinality(AnsweredIn(s)')
              /\ sessionStatus'[s] = "absent" => ShownIn(s)' = {}
              /\ sessionStatus'[s] = "active" => counted'[s] < planned'[s]
              /\ sessionStatus'[s] = "completed" => counted'[s] = planned'[s]
  <2>1. /\ AnsweredIn(s) \subseteq ShownIn(s) /\ Cardinality(ShownIn(s)) <= planned[s]
        /\ counted[s] = Cardinality(AnsweredIn(s)) /\ AnsweredIn(s)' = AnsweredIn(s)
        /\ sessionStatus[s] = "absent" => ShownIn(s) = {}
        /\ sessionStatus[s] = "active" => counted[s] < planned[s]
        /\ sessionStatus[s] = "completed" => counted[s] = planned[s]
    BY <1>1 DEF Counts, Shown
  <2>2. ShownIn(s) = {} => Cardinality(ShownIn(s)) = 0 /\ counted[s] = 0
    BY <2>1, FS_EmptySet
  <2>3. CASE ShownIn(s)' = ShownIn(s)
    <3>1. CASE h.creates /\ s = NewSession
      BY <1>2, <1>3, <1>6, <1>7, <2>1, <2>2, <2>3, <3>1
    <3>2. CASE ~(h.creates /\ s = NewSession)
      BY <1>2, <1>3, <1>6, <2>1, <2>3, <3>2
    <3> QED BY <3>1, <3>2
  <2>4. CASE ShownIn(s)' # ShownIn(s)
    <3>1. /\ s = t /\ ShownIn(t) = AnsweredIn(t) /\ ShownIn(t) = SeenIn(h, t)
          /\ ShownIn(t)' = ShownIn(t) \cup {i}
          /\ Cardinality(ShownIn(t)') = Cardinality(ShownIn(t)) + 1
      BY <2>4 DEF Shown
    <3>2. CASE h.creates /\ s = NewSession
      BY <1>2, <1>3, <1>6, <1>7, <2>1, <2>2, <3>1, <3>2
    <3>3. CASE h.creates /\ s # NewSession
      BY <1>1, <1>2, <1>3, <1>6, <2>1, <3>1, <3>3
    <3>4. CASE ~h.creates
      <4>1. Cardinality(ShownIn(t)) < planned[t] /\ sessionStatus[t] # "absent"
        BY <1>1, <1>3, <1>4, <3>1, <3>4, SessionNumbers DEF SeenIn, Shown
      <4> QED BY <1>1, <1>2, <1>6, <2>1, <3>1, <3>4, <4>1
    <3> QED BY <3>2, <3>3, <3>4
  <2> QED BY <2>3, <2>4
<1>12. \A s \in SessionIds : sessionStatus'[s] # sessionStatus[s] =>
         h.creates /\ (s = h.session \/ sessionStatus[s] = "absent")
  BY <1>2, <1>3
<1> QED BY <1>5, <1>6, <1>8, <1>9, <1>10, <1>11, <1>12

LEMMA ShowStep ==
  ASSUME SessionInv, NEW h \in handlers, Show(h)
  PROVE  SessionInv'
<1>1. /\ h.kind \in ShowKinds /\ sessionStatus' = Statuses(h) /\ handlers' = handlers \ {h}
      /\ IF h.creates THEN SessionCreated(h.kind) ELSE UNCHANGED <<flow, planned>>
      /\ counted' = counted /\ answerRows' = answerRows
      /\ UNCHANGED <<showsCrossed, startsCrossed, endsCrossed, asksCrossed, aborts, expiries>>
  BY DEF Show, sessionHistory, sessionBounds
<1>1a. PICK t \in Current(h) : \E i \in Items \ SeenIn(h, t) :
         /\ ShowRow(h, t, i) /\ pending' = [pending EXCEPT ![t] = i]
         /\ cached' = cached \cup {[session |-> t, item |-> i]}
  BY DEF Show, SetPending, AddToCache
<1>2. PICK i \in Items \ SeenIn(h, t) :
        /\ ShowRow(h, t, i) /\ pending' = [pending EXCEPT ![t] = i]
        /\ cached' = cached \cup {[session |-> t, item |-> i]}
  BY <1>1a
<1>3. Shown(h, t, i)
  BY <1>1, <1>2, ShowRowFacts
<1>4. /\ t \in SessionIds /\ i \in Items
      /\ \A s : AnsweredIn(s)' = AnsweredIn(s)
      /\ \A s \in SessionIds \ {t} : ShownIn(s)' = ShownIn(s)
      /\ ShownIn(t) \subseteq ShownIn(t)' /\ i \in ShownIn(t)'
      /\ shownRows \subseteq shownRows'
  BY <1>3 DEF Shown
<1> DEFINE row == [session |-> t, position |-> Cardinality(ShownIn(t)) + 1, item |-> i]
<1>5. /\ Numbered'
      /\ \A r \in shownRows' :
           r.item \notin AnsweredIn(r.session)' => r.position = Cardinality(ShownIn(r.session)')
      /\ shownRows' \subseteq ShownRow /\ daily' \in DailyRow /\ IsFiniteSet(shownRows')
      /\ Cardinality(shownRows) \in Nat /\ Cardinality(shownRows') \in Nat
      /\ Cardinality(shownRows) <= Cardinality(shownRows')
  BY <1>1, <1>3, ShownNumbered
<1>6. /\ flow' \in [SessionIds -> {"regular", "review"}] /\ planned' \in [SessionIds -> Nat]
      /\ sessionStatus' \in [SessionIds -> SessionStatuses]
      /\ \A s \in SessionIds : sessionStatus[s] # "absent" =>
           sessionStatus'[s] # "absent" /\ planned'[s] = planned[s]
      /\ Unused' = IF h.creates THEN Unused \ {NewSession} ELSE Unused
      /\ ActiveSessions' = IF h.creates THEN (ActiveSessions \ {h.session}) \cup {NewSession}
                                        ELSE ActiveSessions
      /\ \A s \in SessionIds : sessionStatus'[s] # sessionStatus[s] =>
           h.creates /\ (s = h.session \/ sessionStatus[s] = "absent")
      /\ Counts'
  BY <1>1, <1>3, <1>5, ShownStatuses DEF Counts
<1>7. /\ ~h.creates => t = h.session
      /\ h.creates => /\ NewSession \in SessionIds /\ sessionStatus[NewSession] = "absent"
                      /\ ~startsCrossed => t = NewSession
      /\ SeenIn(h, t) \subseteq AnsweredIn(t)
  BY <1>1, CurrentFacts
<1>8. /\ SessionTypeOK /\ HandlersOK /\ Charges /\ StartsAlone /\ AsksAlone /\ EndsAlone
      /\ LearnerCanGoOn /\ Counts /\ RoomLeft /\ Numbered /\ ReadBefore(h)
      /\ \A s : Cardinality(ShownIn(s)) \in Nat /\ ShownIn(s) \subseteq Items
      /\ 0 \notin SessionIds
  BY <1>1, RowSets, SessionNumbers DEF SessionInv, SessionTypeOK, HandlersOK
<1>9. SessionTypeOK'
  <2>1. pending' \in [SessionIds -> Items \cup {NoItem}] /\ cached' \subseteq Question
    BY <1>2, <1>4, <1>8 DEF SessionTypeOK, Question
  <2> QED BY <1>1, <1>5, <1>6, <1>8, <2>1 DEF SessionTypeOK
<1>10. RoomLeft'
  <2>1. IsFiniteSet(handlers) /\ IsFiniteSet(handlers') /\ IsFiniteSet(Creators)
        /\ Creators' = Creators \ {h} /\ IsFiniteSet(Unused)
    BY <1>1, <1>8, FS_RemoveElement, FS_Subset, SessionNumbers DEF RoomLeft, Creators, Unused
  <2>2. Cardinality(Creators) \in Nat /\ Cardinality(Unused) \in Nat
    BY <2>1, FS_CardinalityType
  <2>3. CASE h.creates
    <3>1. h \in Creators /\ NewSession \in Unused
      BY <1>7, <2>3 DEF Creators, Unused
    <3>2. /\ Cardinality(Creators \ {h}) = Cardinality(Creators) - 1
          /\ Cardinality(Unused \ {NewSession}) = Cardinality(Unused) - 1
      BY <2>1, <3>1, FS_RemoveElement
    <3>3. Unused' = Unused \ {NewSession}
      BY <1>6, <2>3
    <3> QED BY <1>5, <1>8, <2>1, <2>2, <3>2, <3>3 DEF RoomLeft
  <2>4. CASE ~h.creates
    <3>1. Creators' = Creators /\ Unused' = Unused
      BY <1>6, <2>1, <2>4 DEF Creators
    <3> QED BY <1>5, <1>8, <2>1, <3>1 DEF RoomLeft
  <2> QED BY <2>3, <2>4
<1>11. HandlersOK'
  <2>1. ASSUME NEW g \in handlers'
        PROVE  /\ g.session # 0 => sessionStatus'[g.session] # "absent"
               /\ g.kind \in ShowKinds => ReadBefore(g)'
               /\ g.kind = "answer" => TapOK(g)'
    <3>1. g \in handlers /\ g \in Handler
      BY <1>1, <1>8 DEF SessionTypeOK
    <3>2. g.session # 0 => g.session \in SessionIds /\ sessionStatus[g.session] # "absent"
      BY <1>8, <3>1 DEF HandlersOK, Handler
    <3>3. g.session # 0 => sessionStatus'[g.session] # "absent"
      BY <1>6, <3>2
    <3>4. g.kind \in ShowKinds => ReadBefore(g)'
      <4>1. g.used \in Nat
        BY <3>1 DEF Handler
      <4> QED BY <1>4, <1>5, <1>6, <1>8, <3>1, <3>2, <4>1 DEF HandlersOK, ReadBefore
    <3>5. g.kind = "answer" => TapOK(g)'
      BY <1>1, <1>4, <1>8, <3>1 DEF HandlersOK, TapOK, QuestionOf, Sent
    <3> QED BY <3>3, <3>4, <3>5
  <2> QED BY <1>1, <1>8, <2>1 DEF HandlersOK
<1>12. Charges'
  <2>1. h.used \in Nat /\ h.used <= Cardinality(shownRows) /\ daily.used \in Nat
    BY <1>8, SessionAssumption DEF SessionTypeOK, Handler, ReadBefore, DailyRow
  <2>2. CASE shownRows' = shownRows /\ daily' = daily /\ ShownIn(t)' = ShownIn(t)
    <3>1. \A s \in SessionIds : ShownIn(s)' = ShownIn(s)
      BY <1>4, <2>2
    <3>2. \A g \in handlers : g.kind \in ShowKinds /\ ~g.creates => g.session \in SessionIds
      BY <1>8 DEF HandlersOK, ReadBefore
    <3> QED BY <1>1, <1>8, <2>2, <3>1, <3>2 DEF Charges, SameQueue
  <2>3. CASE ~ (shownRows' = shownRows /\ daily' = daily /\ ShownIn(t)' = ShownIn(t))
    <3>1. /\ ShownIn(t) = AnsweredIn(t) /\ ShownIn(t) = SeenIn(h, t)
          /\ Cardinality(ShownIn(t)') = Cardinality(ShownIn(t)) + 1
          /\ Cardinality(shownRows') = Cardinality(shownRows) + 1
          /\ daily' = [exists |-> TRUE, used |-> h.used + 1]
      BY <1>3, <2>3 DEF Shown
    <3>2. daily'.used = h.used + 1 /\ daily'.used <= Cardinality(shownRows')
      BY <1>5, <2>1, <3>1
    <3>3. ASSUME ~showsCrossed
          PROVE  /\ daily'.used = Cardinality(shownRows')
                 /\ \A g \in handlers' : g.kind \in ShowKinds =>
                      ~g.creates /\ Cardinality(g.answered) < Cardinality(ShownIn(g.session)')
      <4>1. h.used = daily.used /\ daily.used = Cardinality(shownRows)
        BY <1>1, <1>7, <1>8, <3>1, <3>3 DEF Charges, SeenIn
      <4>2. ASSUME NEW g \in handlers', g.kind \in ShowKinds
            PROVE  ~g.creates /\ Cardinality(g.answered) < Cardinality(ShownIn(g.session)')
        <5>1. ~g.creates /\ ~h.creates /\ g.session = h.session /\ h.session = t
          BY <1>1, <1>7, <1>8, <3>3, <4>2 DEF Charges, SameQueue
        <5>2. g.answered \subseteq ShownIn(t)
          BY <1>1, <1>8, <3>1, <4>2, <5>1 DEF HandlersOK, ReadBefore
        <5>3. Cardinality(g.answered) <= Cardinality(ShownIn(t)) /\ Cardinality(g.answered) \in Nat
          BY <1>8, <5>2, SmallerSet, ItemSets
        <5> QED BY <1>8, <3>1, <5>1, <5>3
      <4> QED BY <3>1, <3>2, <4>1, <4>2
    <3>4. ~showsCrossed => \A f, g \in handlers' :
            f.kind \in ShowKinds /\ g.kind \in ShowKinds => f = g \/ SameQueue(f, g)
      BY <1>1, <1>8 DEF Charges
    <3> QED BY <1>1, <3>2, <3>3, <3>4 DEF Charges, SameQueue
  <2> QED BY <2>2, <2>3
<1>13. StartsAlone'
  <2>1. CASE h.creates
    <3>1. ~startsCrossed => Creators' = {} /\ ActiveSessions' = {NewSession}
      BY <1>1, <1>6, <1>8, <2>1 DEF StartsAlone, Creators
    <3> QED BY <1>1, <3>1 DEF StartsAlone
  <2>2. CASE ~h.creates
    <3>1. ActiveSessions' = ActiveSessions /\ Creators' \subseteq Creators
      BY <1>1, <1>6, <2>2 DEF Creators
    <3> QED BY <1>1, <1>8, <3>1 DEF StartsAlone
  <2> QED BY <2>1, <2>2
<1>14. AsksAlone'
  <2> SUFFICES ASSUME ~startsCrossed
               PROVE  /\ \A f, g \in handlers' : Asks(f) /\ Asks(g) /\ f.session = g.session
                           /\ f.session \notin asksCrossed => f = g
                      /\ \A g \in handlers' : \A r \in shownRows' :
                           Asks(g) /\ r.session = g.session /\ g.session \notin asksCrossed
                           /\ r.item \notin g.answered => r.position = Cardinality(ShownIn(r.session)')
    BY <1>1 DEF AsksAlone, Asks
  <2>1. ASSUME NEW g \in handlers', NEW r \in shownRows', Asks(g), r.session = g.session,
               g.session \notin asksCrossed, r.item \notin g.answered
        PROVE  r.position = Cardinality(ShownIn(r.session)')
    <3>1. g \in handlers /\ g # h /\ g.session \in SessionIds
      BY <1>1, <1>8, <2>1 DEF Asks, HandlersOK, ReadBefore
    <3>2. CASE g.session = t
      <4>1. ~h.creates
        BY <1>7, <1>8, <3>1, <3>2 DEF HandlersOK
      <4>2. Asks(h) /\ h.session = t
        BY <1>1, <1>7, <4>1 DEF Asks
      <4> QED BY <1>8, <2>1, <3>1, <3>2, <4>2 DEF AsksAlone
    <3>3. CASE g.session # t
      <4>1. r \in shownRows
        BY <1>3, <2>1, <3>3 DEF Shown
      <4> QED BY <1>4, <1>8, <2>1, <3>1, <3>3, <4>1 DEF AsksAlone
    <3> QED BY <3>2, <3>3
  <2> QED BY <1>1, <1>8, <2>1 DEF AsksAlone
<1>15. EndsAlone'
  <2>1. ASSUME NEW g \in handlers', Ends(g), g.session \in SessionIds \ endsCrossed
        PROVE  sessionStatus'[g.session] = "active"
    <3>1. g \in handlers /\ g # h /\ sessionStatus[g.session] = "active"
      BY <1>1, <1>8, <2>1 DEF EndsAlone
    <3>2. h.creates => h.session # g.session
      BY <1>8, <2>1, <3>1 DEF EndsAlone, Ends
    <3> QED BY <1>6, <2>1, <3>1, <3>2
  <2> QED BY <1>1, <1>8, <2>1 DEF EndsAlone, Ends
<1>16. LearnerCanGoOn'
  <2> SUFFICES ASSUME ~startsCrossed, NEW s \in ActiveSessions'
               PROVE  /\ Unfinished(s)'
                      /\ \E r \in shownRows' :
                           /\ r.session = s /\ r.item = pending'[s]
                           /\ s \notin asksCrossed => r.position = Cardinality(ShownIn(s)')
    BY <1>1 DEF LearnerCanGoOn
  <2>1. s \in SessionIds /\ sessionStatus'[s] = "active"
    BY DEF ActiveSessions
  <2>2. Unfinished(s)'
    BY <1>6, <2>1 DEF Counts, Unfinished
  <2>3. CASE s = t
    <3>1. pending'[t] = i
      BY <1>2, <1>4, <1>8 DEF SessionTypeOK
    <3>2. CASE i \in ShownIn(t) \ SeenIn(h, t)
      <4>1. ~h.creates /\ h.session = t /\ Asks(h)
        BY <1>1, <1>7, <1>8, <3>2 DEF Counts, Asks
      <4>2. PICK r \in shownRows : r.session = t /\ r.item = i
        BY <3>2 DEF ShownIn
      <4>3. i \notin h.answered
        BY <3>2, <4>1 DEF SeenIn
      <4>4. t \notin asksCrossed => r.position = Cardinality(ShownIn(t))
        BY <1>8, <4>1, <4>2, <4>3 DEF AsksAlone
      <4>5. ShownIn(t)' = ShownIn(t)
        BY <1>3, <3>2 DEF Shown
      <4> QED BY <1>4, <2>2, <2>3, <3>1, <4>2, <4>4, <4>5
    <3>3. CASE i \notin ShownIn(t) \ SeenIn(h, t)
      <4>1. row \in shownRows' /\ Cardinality(ShownIn(t)') = Cardinality(ShownIn(t)) + 1
        BY <1>3, <3>3 DEF Shown
      <4>2. row.session = t /\ row.item = i /\ row.position = Cardinality(ShownIn(t)')
        BY <4>1
      <4> QED BY <2>2, <2>3, <3>1, <4>1, <4>2
    <3> QED BY <3>2, <3>3
  <2>4. CASE s # t
    <3>1. s \in ActiveSessions
      BY <1>6, <1>7, <2>4
    <3>2. pending'[s] = pending[s] /\ ShownIn(s)' = ShownIn(s)
      BY <1>2, <1>4, <1>8, <2>1, <2>4 DEF SessionTypeOK
    <3> QED BY <1>4, <1>8, <2>2, <3>1, <3>2 DEF LearnerCanGoOn
  <2> QED BY <2>3, <2>4
<1> QED BY <1>5, <1>6, <1>9, <1>10, <1>11, <1>12, <1>13, <1>14, <1>15, <1>16 DEF SessionInv

-----------------------------------------------------------------------------
(* A session is cancelled or answered. *)

\* What a cancellation and an answer have in common: one session's row changes,
\* and the active ones stay as they are or end.
LEMMA SessionEnds ==
  ASSUME SessionInv, NEW h \in handlers, h.session \in SessionIds, h.kind \in {"cancel", "answer"},
         handlers' = handlers \ {h}, Counts', SessionTypeOK',
         answerRows \subseteq answerRows', sessionStatus[h.session] # "absent",
         sessionStatus'[h.session] \notin {"absent"},
         \A s \in SessionIds \ {h.session} : sessionStatus'[s] = sessionStatus[s]
                                             /\ pending'[s] = pending[s],
         sessionStatus'[h.session] = "active" =>
           sessionStatus[h.session] = "active" /\ pending'[h.session] = pending[h.session],
         \A g \in handlers' : g.kind = "answer" => TapOK(g)',
         UNCHANGED <<flow, planned, shownRows, daily, sessionHistory>>
  PROVE  SessionInv'
<1>1. /\ SessionTypeOK /\ RoomLeft /\ Numbered /\ HandlersOK /\ Charges /\ StartsAlone /\ AsksAlone
      /\ EndsAlone /\ LearnerCanGoOn /\ 0 \notin SessionIds
      /\ UNCHANGED <<showsCrossed, startsCrossed, endsCrossed, asksCrossed>>
  BY SessionNumbers DEF SessionInv, sessionHistory
<1>2. /\ \A s : ShownIn(s)' = ShownIn(s) /\ AnsweredIn(s) \subseteq AnsweredIn(s)'
      /\ Sent' = Sent
  BY DEF ShownIn, AnsweredIn, Sent
<1>3. Unused' = Unused /\ ActiveSessions' \subseteq ActiveSessions
  BY DEF Unused, ActiveSessions
<1>4. RoomLeft'
  <2>1. h \notin Creators
    BY <1>1 DEF Creators, HandlersOK, ShowKinds
  <2>2. Creators' = Creators /\ IsFiniteSet(handlers')
    BY <1>1, <2>1, FS_RemoveElement DEF Creators, RoomLeft
  <2> QED BY <1>1, <1>3, <2>2 DEF RoomLeft
<1>5. Numbered'
  BY <1>1, <1>2 DEF Numbered, PositionFree
<1>6. HandlersOK'
  <2>1. \A g \in handlers' : g.session # 0 => g.session \in SessionIds
    BY <1>1 DEF SessionTypeOK, Handler
  <2>2. \A g \in handlers' : g.session # 0 => sessionStatus'[g.session] # "absent"
    BY <1>1, <2>1 DEF HandlersOK
  <2>3. \A g \in handlers' : g.kind \in ShowKinds => ReadBefore(g)'
    BY <1>1, <1>2 DEF HandlersOK, ReadBefore
  <2> QED BY <1>1, <2>2, <2>3 DEF HandlersOK
<1>7. Charges'
  BY <1>1, <1>2 DEF Charges, SameQueue
<1>8. StartsAlone'
  <2>1. Creators' \subseteq Creators
    BY DEF Creators
  <2> QED BY <1>1, <1>3, <2>1 DEF StartsAlone
<1>9. AsksAlone'
  BY <1>1, <1>2 DEF AsksAlone, Asks
<1>10. EndsAlone'
  <2>1. Ends(h)
    BY DEF Ends
  <2>2. ASSUME NEW g \in handlers', Ends(g), g.session \in SessionIds \ endsCrossed
        PROVE  sessionStatus'[g.session] = "active"
    <3>1. g \in handlers /\ g.session # h.session
      BY <1>1, <2>1, <2>2 DEF EndsAlone
    <3> QED BY <1>1, <2>2, <3>1 DEF EndsAlone
  <2> QED BY <1>1, <2>2 DEF EndsAlone, Ends
<1>11. LearnerCanGoOn'
  <2> SUFFICES ASSUME ~startsCrossed, NEW s \in ActiveSessions'
               PROVE  /\ Unfinished(s)'
                      /\ \E r \in shownRows :
                           /\ r.session = s /\ r.item = pending'[s]
                           /\ s \notin asksCrossed => r.position = Cardinality(ShownIn(s))
    BY <1>1, <1>2 DEF LearnerCanGoOn
  <2>1. s \in SessionIds /\ sessionStatus'[s] = "active" /\ s \in ActiveSessions
    BY <1>3 DEF ActiveSessions
  <2>2. Unfinished(s)'
    BY <2>1 DEF Counts, Unfinished
  <2>3. pending'[s] = pending[s]
    BY <2>1
  <2> QED BY <1>1, <2>1, <2>2, <2>3 DEF LearnerCanGoOn
<1> QED BY <1>4, <1>5, <1>6, <1>7, <1>8, <1>9, <1>10, <1>11 DEF SessionInv

LEMMA CancelStep ==
  ASSUME SessionInv, NEW h \in handlers, Cancel(h)
  PROVE  SessionInv'
<1>1. /\ h.kind = "cancel" /\ handlers' = handlers \ {h}
      /\ sessionStatus' = [sessionStatus EXCEPT ![h.session] = "cancelled"]
      /\ pending' = [pending EXCEPT ![h.session] = NoItem]
      /\ UNCHANGED <<flow, planned, counted, shownRows, answerRows, daily, cached, sessionHistory,
                     aborts, expiries>>
  BY DEF Cancel, sessionRows, sessionBounds
<1>2. /\ SessionTypeOK /\ HandlersOK /\ Counts /\ h.session \in SessionIds
      /\ sessionStatus[h.session] # "absent"
  BY <1>1, SessionNumbers DEF SessionInv, HandlersOK
<1>3. /\ sessionStatus' \in [SessionIds -> SessionStatuses]
      /\ sessionStatus'[h.session] = "cancelled"
      /\ pending' \in [SessionIds -> Items \cup {NoItem}]
      /\ \A s \in SessionIds \ {h.session} : sessionStatus'[s] = sessionStatus[s]
                                             /\ pending'[s] = pending[s]
  BY <1>1, <1>2 DEF SessionTypeOK, SessionStatuses
<1>4. SessionTypeOK'
  BY <1>1, <1>2, <1>3 DEF SessionTypeOK, sessionHistory
<1>5. Counts'
  <2>1. \A s : ShownIn(s)' = ShownIn(s) /\ AnsweredIn(s)' = AnsweredIn(s)
    BY <1>1 DEF ShownIn, AnsweredIn
  <2> QED BY <1>1, <1>2, <1>3, <2>1 DEF Counts
<1>6. \A g \in handlers' : g.kind = "answer" => TapOK(g)'
  BY <1>1, <1>2 DEF HandlersOK, TapOK, QuestionOf, Sent
<1> QED BY <1>1, <1>2, <1>3, <1>4, <1>5, <1>6, SessionEnds

LEMMA AnsweredStep ==
  ASSUME SessionInv, NEW h \in handlers, Answered(h)
  PROVE  SessionInv'
<1> DEFINE s == h.session
           i == h.item
           completed == h.counted + 1 >= planned[s]
<1>1. /\ h.phase = "written" /\ handlers' = handlers \ {h}
      /\ answerRows' = answerRows \cup {QuestionOf(h)}
      /\ counted' = [counted EXCEPT ![s] = h.counted + 1]
      /\ pending' = [pending EXCEPT ![s] = IF completed THEN NoItem ELSE pending[s]]
      /\ sessionStatus' = [sessionStatus EXCEPT ![s] = IF completed THEN "completed" ELSE @]
      /\ UNCHANGED <<flow, planned, shownRows, daily, cached, sessionHistory, aborts, expiries>>
  BY DEF Answered, SideEffects, Completes, StoredWith, PendingAfter, sessionBounds
<1>2. /\ SessionTypeOK /\ HandlersOK /\ Counts /\ Numbered /\ h.kind = "answer" /\ TapOK(h)
      /\ answerRows \subseteq AnswerRow /\ shownRows \subseteq ShownRow
  BY <1>1 DEF SessionInv, SessionTypeOK, HandlersOK
<1>3. /\ s \in SessionIds /\ i \in Items /\ i \in ShownIn(s) /\ i \notin AnsweredIn(s)
      /\ QuestionOf(h) = [session |-> s, item |-> i] /\ QuestionOf(h) \notin answerRows
  BY <1>1, <1>2, Questions DEF TapOK, QuestionOf, Sent, ShownRow
<1>4. /\ h.counted = counted[s] /\ counted[s] = Cardinality(AnsweredIn(s))
      /\ planned[s] \in Nat /\ sessionStatus[s] # "absent"
      /\ AnsweredIn(s) \subseteq ShownIn(s) /\ Cardinality(ShownIn(s)) <= planned[s]
  BY <1>1, <1>2, <1>3 DEF TapOK, Counts, SessionTypeOK
<1>5. /\ AnsweredIn(s)' = AnsweredIn(s) \cup {i}
      /\ \A t \in SessionIds \ {s} : AnsweredIn(t)' = AnsweredIn(t)
      /\ \A t : ShownIn(t)' = ShownIn(t) /\ AnsweredIn(t) \subseteq AnsweredIn(t)'
  <2>1. answerRows' = answerRows \cup {[session |-> s, item |-> i]}
    BY <1>1, <1>3
  <2> DEFINE row == [session |-> s, item |-> i]
  <2>2. row.session = s /\ row.item = i /\ answerRows' = answerRows \cup {row}
    BY <2>1
  <2> HIDE DEF row
  <2>3. \A t : AnsweredIn(t)' = {a.item : a \in {r \in answerRows' : r.session = t}}
    BY DEF AnsweredIn
  <2>4. AnsweredIn(s)' = AnsweredIn(s) \cup {i}
    <3>1. ASSUME NEW x \in AnsweredIn(s)'
          PROVE  x \in AnsweredIn(s) \cup {i}
      BY <2>2, <2>3, <3>1 DEF AnsweredIn
    <3>2. AnsweredIn(s) \subseteq AnsweredIn(s)'
      BY <2>2, <2>3 DEF AnsweredIn
    <3>3. i \in AnsweredIn(s)'
      BY <2>2, <2>3
    <3> QED BY <3>1, <3>2, <3>3
  <2>5. ASSUME NEW t, t # s
        PROVE  AnsweredIn(t)' = AnsweredIn(t)
    BY <2>2, <2>3, <2>5 DEF AnsweredIn
  <2>6. \A t : ShownIn(t)' = ShownIn(t)
    BY <1>1 DEF ShownIn
  <2>7. \A t : AnsweredIn(t) \subseteq AnsweredIn(t)'
    <3> TAKE t
    <3>1. CASE t = s
      BY <2>4, <3>1
    <3>2. CASE t # s
      BY <2>5, <3>2
    <3> QED BY <3>1, <3>2
  <2> QED BY <2>4, <2>5, <2>6, <2>7
<1>6. /\ Cardinality(AnsweredIn(s)') = Cardinality(AnsweredIn(s)) + 1
      /\ Cardinality(AnsweredIn(s)) \in Nat /\ Cardinality(AnsweredIn(s)) + 1 <= planned[s]
  <2>1. /\ AnsweredIn(s) \subseteq Items /\ ShownIn(s) \subseteq Items
        /\ Cardinality(AnsweredIn(s)) \in Nat /\ Cardinality(ShownIn(s)) \in Nat
    BY <1>2, RowSets
  <2>2. Cardinality(AnsweredIn(s) \cup {i}) = Cardinality(AnsweredIn(s)) + 1
    BY <1>3, <2>1, OneMore
  <2>3. Cardinality(AnsweredIn(s) \cup {i}) <= Cardinality(ShownIn(s))
    BY <1>3, <1>4, <2>1, SmallerSet
  <2> QED BY <1>4, <1>5, <2>1, <2>2, <2>3
<1>7. /\ sessionStatus' \in [SessionIds -> SessionStatuses]
      /\ counted' \in [SessionIds -> Nat] /\ pending' \in [SessionIds -> Items \cup {NoItem}]
      /\ answerRows' \subseteq AnswerRow
      /\ counted'[s] = Cardinality(AnsweredIn(s)) + 1
      /\ sessionStatus'[s] = (IF completed THEN "completed" ELSE sessionStatus[s])
      /\ pending'[s] = (IF completed THEN NoItem ELSE pending[s])
      /\ \A t \in SessionIds \ {s} : /\ sessionStatus'[t] = sessionStatus[t]
                                    /\ pending'[t] = pending[t] /\ counted'[t] = counted[t]
  <2>1. answerRows' \subseteq AnswerRow
    BY <1>1, <1>2, <1>3 DEF AnswerRow
  <2> QED BY <1>1, <1>2, <1>3, <1>4, <1>6, <2>1 DEF SessionTypeOK, SessionStatuses
<1>8. SessionTypeOK'
  BY <1>1, <1>2, <1>7 DEF SessionTypeOK, sessionHistory
<1>9. completed <=> Cardinality(AnsweredIn(s)) + 1 = planned[s]
  BY <1>4, <1>6
<1> HIDE DEF completed
<1>10. Counts'
  <2>1. \A r \in shownRows : r.item \notin AnsweredIn(r.session)' =>
          r.position = Cardinality(ShownIn(r.session))
    BY <1>2, <1>5 DEF Counts
  <2>2. ASSUME NEW t \in SessionIds
        PROVE  /\ AnsweredIn(t)' \subseteq ShownIn(t)
               /\ Cardinality(ShownIn(t)) <= planned[t]
               /\ counted'[t] = Cardinality(AnsweredIn(t)')
               /\ sessionStatus'[t] = "absent" => ShownIn(t) = {}
               /\ sessionStatus'[t] = "active" => counted'[t] < planned[t]
               /\ sessionStatus'[t] = "completed" => counted'[t] = planned[t]
    <3>1. CASE t = s
      <4> DEFINE n == Cardinality(AnsweredIn(s))
      <4>1. /\ AnsweredIn(s)' \subseteq ShownIn(s) /\ ShownIn(s) # {}
            /\ counted'[s] = Cardinality(AnsweredIn(s)')
        BY <1>3, <1>4, <1>5, <1>6, <1>7
      <4>2. /\ n \in Nat /\ n + 1 <= planned[s] /\ planned[s] \in Nat
            /\ counted'[s] = n + 1 /\ Cardinality(ShownIn(s)) <= planned[s]
            /\ completed <=> n + 1 = planned[s]
        BY <1>4, <1>6, <1>7, <1>9
      <4>3. sessionStatus[s] = "completed" => n = planned[s]
        BY <1>2, <1>3, <1>4 DEF Counts
      <4> HIDE DEF n
      <4>4. sessionStatus'[s] = "completed" => counted'[s] = planned[s]
        <5>1. CASE completed
          BY <4>2, <5>1
        <5>2. CASE ~completed
          <6>1. sessionStatus[s] # "completed"
            BY <4>2, <4>3
          <6> QED BY <1>7, <5>2, <6>1
        <5> QED BY <5>1, <5>2
      <4>5. sessionStatus'[s] = "active" => counted'[s] < planned[s]
        <5>1. CASE completed
          BY <1>7, <5>1
        <5>2. CASE ~completed
          BY <4>2, <5>2
        <5> QED BY <5>1, <5>2
      <4>6. sessionStatus'[s] # "absent"
        BY <1>4, <1>7
      <4> QED BY <3>1, <4>1, <4>2, <4>4, <4>5, <4>6
    <3>2. CASE t # s
      BY <1>2, <1>5, <1>7, <3>2 DEF Counts
    <3> QED BY <3>1, <3>2
  <2> QED BY <1>1, <1>5, <2>1, <2>2 DEF Counts
<1>11. ASSUME NEW g \in handlers', g.kind = "answer"
       PROVE  TapOK(g)'
  <2>1. g \in handlers /\ g # h /\ TapOK(g) /\ Sent' = Sent
    BY <1>1, <1>2, <1>11 DEF HandlersOK, Sent
  <2>2. g.session \in SessionIds /\ g.item \in ShownIn(g.session)
    BY <1>2, <2>1, Questions DEF TapOK, QuestionOf, Sent, ShownRow
  <2>3. QuestionOf(g) \notin answerRows <=> g.item \notin AnsweredIn(g.session)
    BY <1>2, Questions DEF QuestionOf
  <2>4. QuestionOf(g) \notin answerRows' => g.counted = counted'[g.session]
    <3> SUFFICES ASSUME QuestionOf(g) \notin answerRows'
                 PROVE  g.session # s
      BY <1>1, <1>7, <2>1, <2>2 DEF TapOK
    <3>1. SUFFICES ASSUME g.session = s
                   PROVE  FALSE
      OBVIOUS
    <3>2. g.item # i /\ g.item \notin AnsweredIn(s)
      BY <1>1, <1>3, <2>3, <3>1 DEF QuestionOf
    <3>3. PICK q \in shownRows : q.session = s /\ q.item = g.item
      BY <2>2, <3>1 DEF ShownIn
    <3>4. PICK r \in shownRows : r.session = s /\ r.item = i
      BY <1>3 DEF ShownIn
    <3>5. q.position = Cardinality(ShownIn(s)) /\ r.position = Cardinality(ShownIn(s))
      BY <1>2, <1>3, <3>2, <3>3, <3>4 DEF Counts
    <3> QED BY <1>2, <3>2, <3>3, <3>4, <3>5 DEF Numbered
  <2>5. g.phase = "written" => QuestionOf(g) \notin answerRows'
    <3>1. g.phase = "written" => g.session # s
      BY <1>1, <1>2, <2>1 DEF HandlersOK
    <3> QED BY <1>1, <1>3, <2>1, <3>1 DEF TapOK, QuestionOf
  <2> QED BY <2>1, <2>4, <2>5 DEF TapOK, QuestionOf
<1>12. sessionStatus'[s] # "absent" /\ (sessionStatus'[s] = "active" =>
         sessionStatus[s] = "active" /\ pending'[s] = pending[s])
  BY <1>4, <1>7
<1> QED BY <1>1, <1>2, <1>3, <1>4, <1>7, <1>8, <1>10, <1>11, <1>12, SessionEnds

-----------------------------------------------------------------------------
(* The theorems. *)

LEMMA SessionKeeps == SessionInv /\ [SessionNext]_sessionVars => SessionInv'
<1> SUFFICES ASSUME SessionInv, [SessionNext]_sessionVars
             PROVE  SessionInv'
  OBVIOUS
<1>1. CASE UNCHANGED sessionVars
  BY <1>1, HandlersLeave
     DEF sessionVars, sessionBounds, SameRows, SessionInv, SessionTypeOK
<1>2. ASSUME NEW h \in handlers,
             \/ Show(h) \/ Refused(h) \/ Cancel(h) \/ LockExpires(h)
             \/ Write(h) \/ Duplicate(h) \/ Answered(h) \/ Abort(h)
      PROVE  SessionInv'
  BY <1>2, ShowStep, CancelStep, AnsweredStep, GoOnSteps, LeaveSteps
<1> QED BY <1>1, <1>2, BeginSteps DEF SessionNext

\* The tables, the cache and the handlers under way keep their types.
THEOREM SessionTypeCorrect == SessionSpec => []SessionTypeOK
<1>1. SessionInv => SessionTypeOK
  BY DEF SessionInv
<1> QED BY SessionInitial, SessionKeeps, <1>1, PTL DEF SessionSpec

\* answered_count is the number of stored answers, and a session is completed only
\* with all of them (_update_session_state), whatever is tapped twice, expires,
\* fails or is cancelled meanwhile.
THEOREM AnswersCounted == SessionSpec => []AnswersCountedOnce
<1>1. SessionInv => AnswersCountedOnce
  BY DEF SessionInv, Counts, AnswersCountedOnce
<1> QED BY SessionInitial, SessionKeeps, <1>1, PTL DEF SessionSpec

\* The daily limit charges each question shown once (_record_question_shown),
\* although its row is read and written back without a lock.
THEOREM ShownAreCharged == SessionSpec => []ChargedPerShownQuestion
<1>1. SessionInv => ChargedPerShownQuestion
  BY DEF SessionInv, Charges, Numbered, ChargedPerShownQuestion
<1> QED BY SessionInitial, SessionKeeps, <1>1, PTL DEF SessionSpec

\* Two active sessions only come of two starts at once (get_active_for_user).
THEOREM ActiveAlone == SessionSpec => []OneActiveSession
<1>1. SessionInv => OneActiveSession
  <2> SUFFICES ASSUME SessionInv, ~startsCrossed
               PROVE  Cardinality(ActiveSessions) <= 1
    BY DEF OneActiveSession
  <2>1. \A s, t \in ActiveSessions : s = t
    BY DEF SessionInv, StartsAlone
  <2>2. CASE ActiveSessions = {}
    BY <2>2, FS_EmptySet
  <2>3. CASE ActiveSessions # {}
    <3>1. PICK s \in ActiveSessions : ActiveSessions = {s}
      BY <2>1, <2>3
    <3>2. Cardinality({s}) = 1
      BY FS_Singleton
    <3> QED BY <3>1, <3>2
  <2> QED BY <2>2, <2>3
<1> QED BY SessionInitial, SessionKeeps, <1>1, PTL DEF SessionSpec

\* A learner with an active session has a question to answer or to ask for
\* (set_pending_question, handle_next).
THEOREM ActiveCanGoOn == SessionSpec => []LearnerCanGoOn
<1>1. SessionInv => LearnerCanGoOn
  BY DEF SessionInv
<1> QED BY SessionInitial, SessionKeeps, <1>1, PTL DEF SessionSpec

\* A session that was completed or cancelled stays so, unless two handlers that
\* could end it had read it as active at once.
THEOREM EndedForGood == SessionSpec => EndedStaysEnded
<1> DEFINE Kept ==
      \A s \in SessionIds :
        sessionStatus[s] \in {"completed", "cancelled"} /\ s \notin endsCrossed
          => sessionStatus'[s] = sessionStatus[s]
<1>1. SessionInv /\ [SessionNext]_sessionVars => [Kept]_sessionVars
  <2> SUFFICES ASSUME SessionInv, SessionNext
               PROVE  Kept
    OBVIOUS
  <2>1. /\ EndsAlone /\ HandlersOK /\ sessionStatus \in [SessionIds -> SessionStatuses]
    BY DEF SessionInv, SessionTypeOK
  <2>2. ASSUME NEW h \in handlers, Show(h)
        PROVE  Kept
    <3> SUFFICES ASSUME NEW s \in SessionIds,
                        sessionStatus[s] \in {"completed", "cancelled"}, s \notin endsCrossed
                 PROVE  sessionStatus'[s] = sessionStatus[s]
      OBVIOUS
    <3>1. sessionStatus'[s] =
            IF h.creates /\ s = h.session THEN "cancelled"
            ELSE IF h.creates /\ s = NewSession THEN "active" ELSE sessionStatus[s]
      BY <2>2 DEF Show, Statuses
    <3>2. ~ (h.creates /\ s = h.session)
      BY <2>1 DEF EndsAlone, Ends
    <3>3. ~ (h.creates /\ s = NewSession)
      BY NewSessionFacts
    <3> QED BY <3>1, <3>2, <3>3
  <2>3. ASSUME NEW h \in handlers, Cancel(h) \/ Answered(h)
        PROVE  Kept
    <3>1. Ends(h)
      BY <2>1, <2>3 DEF Cancel, Answered, HandlersOK, Ends
    <3>2. \A s \in SessionIds : s # h.session => sessionStatus'[s] = sessionStatus[s]
      BY <2>1, <2>3 DEF Cancel, Answered, SideEffects
    <3>3. h.session \in SessionIds \ endsCrossed => sessionStatus[h.session] = "active"
      BY <2>1, <3>1 DEF EndsAlone
    <3> QED BY <3>2, <3>3
  <2>4. CASE sessionStatus' = sessionStatus
    BY <2>4
  <2>5. ASSUME NEW h \in handlers, \/ Refused(h) \/ LockExpires(h) \/ Write(h)
                                   \/ Duplicate(h) \/ Abort(h)
        PROVE  sessionStatus' = sessionStatus
    BY <2>5 DEF Refused, LockExpires, Write, Duplicate, Abort, sessionTables
  <2>6. CASE \/ ContinueTraining \/ StartReview \/ OpenMenu
             \/ \E s \in SessionIds : StartNew(s)
             \/ \E q \in answerRows : NextQuestion(q)
             \/ \E q \in Sent : Tap(q)
    <3>1. sessionStatus' = sessionStatus
      BY <2>6 DEF ContinueTraining, OpenTheme, Resume, ResendPending, StartReview, OpenMenu,
                  BeginCancel, StartNew, NextQuestion, Tap, Begin, sessionTables
    <3> QED BY <2>4, <3>1
  <2> HIDE DEF Kept
  <2> QED BY <2>2, <2>3, <2>4, <2>5, <2>6 DEF SessionNext
<1> QED BY SessionInitial, SessionKeeps, <1>1, PTL DEF SessionSpec, EndedStaysEnded
=============================================================================
