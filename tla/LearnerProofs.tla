--------------------------- MODULE LearnerProofs ---------------------------
(***************************************************************************)
(* Theorems about LearnerProfile, for any levels, themes and groups, any   *)
(* offer of the catalog and any number of presses under way; and about     *)
(* Learning, for any quizzes, answers, days and transactions.              *)
(***************************************************************************)
EXTENDS LearnerProfile, Learning, Sums, FiniteSetTheorems, SequenceTheorems,
        WellFoundedInduction, TLAPS

\* What a press of each kind carries.
PressOK(p) ==
  /\ p = [kind |-> p.kind, n |-> p.n, level |-> p.level, theme |-> p.theme,
          loaded |-> p.loaded, seen |-> p.seen]
  /\ p.kind \in {"start", "level", "theme", "new", "continue"}
  /\ p.loaded => p.kind = "continue"
  /\ p.kind = "start" => p.level = NoChoice /\ p.theme = NoChoice
  /\ p.kind = "level" => p.level \in Levels /\ p.theme = NoChoice
  /\ p.kind \in {"theme", "new", "continue"} => p.level \in Levels /\ p.theme \in ThemeNames
  /\ p.kind = "theme" => p.theme \in Offered[p.level]
  /\ p.seen \in User

\* A level is never taken back: no theme is without one, and a press that has
\* read one can leave the column alone.
LevelStays ==
  /\ learner.theme # NoChoice => learner.level # NoChoice
  /\ \A p \in presses : p.seen.level # NoChoice => learner.level # NoChoice

\* Without an overlap the one press under way has read the row as it is, and
\* "continue" goes on without an active session.
Alone ==
  ~overlapped =>
    /\ \A p, q \in presses : p = q
    /\ \A p \in presses : p.seen = learner /\ (p.kind = "continue" => ~round.active)

ProfileInv ==
  /\ ProfileTypeOK /\ LevelStays /\ Alone /\ SavedPairIsPlayable
  /\ \A p \in presses : PressOK(p)

\* The keyboards in the chat.
Keyboards == [levels : BOOLEAN, groups : SUBSET Levels,
              themes : SUBSET [level : Levels, group : Groups]]

\* What the types of the rows give.
LEMMA ProfileTypes ==
  ASSUME ProfileTypeOK
  PROVE  /\ learner \in User /\ learner.level \in Levels \cup {NoChoice}
         /\ learner.theme \in ThemeNames \cup {NoChoice}
         /\ round.active =>
              round \in [active : {TRUE}, level : Levels, theme : ThemeNames, asked : BOOLEAN]
         /\ NoChoice \notin Levels /\ NoChoice \notin ThemeNames
<1>1. NoChoice \notin Levels /\ NoChoice \notin ThemeNames
  BY ProfileAssumption DEF ThemeNames
<1>2. /\ learner \in User /\ learner.level \in Levels \cup {NoChoice}
      /\ learner.theme \in ThemeNames \cup {NoChoice}
  BY DEF ProfileTypeOK, User
<1>3. round.active =>
        round \in [active : {TRUE}, level : Levels, theme : ThemeNames, asked : BOOLEAN]
  <2>1. CASE round = NoRound
    BY <2>1 DEF NoRound
  <2>2. CASE round \in [active : {TRUE}, level : Levels, theme : ThemeNames, asked : BOOLEAN]
    BY <2>2
  <2> QED BY <2>1, <2>2 DEF ProfileTypeOK
<1> QED BY <1>1, <1>2, <1>3

LEMMA ProfileInitial == ProfileInit => ProfileInv
<1> SUFFICES ASSUME ProfileInit
             PROVE  ProfileInv
  OBVIOUS
<1>1. learner \in User /\ learner.theme = NoChoice
  BY DEF ProfileInit, User
<1>2. ProfileTypeOK
  BY <1>1 DEF ProfileInit, ProfileTypeOK
<1> QED BY <1>1, <1>2 DEF ProfileInit, ProfileInv, LevelStays, Alone, SavedPairIsPlayable

\* Keyboards are sent, and nothing else happens.
LEMMA OnlyShownStep ==
  ASSUME ProfileInv, OnlyShown,
         shown' \in Keyboards
  PROVE  ProfileInv'
<1>1. ProfileTypeOK'
  BY DEF OnlyShown, ProfileInv, ProfileTypeOK, Keyboards
<1>2. (LevelStays /\ Alone /\ SavedPairIsPlayable /\ \A p \in presses : PressOK(p))'
  BY DEF OnlyShown, ProfileInv, LevelStays, Alone, SavedPairIsPlayable, Playable, PressOK
<1> QED BY <1>1, <1>2 DEF ProfileInv

LEMMA KeyboardTypes ==
  ASSUME ProfileTypeOK
  PROVE  /\ ShowLevels => shown' \in Keyboards
         /\ \A l \in Levels : ShowGroups(l) => shown' \in Keyboards
         /\ \A l \in Levels, g \in Groups :
              shown' = [shown EXCEPT !.themes = @ \cup {[level |-> l, group |-> g]}]
                => shown' \in Keyboards
<1>1. shown \in Keyboards
  BY DEF ProfileTypeOK, Keyboards
<1>2. ShowLevels => shown' \in Keyboards
  BY <1>1 DEF ShowLevels, Keyboards
<1>3. ASSUME NEW l \in Levels, ShowGroups(l)
      PROVE  shown' \in Keyboards
  <2>1. CASE shown' = [shown EXCEPT !.levels = TRUE]
    BY <1>1, <2>1 DEF Keyboards
  <2>2. CASE shown' = [shown EXCEPT !.groups = @ \cup {l}]
    BY <1>1, <2>2 DEF Keyboards
  <2> QED BY <1>3, <2>1, <2>2 DEF ShowGroups
<1>4. ASSUME NEW l \in Levels, NEW g \in Groups,
             shown' = [shown EXCEPT !.themes = @ \cup {[level |-> l, group |-> g]}]
      PROVE  shown' \in Keyboards
  BY <1>1, <1>4 DEF Keyboards
<1> QED BY <1>2, <1>3, <1>4

\* A press that begins has read the row as it is.
LEMMA BeginStep ==
  ASSUME ProfileInv, NEW p, BeginPress(p), PressOK(p), p.seen = learner,
         p.kind = "continue" => ~round.active
  PROVE  ProfileInv'
<1>1. ProfileTypeOK'
  <2>1. p.seen \in User /\ (p.kind \in {"theme", "new", "continue"} =>
                              [level |-> p.level, theme |-> p.theme] \in Choice)
    BY DEF PressOK, Choice
  <2> QED BY <2>1 DEF BeginPress, ProfileInv, ProfileTypeOK
<1>2. LevelStays'
  BY DEF BeginPress, ProfileInv, LevelStays
<1>3. Alone'
  BY DEF BeginPress, ProfileInv, Alone
<1>4. SavedPairIsPlayable'
  BY DEF BeginPress, ProfileInv, SavedPairIsPlayable, Playable
<1>5. \A q \in presses' : PressOK(q)
  BY DEF BeginPress, ProfileInv
<1> QED BY <1>1, <1>2, <1>3, <1>4, <1>5 DEF ProfileInv, PressOK

LEMMA PressFacts ==
  ASSUME ProfileTypeOK, NEW kind \in {"start", "level", "theme", "new", "continue"},
         NEW l, NEW t,
         kind = "start" => l = NoChoice /\ t = NoChoice,
         kind = "level" => l \in Levels /\ t = NoChoice,
         kind \in {"theme", "new", "continue"} => l \in Levels /\ t \in ThemeNames,
         kind = "theme" => t \in Offered[l]
  PROVE  /\ PressOK(Press(kind, l, t)) /\ Press(kind, l, t).seen = learner
         /\ Press(kind, l, t).kind = kind
<1> DEFINE n == CHOOSE n \in 0 .. MaxPresses : \A p \in presses : p.n # n
           p == [kind |-> kind, n |-> n, level |-> l, theme |-> t,
                 loaded |-> kind = "continue", seen |-> learner]
<1>1. Press(kind, l, t) = p
  BY DEF Press
<1>2. learner \in User
  BY DEF ProfileTypeOK
<1> HIDE DEF n
<1>3. PressOK(p)
  BY <1>2 DEF PressOK
<1>4. p.seen = learner /\ p.kind = kind
  OBVIOUS
<1> HIDE DEF p
<1> QED BY <1>1, <1>3, <1>4

\* The pair of a theme button is one the catalog offers.
LEMMA ButtonsPlayable ==
  ASSUME NEW l, NEW t, t \in Offered[l]
  PROVE  Playable(l, t)
BY DEF Playable

LEMMA OpenedPress ==
  ASSUME NEW p, PressOK(p), NEW seen
  PROVE  [p EXCEPT !.loaded = FALSE, !.seen = seen]
         = [kind |-> p.kind, n |-> p.n, level |-> p.level, theme |-> p.theme,
            loaded |-> FALSE, seen |-> seen]
<1> DEFINE R == [kind : {p.kind}, n : {p.n}, level : {p.level}, theme : {p.theme},
                 loaded : {p.loaded, FALSE}, seen : {p.seen, seen}]
           e == [p EXCEPT !.loaded = FALSE, !.seen = seen]
<1>1. p \in R
  BY DEF PressOK
<1>2. [p EXCEPT !.loaded = FALSE] \in R /\ [p EXCEPT !.loaded = FALSE].loaded = FALSE
  BY <1>1
<1>3. e = [[p EXCEPT !.loaded = FALSE] EXCEPT !.seen = seen]
  BY <1>1
<1>4. e \in R /\ e.loaded = FALSE /\ e.seen = seen
  BY <1>2, <1>3
<1> HIDE DEF e
<1>5. e = [kind |-> p.kind, n |-> p.n, level |-> p.level, theme |-> p.theme,
           loaded |-> FALSE, seen |-> seen]
  BY <1>4
<1> QED BY <1>5 DEF e

\* The transaction of the pair that "continue" has loaded reads the row again.
LEMMA OpenSavedStep ==
  ASSUME ProfileInv, NEW p \in presses, OpenSaved(p)
  PROVE  ProfileInv'
<1> DEFINE d == [p EXCEPT !.loaded = FALSE, !.seen = learner]
<1>1. PressOK(p) /\ ProfileTypeOK /\ LevelStays /\ Alone /\ SavedPairIsPlayable /\ learner \in User
  BY DEF ProfileInv, ProfileTypeOK
<1>2. /\ d.kind = p.kind /\ d.n = p.n /\ d.level = p.level /\ d.theme = p.theme
      /\ d.loaded = FALSE /\ d.seen = learner
      /\ d = [kind |-> d.kind, n |-> d.n, level |-> d.level, theme |-> d.theme,
              loaded |-> d.loaded, seen |-> d.seen]
  <2>1. d = [kind |-> p.kind, n |-> p.n, level |-> p.level, theme |-> p.theme,
             loaded |-> FALSE, seen |-> learner]
    BY <1>1, OpenedPress
  <2> HIDE DEF d
  <2> QED BY <2>1
<1>3. presses' = (presses \ {p}) \cup {d}
      /\ UNCHANGED <<learner, round, missed, shown, overlapped, levelAlone>>
  BY DEF OpenSaved
<1> HIDE DEF d
<1>4. PressOK(d)
  BY <1>1, <1>2 DEF PressOK
<1>5. ProfileTypeOK'
  <2>1. d.seen \in User /\ (d.kind \in {"theme", "new", "continue"} =>
                              [level |-> d.level, theme |-> d.theme] \in Choice)
    BY <1>4 DEF PressOK, Choice
  <2> QED BY <1>1, <1>3, <2>1 DEF ProfileTypeOK
<1>6. LevelStays'
  BY <1>1, <1>2, <1>3 DEF LevelStays
<1>7. Alone'
  BY <1>1, <1>2, <1>3 DEF Alone
<1>8. SavedPairIsPlayable'
  BY <1>1, <1>3 DEF SavedPairIsPlayable, Playable
<1>9. \A q \in presses' : PressOK(q)
  BY <1>3, <1>4 DEF ProfileInv
<1> QED BY <1>5, <1>6, <1>7, <1>8, <1>9 DEF ProfileInv, PressOK

\* A press that is rolled back has shown a keyboard at most.
LEMMA FailPressStep ==
  ASSUME ProfileInv, NEW p \in presses, FailPress(p)
  PROVE  ProfileInv'
<1>1. PressOK(p) /\ ProfileTypeOK
  BY DEF ProfileInv
<1>2. ShowLevels \/ (p.level \in Levels /\ ShowGroups(p.level)) \/ UNCHANGED shown
  BY <1>1 DEF FailPress, PressOK
<1>3. shown' \in Keyboards
  BY <1>1, <1>2, KeyboardTypes DEF ProfileTypeOK, Keyboards
<1>4. presses' \subseteq presses /\ UNCHANGED <<learner, round, missed, overlapped, levelAlone>>
  BY DEF FailPress
<1>5. ProfileTypeOK'
  BY <1>1, <1>3, <1>4 DEF ProfileTypeOK, Keyboards
<1> QED BY <1>4, <1>5
        DEF ProfileInv, LevelStays, Alone, SavedPairIsPlayable, Playable, PressOK

\* What a press leaves in the row: a column it gives no value is kept, the level
\* never goes away, and a press that read the row as it is saves its pair.
LEMMA SavedFacts ==
  ASSUME ProfileTypeOK, LevelStays, NEW p \in presses, PressOK(p)
  PROVE  /\ Saved(p) \in User
         /\ learner.level # NoChoice => Saved(p).level # NoChoice
         /\ Saved(p).theme # NoChoice => Saved(p).level # NoChoice
         /\ p.kind = "start" => /\ Saved(p).level = learner.level
                                /\ Saved(p).theme = learner.theme
         /\ p.kind = "level" => /\ Saved(p).theme = learner.theme
                                /\ p.level = learner.level => Saved(p).level = learner.level
         /\ p.kind \in {"theme", "new", "continue"} /\ p.seen = learner
              => Saved(p).level = p.level /\ Saved(p).theme = p.theme
<1>1. /\ learner.level \in Levels \cup {NoChoice} /\ learner.theme \in ThemeNames \cup {NoChoice}
      /\ NoChoice \notin Levels /\ NoChoice \notin ThemeNames
  BY ProfileTypes
<1>2. p.level \in Levels \cup {NoChoice} /\ p.theme \in ThemeNames \cup {NoChoice}
  BY DEF PressOK
<1>3. /\ Saved(p).level = IF p.level \in {NoChoice, p.seen.level} THEN learner.level ELSE p.level
      /\ Saved(p).theme = IF p.theme \in {NoChoice, p.seen.theme} THEN learner.theme ELSE p.theme
  BY DEF Saved
<1>4. Saved(p) \in User
  BY <1>1, <1>2 DEF Saved, User
<1>5. p.level \in Levels /\ p.seen.level = p.level => learner.level # NoChoice
  BY <1>1 DEF LevelStays
<1>6. Saved(p).theme # NoChoice => Saved(p).level # NoChoice
  <2>1. CASE p.kind \in {"start", "level"}
    BY <1>1, <1>3, <1>5, <2>1 DEF PressOK, LevelStays
  <2>2. CASE p.kind \in {"theme", "new", "continue"}
    BY <1>1, <1>3, <1>5, <2>2 DEF PressOK
  <2> QED BY <2>1, <2>2 DEF PressOK
<1>7. learner.level # NoChoice => Saved(p).level # NoChoice
  BY <1>3
<1>8. p.kind = "start" => Saved(p).level = learner.level /\ Saved(p).theme = learner.theme
  BY <1>3 DEF PressOK
<1>9. p.kind = "level" => /\ Saved(p).theme = learner.theme
                          /\ p.level = learner.level => Saved(p).level = learner.level
  BY <1>3 DEF PressOK
<1>10. p.kind \in {"theme", "new", "continue"} /\ p.seen = learner
         => Saved(p).level = p.level /\ Saved(p).theme = p.theme
  BY <1>1, <1>3 DEF PressOK
<1> QED BY <1>4, <1>6, <1>7, <1>8, <1>9, <1>10

LEMMA CommitStep ==
  ASSUME ProfileInv, NEW p \in presses, CommitPress(p)
  PROVE  ProfileInv'
<1>1. PressOK(p) /\ ProfileTypeOK /\ LevelStays /\ Alone /\ SavedPairIsPlayable
  BY DEF ProfileInv
<1>2. /\ learner' = Saved(p) /\ round' = RoundAfter(p) /\ presses' = presses \ {p}
      /\ UNCHANGED <<missed, overlapped>>
      /\ Starts(p) => Playable(p.level, p.theme)
  BY DEF CommitPress
<1>3. learner' \in User /\ (learner.level # NoChoice => learner'.level # NoChoice)
      /\ (learner'.theme # NoChoice => learner'.level # NoChoice)
  BY <1>1, <1>2, SavedFacts
<1>4. shown' \in Keyboards
  <2>1. ShowLevels \/ (p.level \in Levels /\ ShowGroups(p.level)) \/ UNCHANGED shown
    BY <1>1 DEF CommitPress, PressOK
  <2> QED BY <1>1, <2>1, KeyboardTypes DEF ProfileTypeOK, Keyboards
<1>5. round' = NoRound
      \/ round' \in [active : {TRUE}, level : Levels, theme : ThemeNames, asked : BOOLEAN]
  <2>1. CASE Starts(p)
    BY <1>1, <1>2, <2>1 DEF RoundAfter, RoundOf, Starts, PressOK
  <2>2. CASE ~Starts(p) /\ p.kind \in {"theme", "continue"}
    <3>1. round.active
      BY <2>2 DEF Starts
    <3>2. round \in [active : {TRUE}, level : Levels, theme : ThemeNames, asked : BOOLEAN]
      BY <1>1, <3>1, ProfileTypes
    <3> QED BY <1>2, <2>2, <3>2 DEF RoundAfter
  <2>3. CASE ~Starts(p) /\ p.kind \notin {"theme", "continue"}
    BY <1>1, <1>2, <2>3 DEF RoundAfter, ProfileTypeOK
  <2> QED BY <2>1, <2>2, <2>3
<1>6. levelAlone' \in BOOLEAN
  BY <1>1 DEF CommitPress, ProfileTypeOK
<1>7. ProfileTypeOK'
  BY <1>1, <1>2, <1>3, <1>4, <1>5, <1>6 DEF ProfileTypeOK, Keyboards
<1>8. LevelStays'
  BY <1>1, <1>2, <1>3 DEF LevelStays
<1>9. Alone'
  BY <1>1, <1>2 DEF Alone
<1>10. SavedPairIsPlayable'
  <2> SUFFICES ASSUME learner'.theme # NoChoice, ~overlapped, ~levelAlone'
               PROVE  Playable(learner'.level, learner'.theme)
    BY <1>2, <1>3 DEF SavedPairIsPlayable, Playable
  <2>1. CASE p.kind = "start"
    <3>1. learner'.level = learner.level /\ learner'.theme = learner.theme /\ ~levelAlone
      BY <1>1, <1>2, <2>1, SavedFacts DEF CommitPress
    <3> QED BY <1>1, <3>1 DEF SavedPairIsPlayable
  <2>2. CASE p.kind = "level"
    <3>1. p.level = learner.level /\ ~levelAlone
      BY <2>2 DEF CommitPress
    <3>2. learner'.level = learner.level /\ learner'.theme = learner.theme
      BY <1>1, <1>2, <2>2, <3>1, SavedFacts
    <3> QED BY <1>1, <3>1, <3>2 DEF SavedPairIsPlayable
  <2>3. CASE p.kind \in {"theme", "new", "continue"}
    <3>1. p.seen = learner /\ (p.kind = "continue" => ~round.active)
      BY <1>1 DEF Alone
    <3>2. learner'.level = p.level /\ learner'.theme = p.theme
      BY <1>1, <1>2, <2>3, <3>1, SavedFacts
    <3>3. CASE p.kind = "theme"
      BY <1>1, <3>2, <3>3, ButtonsPlayable DEF PressOK
    <3>4. CASE p.kind # "theme"
      BY <1>2, <2>3, <3>1, <3>2, <3>4 DEF Starts
    <3> QED BY <3>3, <3>4
  <2> QED BY <1>1, <2>1, <2>2, <2>3 DEF PressOK
<1>11. \A q \in presses' : PressOK(q)
  BY <1>2 DEF ProfileInv
<1> QED BY <1>7, <1>8, <1>9, <1>10, <1>11 DEF ProfileInv, PressOK

\* A review session that is started beside a press is an overlap; a round that
\* ends leaves the row alone.
LEMMA RoundStep ==
  ASSUME ProfileInv, EndRound \/ \E c \in missed : StartReviewRound(c)
  PROVE  ProfileInv'
<1>1. ProfileTypeOK /\ LevelStays /\ Alone /\ SavedPairIsPlayable /\ \A p \in presses : PressOK(p)
  BY DEF ProfileInv
<1>2. UNCHANGED <<learner, shown, presses, levelAlone>> /\ (overlapped => overlapped')
  <2>1. CASE EndRound
    BY <2>1 DEF EndRound
  <2>2. ASSUME NEW c \in missed, StartReviewRound(c)
        PROVE  UNCHANGED <<learner, shown, presses, levelAlone>> /\ (overlapped => overlapped')
    BY <2>2 DEF StartReviewRound
  <2> QED BY <2>1, <2>2
<1>3. round' = NoRound
      \/ round' \in [active : {TRUE}, level : Levels, theme : ThemeNames, asked : BOOLEAN]
  <2>1. ASSUME NEW c \in missed, StartReviewRound(c)
        PROVE  round' \in [active : {TRUE}, level : Levels, theme : ThemeNames, asked : BOOLEAN]
    <3>1. c.level \in Levels /\ c.theme \in ThemeNames
      BY <1>1 DEF ProfileTypeOK, Choice
    <3> QED BY <2>1, <3>1 DEF StartReviewRound, RoundOf
  <2> QED BY <2>1 DEF EndRound
<1>4. missed' \subseteq Choice
  <2>1. CASE EndRound
    <3>1. round.level \in Levels
      BY <1>1, <2>1, ProfileTypes DEF EndRound
    <3>2. \A t \in Offered[round.level] : t \in Themes /\ MistakeIn(round.level, t) \in Choice
      BY <3>1, ProfileAssumption DEF MistakeIn, Choice, ThemeNames
    <3> QED BY <1>1, <2>1, <3>2 DEF EndRound, ProfileTypeOK
  <2>2. CASE \E c \in missed : StartReviewRound(c)
    BY <1>1, <2>2 DEF StartReviewRound, ProfileTypeOK
  <2> QED BY <2>1, <2>2
<1>5. overlapped' \in BOOLEAN
  BY <1>1 DEF EndRound, StartReviewRound, ProfileTypeOK
<1>6. ProfileTypeOK'
  BY <1>1, <1>2, <1>3, <1>4, <1>5 DEF ProfileTypeOK
<1>7. LevelStays' /\ SavedPairIsPlayable'
  BY <1>1, <1>2 DEF LevelStays, SavedPairIsPlayable, Playable
<1>8. Alone'
  BY <1>1, <1>2 DEF Alone, EndRound, StartReviewRound, NoRound
<1> QED BY <1>1, <1>2, <1>6, <1>7, <1>8 DEF ProfileInv, PressOK

\* The presses that open a transaction.
LEMMA PressStep ==
  ASSUME ProfileInv,
         \/ Start \/ StartNewRound \/ LoadSaved
         \/ \E l \in Levels : SelectLevel(l) \/ \E t \in Themes : SelectTheme(l, t)
  PROVE  ProfileInv'
<1>1. ProfileTypeOK
  BY DEF ProfileInv
<1>2. CASE Start
  <2>1. LET p == Press("start", NoChoice, NoChoice)
        IN PressOK(p) /\ p.seen = learner /\ p.kind = "start" /\ BeginPress(p)
    BY <1>1, <1>2, PressFacts DEF Start
  <2> QED BY <2>1, BeginStep
<1>3. CASE StartNewRound
  <2>1. round.level \in Levels /\ round.theme \in ThemeNames
    BY <1>1, <1>3, ProfileTypes DEF StartNewRound
  <2>2. LET p == Press("new", round.level, round.theme)
        IN PressOK(p) /\ p.seen = learner /\ p.kind = "new" /\ BeginPress(p)
    BY <1>1, <1>3, <2>1, PressFacts DEF StartNewRound
  <2> QED BY <2>2, BeginStep
<1>4. CASE LoadSaved
  <2>1. learner.level \in Levels /\ learner.theme \in ThemeNames /\ ~round.active
    BY <1>1, <1>4, ProfileTypes DEF LoadSaved, KnownTheme, ThemeNames
  <2>2. LET p == Press("continue", learner.level, learner.theme)
        IN PressOK(p) /\ p.seen = learner /\ BeginPress(p)
    BY <1>1, <1>4, <2>1, PressFacts DEF LoadSaved
  <2> QED BY <2>1, <2>2, BeginStep
<1>5. ASSUME NEW l \in Levels, SelectLevel(l)
      PROVE  ProfileInv'
  <2>1. LET p == Press("level", l, NoChoice)
        IN PressOK(p) /\ p.seen = learner /\ p.kind = "level" /\ BeginPress(p)
    BY <1>1, <1>5, PressFacts DEF SelectLevel
  <2> QED BY <2>1, BeginStep
<1>6. ASSUME NEW l \in Levels, NEW t \in Themes, SelectTheme(l, t)
      PROVE  ProfileInv'
  <2>1. t \in Offered[l] /\ t \in ThemeNames
    BY <1>6 DEF SelectTheme, Buttons, ThemeNames
  <2>2. LET p == Press("theme", l, t)
        IN PressOK(p) /\ p.seen = learner /\ p.kind = "theme" /\ BeginPress(p)
    BY <1>1, <1>6, <2>1, PressFacts DEF SelectTheme
  <2> QED BY <2>2, BeginStep
<1> QED BY <1>2, <1>3, <1>4, <1>5, <1>6

\* Keyboards that lead to one another.
LEMMA MenuStep ==
  ASSUME ProfileInv,
         \/ ChangeLevel \/ ChooseTheme \/ ContinueWithout
         \/ \E l \in Levels, g \in Groups : OpenGroup(l, g)
  PROVE  ProfileInv'
<1>1. ProfileTypeOK /\ (learner.level # NoChoice => learner.level \in Levels)
  BY ProfileTypes DEF ProfileInv
<1>2. OnlyShown
  BY DEF ChangeLevel, ChooseTheme, ContinueWithout, OpenGroup
<1>3. shown' \in Keyboards
  <2>1. CASE ChangeLevel
    BY <1>1, <2>1, KeyboardTypes DEF ChangeLevel
  <2>2. CASE ChooseTheme
    BY <1>1, <2>2, KeyboardTypes DEF ChooseTheme
  <2>3. CASE ContinueWithout
    BY <1>1, <2>3, KeyboardTypes DEF ContinueWithout
  <2>4. ASSUME NEW l \in Levels, NEW g \in Groups, OpenGroup(l, g)
        PROVE  shown' \in Keyboards
    BY <1>1, <2>4, KeyboardTypes DEF OpenGroup
  <2> QED BY <2>1, <2>2, <2>3, <2>4
<1> QED BY <1>2, <1>3, OnlyShownStep

LEMMA ProfileKeeps == ProfileInv /\ [ProfileNext]_profileVars => ProfileInv'
<1> SUFFICES ASSUME ProfileInv, [ProfileNext]_profileVars
             PROVE  ProfileInv'
  OBVIOUS
<1>1. CASE UNCHANGED profileVars
  BY <1>1 DEF profileVars, ProfileInv, ProfileTypeOK, LevelStays, Alone, SavedPairIsPlayable,
              Playable, PressOK
<1>2. CASE ChangeLevel \/ ChooseTheme \/ ContinueWithout
           \/ \E l \in Levels, g \in Groups : OpenGroup(l, g)
  BY <1>2, MenuStep
<1>3. CASE Start \/ StartNewRound \/ LoadSaved
           \/ \E l \in Levels : SelectLevel(l) \/ \E t \in Themes : SelectTheme(l, t)
  BY <1>3, PressStep
<1>4. CASE EndRound \/ \E c \in missed : StartReviewRound(c)
  BY <1>4, RoundStep
<1>5. CASE \E p \in presses : OpenSaved(p) \/ CommitPress(p) \/ FailPress(p)
  BY <1>5, OpenSavedStep, CommitStep, FailPressStep
<1> QED BY <1>1, <1>2, <1>3, <1>4, <1>5 DEF ProfileNext

\* The learner's row, the rounds and the keyboards keep their types.
THEOREM ProfileTypeCorrect == ProfileSpec => []ProfileTypeOK
<1>1. ProfileInv => ProfileTypeOK
  BY DEF ProfileInv
<1> QED BY ProfileInitial, ProfileKeeps, <1>1, PTL DEF ProfileSpec

\* Whatever keyboards the learner still has, a theme is never saved without a
\* level, and the level offers it unless the level was changed after it or two
\* presses overlapped.
THEOREM SavedPairStaysPlayable == ProfileSpec => []SavedPairIsPlayable
<1>1. ProfileInv => SavedPairIsPlayable
  BY DEF ProfileInv
<1> QED BY ProfileInitial, ProfileKeeps, <1>1, PTL DEF ProfileSpec

-----------------------------------------------------------------------------
(* Learning: the scores and the mistakes they rest on. *)

\* The rows are functions and the flag is a truth value.
ScoresInv ==
  /\ topicRaced \in BOOLEAN
  /\ "signals" \in DOMAIN topic
  /\ mistakes = [q \in QuizIds |-> mistakes[q]]
  /\ ScoresSeeEveryMistake

\* No unresolved mistakes, no signals: what the folds give for no rows.
LEMMA NothingSummed ==
  ASSUME NEW rows, Unresolved(rows) = {}
  PROVE  Signals(rows) = NoSignals
<1>1. MapThenSumSet(LAMBDA q : rows[q].count, Unresolved(rows)) = 0
  <2> DEFINE IsIter(g) == g = [s \in SUBSET Unresolved(rows) |->
               IF s = {} THEN 0
               ELSE LET x == CHOOSE x \in s : TRUE IN rows[x].count + g[s \ {x}]]
             h == [s \in SUBSET Unresolved(rows) |-> 0]
  <2>1. IsIter(h)
    OBVIOUS
  <2>2. IsIter(CHOOSE g : IsIter(g))
    <3> HIDE DEF h
    <3> QED BY <2>1
  <2>3. \A g : IsIter(g) => g[Unresolved(rows)] = 0
    OBVIOUS
  <2>4. (CHOOSE g : IsIter(g))[Unresolved(rows)] = 0
    <3> HIDE DEF IsIter
    <3> QED BY <2>2, <2>3
  <2> QED BY <2>4 DEF MapThenSumSet, MapThenFoldSet
<1>2. MapThenSumSet(LAMBDA q : rows[q].count - 1, Unresolved(rows)) = 0
  <2> DEFINE IsIter(g) == g = [s \in SUBSET Unresolved(rows) |->
               IF s = {} THEN 0
               ELSE LET x == CHOOSE x \in s : TRUE IN (rows[x].count - 1) + g[s \ {x}]]
             h == [s \in SUBSET Unresolved(rows) |-> 0]
  <2>1. IsIter(h)
    OBVIOUS
  <2>2. IsIter(CHOOSE g : IsIter(g))
    <3> HIDE DEF h
    <3> QED BY <2>1
  <2>3. \A g : IsIter(g) => g[Unresolved(rows)] = 0
    OBVIOUS
  <2>4. (CHOOSE g : IsIter(g))[Unresolved(rows)] = 0
    <3> HIDE DEF IsIter
    <3> QED BY <2>2, <2>3
  <2> QED BY <2>4 DEF MapThenSumSet, MapThenFoldSet
<1> QED BY <1>1, <1>2 DEF Signals, NoSignals

LEMMA ScoresInit == LearningInit => ScoresInv
<1> SUFFICES ASSUME LearningInit
             PROVE  ScoresInv
  OBVIOUS
<1>1. Unresolved(mistakes) = {}
  BY DEF LearningInit, Unresolved, NoMistake
<1>2. Signals(mistakes) = NoSignals
  BY <1>1, NothingSummed
<1>3. topic.signals = NoSignals /\ "signals" \in DOMAIN topic
  BY DEF LearningInit, NoTopic
<1> QED BY <1>2, <1>3 DEF LearningInit, ScoresInv, ScoresSeeEveryMistake

LEMMA ScoresBatch ==
  ASSUME ScoresInv, NEW job \in jobs, BatchFinish(job)
  PROVE  ScoresInv'
<1>1. mistakes' = WrittenBy(job) /\ topicRaced' = topicRaced
  BY DEF BatchFinish, BatchFinishWith
<1>2. PICK behind : topic' = BatchTopic(topic, job, behind, Signals(WrittenBy(job)))
  BY DEF BatchFinish, BatchFinishWith
<1>3. topic'.signals = Signals(WrittenBy(job)) /\ "signals" \in DOMAIN topic'
  BY <1>2 DEF BatchTopic, Rescored, ScoresInv
<1>4. Signals(WrittenBy(job)) = Signals(mistakes)'
  BY <1>1
<1>5. mistakes' = [q \in QuizIds |-> mistakes'[q]]
  BY <1>1 DEF WrittenBy
<1> QED BY <1>1, <1>3, <1>4, <1>5 DEF ScoresInv, ScoresSeeEveryMistake

\* An answer leaves a row alone or makes a new record of it.
LEMMA AnsweredRow ==
  ASSUME NEW row, NEW answer, NEW day, AfterAnswer(row, answer, day) # row
  PROVE  LET new == AfterAnswer(row, answer, day)
         IN  new = [column \in DOMAIN new |-> new[column]]
<1>1. Wrong(row) = [column \in DOMAIN Wrong(row) |-> Wrong(row)[column]]
  BY DEF Wrong
<1>2. Success(row, day) # row =>
        Success(row, day) = [column \in DOMAIN Success(row, day) |-> Success(row, day)[column]]
  BY DEF Success
<1> QED BY <1>1, <1>2 DEF AfterAnswer

LEMMA ScoresEvent ==
  ASSUME ScoresInv, NEW job \in jobs, EventFinish(job)
  PROVE  ScoresInv'
<1>1. PICK id \in job.ids :
        LET answer == accepted[id]
            q      == answer.quiz
            read   == job.rows[q]
            new    == AfterAnswer(read, answer, today)
            row    == EventTopic(job.topic, answer, id, [job.rows EXCEPT ![q] = new])
        IN /\ mistakes' = [mistakes EXCEPT ![q] =
                IF new = read THEN @ ELSE IF read = NoMistake THEN new ELSE Changed(read, new, @)]
           /\ topic' = [Changed(job.topic, row, topic) EXCEPT !.signals = row.signals,
                !.scores = Changed(job.topic.scores, row.scores, topic.scores)]
           /\ topicRaced' = (topicRaced \/ job.rows # mistakes \/ job.topic # topic)
  BY DEF EventFinish
<1> DEFINE q    == accepted[id].quiz
           read == job.rows[q]
           new  == AfterAnswer(read, accepted[id], today)
           seen == [job.rows EXCEPT ![q] = new]
           row  == EventTopic(job.topic, accepted[id], id, seen)
<1>2. row.signals = Signals(seen) /\ "signals" \in DOMAIN row /\ "scores" \in DOMAIN row
  BY DEF EventTopic
<1>3. topic'.signals = Signals(seen) /\ "signals" \in DOMAIN topic'
  <2> HIDE DEF row, seen
  <2> QED BY <1>1, <1>2 DEF Changed, row, seen
<1>4. mistakes' = [r \in QuizIds |-> mistakes'[r]]
  BY <1>1 DEF ScoresInv
<1>5. topicRaced' \in BOOLEAN
  BY <1>1
<1>6. CASE topicRaced'
  BY <1>3, <1>4, <1>5, <1>6 DEF ScoresInv, ScoresSeeEveryMistake
<1>7. CASE ~topicRaced'
  <2>1. job.rows = mistakes
    BY <1>1, <1>7
  <2> DEFINE value == IF new = read THEN mistakes[q]
                      ELSE IF read = NoMistake THEN new ELSE Changed(read, new, mistakes[q])
  <2>2. mistakes' = [mistakes EXCEPT ![q] = value]
    BY <1>1
  <2>3. value = new
    <3>1. read = mistakes[q]
      BY <2>1
    <3>2. CASE new = read
      BY <3>1, <3>2
    <3>3. CASE new # read
      <4>1. new = [column \in DOMAIN new |-> new[column]]
        BY <3>3, AnsweredRow
      <4>2. Changed(read, new, read) = new
        <5> HIDE DEF new, read
        <5> QED BY <4>1 DEF Changed
      <4> HIDE DEF new, read
      <4> QED BY <3>1, <3>3, <4>2
    <3> QED BY <3>2, <3>3
  <2>4. mistakes' = seen
    <3> HIDE DEF value, new
    <3> QED BY <2>1, <2>2, <2>3
  <2> QED BY <1>3, <1>4, <1>5, <2>4 DEF ScoresInv, ScoresSeeEveryMistake
<1> QED BY <1>6, <1>7

LEMMA ScoresStep == ScoresInv /\ [LearningNext]_learningVars => ScoresInv'
<1> SUFFICES ASSUME ScoresInv, [LearningNext]_learningVars
             PROVE  ScoresInv'
  OBVIOUS
<1>1. CASE UNCHANGED <<mistakes, topic, topicRaced>>
  BY <1>1 DEF ScoresInv, ScoresSeeEveryMistake
<1>2. ASSUME NEW job \in jobs, BatchFinish(job) \/ EventFinish(job)
      PROVE  ScoresInv'
  BY <1>2, ScoresBatch, ScoresEvent
<1>3. \/ \E job \in jobs : BatchFinish(job) \/ EventFinish(job)
      \/ UNCHANGED <<mistakes, topic, topicRaced>>
  BY DEF LearningNext, Accept, NextDay, BatchBegin, EventBegin, Fail, learningVars, learningRaces
<1> QED BY <1>1, <1>2, <1>3

\* The scores of the topic rest on all its unresolved mistakes, those that other
\* transactions wrote included: a batch recalculates them under the lock of the
\* progress row and from the rows it leaves, an event from the rows it read,
\* which are the rows it leaves unless another transaction was faster.
THEOREM ScoresRestOnMistakes == LearningSpec => []ScoresSeeEveryMistake
<1>1. LearningInit => ScoresInv
  BY ScoresInit
<1>2. ScoresInv /\ [LearningNext]_learningVars => ScoresInv'
  BY ScoresStep
<1>3. ScoresInv => ScoresSeeEveryMistake
  BY DEF ScoresInv
<1> QED BY <1>1, <1>2, <1>3, PTL DEF LearningSpec

-----------------------------------------------------------------------------
(* Learning: what replaying the answers of a batch gives. *)

StoredAnswer == [quiz : QuizIds, correct : BOOLEAN, review : BOOLEAN, day : Nat]

\* What Replay folds, for the answers of every subset of a batch.
IsReplay(g, row, ids) ==
  g = [s \in SUBSET ids |->
         IF s = {} THEN row
         ELSE AfterAnswer(g[s \ {Max(s)}], accepted[Max(s)], accepted[Max(s)].day)]

LEMMA LatestAnswer ==
  ASSUME NEW s \in SUBSET Nat, IsFiniteSet(s), s # {}
  PROVE  Max(s) \in s /\ \A y \in s : Max(s) >= y
<1> DEFINE HasNone(t) == t # {} /\ \A x \in t : \E y \in t : y > x
           Bad == {t \in SUBSET s : HasNone(t)}
           R   == StrictSubsetOrdering(s)
<1>1. Bad = {}
  <2> SUFFICES ASSUME Bad # {}
               PROVE  FALSE
    OBVIOUS
  <2>1. PICK t \in Bad : \A r \in Bad : <<r, t>> \notin R
    <3>1. IsWellFoundedOn(R, FiniteSubsetsOf(s))
      BY FS_StrictSubsetOrderingWellFounded
    <3>2. Bad \subseteq FiniteSubsetsOf(s)
      BY FS_Subset DEF FiniteSubsetsOf
    <3> HIDE DEF Bad, R
    <3> QED BY <3>1, <3>2, WFMin
  <2>2. PICK x \in t : TRUE
    OBVIOUS
  <2>3. <<t \ {x}, t>> \in R
    BY DEF StrictSubsetOrdering
  <2>4. t \ {x} \notin Bad
    BY <2>1, <2>3
  <2>5. PICK y \in t : y > x
    OBVIOUS
  <2>6. PICK z \in t \ {x} : \A w \in t \ {x} : ~(w > z)
    BY <2>4, <2>5
  <2>7. PICK v \in t : v > z
    OBVIOUS
  <2> QED BY <2>5, <2>6, <2>7
<1>2. \E x \in s : \A y \in s : x >= y
  BY <1>1
<1> QED BY <1>2 DEF Max

\* The fold is the same on the subsets that two batches share.
LEMMA ReplayUnique ==
  ASSUME NEW row, NEW s \in SUBSET Nat, NEW t \in SUBSET Nat, IsFiniteSet(s), s \subseteq t,
         NEW g, NEW h, IsReplay(g, row, s), IsReplay(h, row, t)
  PROVE  \A u \in SUBSET s : g[u] = h[u]
<1> DEFINE Bad == {u \in SUBSET s : g[u] # h[u]}
           R   == StrictSubsetOrdering(s)
<1> SUFFICES ASSUME Bad # {}
             PROVE  FALSE
  OBVIOUS
<1>1. PICK u \in Bad : \A r \in Bad : <<r, u>> \notin R
  <2>1. IsWellFoundedOn(R, FiniteSubsetsOf(s))
    BY FS_StrictSubsetOrderingWellFounded
  <2>2. Bad \subseteq FiniteSubsetsOf(s)
    BY FS_Subset DEF FiniteSubsetsOf
  <2> HIDE DEF Bad, R
  <2> QED BY <2>1, <2>2, WFMin
<1>2. u # {}
  <2>1. g[{}] = row /\ h[{}] = row
    BY DEF IsReplay
  <2> QED BY <2>1
<1>3. Max(u) \in u
  BY <1>2, FS_Subset, LatestAnswer
<1>4. <<u \ {Max(u)}, u>> \in R
  BY <1>3 DEF StrictSubsetOrdering
<1>5. g[u \ {Max(u)}] = h[u \ {Max(u)}]
  BY <1>1, <1>4
<1>6. /\ g[u] = AfterAnswer(g[u \ {Max(u)}], accepted[Max(u)], accepted[Max(u)].day)
      /\ h[u] = AfterAnswer(h[u \ {Max(u)}], accepted[Max(u)], accepted[Max(u)].day)
  BY <1>2 DEF IsReplay
<1> QED BY <1>5, <1>6

\* The recursion has a solution: the smallest batch without one would have one,
\* put together from the solutions of the smaller ones.
LEMMA ReplayExists ==
  ASSUME NEW row, NEW ids \in SUBSET Nat, IsFiniteSet(ids)
  PROVE  \E g : IsReplay(g, row, ids)
<1> DEFINE Bad == {s \in SUBSET ids : ~\E g : IsReplay(g, row, s)}
           R   == StrictSubsetOrdering(ids)
<1> SUFFICES ASSUME Bad # {}
             PROVE  FALSE
  OBVIOUS
<1>1. PICK s \in Bad : \A r \in Bad : <<r, s>> \notin R
  <2>1. IsWellFoundedOn(R, FiniteSubsetsOf(ids))
    BY FS_StrictSubsetOrderingWellFounded
  <2>2. Bad \subseteq FiniteSubsetsOf(ids)
    BY FS_Subset DEF FiniteSubsetsOf
  <2> HIDE DEF Bad, R
  <2> QED BY <2>1, <2>2, WFMin
<1>2. \A u \in SUBSET s : u # s => \E g : IsReplay(g, row, u)
  <2> TAKE u \in SUBSET s
  <2>1. u # s => <<u, s>> \in R
    BY DEF StrictSubsetOrdering
  <2> QED BY <1>1, <2>1
<1> DEFINE C(u) == CHOOSE g : IsReplay(g, row, u)
           H == [u \in SUBSET s |->
                   IF u = {} THEN row
                   ELSE AfterAnswer(C(u \ {Max(u)})[u \ {Max(u)}],
                                    accepted[Max(u)], accepted[Max(u)].day)]
<1>3. \A u \in SUBSET s : u # s => IsReplay(C(u), row, u)
  BY <1>2
<1>4. \A u \in SUBSET s : IsFiniteSet(u) /\ u \in SUBSET Nat
  BY FS_Subset
<1>5. \A u \in SUBSET s : u # {} => Max(u) \in u
  BY <1>4, LatestAnswer
<1> HIDE DEF C
<1>6. \A v \in SUBSET s : v # s => H[v] = C(v)[v]
  <2> SUFFICES ASSUME NEW v \in SUBSET s, v # s
               PROVE  H[v] = C(v)[v]
    OBVIOUS
  <2>1. IsReplay(C(v), row, v)
    BY <1>3
  <2>2. CASE v = {}
    BY <2>1, <2>2 DEF IsReplay
  <2>3. CASE v # {}
    <3> DEFINE w == v \ {Max(v)}
    <3>1. w \in SUBSET s /\ w # s /\ w \subseteq v
      BY <1>5, <2>3
    <3>2. C(v)[w] = C(w)[w]
      <4>1. IsReplay(C(w), row, w)
        BY <1>3, <3>1
      <4>2. IsFiniteSet(w) /\ w \in SUBSET Nat /\ v \in SUBSET Nat
        BY <1>4, <3>1
      <4> HIDE DEF w
      <4> QED BY <2>1, <3>1, <4>1, <4>2, ReplayUnique
    <3>3. C(v)[v] = AfterAnswer(C(v)[w], accepted[Max(v)], accepted[Max(v)].day)
      BY <2>1, <2>3 DEF IsReplay
    <3>4. H[v] = AfterAnswer(C(w)[w], accepted[Max(v)], accepted[Max(v)].day)
      BY <2>3
    <3> QED BY <3>2, <3>3, <3>4
  <2> QED BY <2>2, <2>3
<1>7. \A u \in SUBSET s : u # {} => H[u \ {Max(u)}] = C(u \ {Max(u)})[u \ {Max(u)}]
  <2> SUFFICES ASSUME NEW u \in SUBSET s, u # {}
               PROVE  H[u \ {Max(u)}] = C(u \ {Max(u)})[u \ {Max(u)}]
    OBVIOUS
  <2>1. u \ {Max(u)} \in SUBSET s /\ u \ {Max(u)} # s
    BY <1>5
  <2> HIDE DEF H
  <2> QED BY <1>6, <2>1
<1>8. IsReplay(H, row, s)
  <2>1. \A u \in SUBSET s : H[u] =
          IF u = {} THEN row
          ELSE AfterAnswer(H[u \ {Max(u)}], accepted[Max(u)], accepted[Max(u)].day)
    BY <1>7
  <2>2. H = [u \in SUBSET s |-> H[u]]
    OBVIOUS
  <2> HIDE DEF H
  <2> QED BY <2>1, <2>2 DEF IsReplay
<1> QED BY <1>1, <1>8

\* Replay is the value of that fold for the whole batch.
LEMMA ReplayFolds ==
  ASSUME NEW row, NEW ids \in SUBSET Nat, IsFiniteSet(ids)
  PROVE  \E g : IsReplay(g, row, ids) /\ Replay(row, ids) = g[ids]
<1> DEFINE g == CHOOSE g : IsReplay(g, row, ids)
<1>1. IsReplay(g, row, ids)
  BY ReplayExists
<1>2. Replay(row, ids) = g[ids]
  BY DEF Replay, MapThenFoldSet, IsReplay
<1> HIDE DEF g
<1> QED BY <1>1, <1>2

-----------------------------------------------------------------------------
(* Learning: the days behind a mistake. *)

\* The days of the review successes among some answers to a quiz.
GoodDays(q, ids) ==
  {accepted[id].day : id \in {i \in ids :
     accepted[i].quiz = q /\ accepted[i].correct /\ accepted[i].review}}

\* A row counts no day and no second day that is not among the days, and is
\* resolved only when it counts as many as are required.
RowBacked(row, days) ==
  /\ row.days >= 1 => row.last \in days
  /\ row.days >= 2 => \E a, b \in days : a # b
  /\ row.status = "resolved" => row.days >= RequiredDays

LEMMA BackedByMore ==
  ASSUME NEW row, NEW days, NEW more, days \subseteq more, RowBacked(row, days)
  PROVE  RowBacked(row, more)
BY DEF RowBacked

LEMMA BackedNoMistake == \A days : RowBacked(NoMistake, days)
BY DEF RowBacked, NoMistake

\* One answer more, whatever the day it is handled on.
LEMMA AnswerTyped ==
  ASSUME NEW row \in MistakeRow, NEW answer \in StoredAnswer, NEW day \in Nat
  PROVE  AfterAnswer(row, answer, day) \in MistakeRow
<1> DEFINE n      == IF row.last = day THEN row.days ELSE row.days + 1
           status == IF row.repeats + 1 >= RequiredRepeats /\ n >= RequiredDays
                     THEN "resolved" ELSE "improved"
<1>1. Wrong(row) \in MistakeRow
  BY DEF Wrong, MistakeRow
<1>2. Success(row, day) \in MistakeRow
  <2>1. CASE row.status \in {"none", "resolved"}
    BY <2>1 DEF Success
  <2>2. CASE row.status \notin {"none", "resolved"}
    <3>1. Success(row, day) = [status |-> status, count |-> row.count,
                               repeats |-> row.repeats + 1, days |-> n, last |-> day]
      BY <2>2 DEF Success, MistakeRow
    <3>2. /\ status \in {"improved", "resolved"} /\ row.count \in Nat
          /\ row.repeats + 1 \in Nat /\ n \in Nat
      BY DEF MistakeRow
    <3> HIDE DEF n, status
    <3> QED BY <3>1, <3>2 DEF MistakeRow
  <2> QED BY <2>1, <2>2
<1> QED BY <1>1, <1>2 DEF AfterAnswer

\* One answer more, handled on the day it was given.
LEMMA AnswerBacked ==
  ASSUME NEW row \in MistakeRow, NEW answer \in StoredAnswer, NEW days,
         RowBacked(row, days), NEW more, days \subseteq more,
         answer.correct /\ answer.review => answer.day \in more
  PROVE  RowBacked(AfterAnswer(row, answer, answer.day), more)
<1>1. CASE ~answer.correct
  BY <1>1 DEF AfterAnswer, Wrong, MistakeRow, RowBacked
<1>2. CASE answer.correct /\ ~answer.review
  BY <1>2, BackedByMore DEF AfterAnswer
<1>3. CASE /\ answer.correct /\ answer.review
           /\ row.status \in {"none", "resolved"}
  BY <1>3, BackedByMore DEF AfterAnswer, Success
<1>4. CASE /\ answer.correct /\ answer.review
           /\ row.status \notin {"none", "resolved"}
  <2> DEFINE d   == answer.day
             n   == IF row.last = d THEN row.days ELSE row.days + 1
             new == AfterAnswer(row, answer, d)
  <2>1. new = [row EXCEPT !.repeats = row.repeats + 1, !.days = n, !.last = d,
                 !.status = IF row.repeats + 1 >= RequiredRepeats /\ n >= RequiredDays
                            THEN "resolved" ELSE "improved"]
    BY <1>4 DEF AfterAnswer, Success
  <2>2. d \in Nat /\ row.days \in Nat /\ row.repeats \in Nat /\ n \in Nat /\ d \in more
    BY <1>4 DEF StoredAnswer, MistakeRow
  <2>3. new.days = n /\ new.last = d /\ (new.status = "resolved" => n >= RequiredDays)
    BY <2>1 DEF MistakeRow
  <2>4. n >= 2 => \E a, b \in more : a # b
    <3>1. CASE row.days >= 2
      BY <3>1 DEF RowBacked
    <3>2. CASE ~(row.days >= 2)
      BY <2>2, <3>2 DEF RowBacked
    <3> QED BY <3>1, <3>2
  <2> HIDE DEF new, n, d
  <2> QED BY <2>2, <2>3, <2>4 DEF RowBacked, d, new
<1> QED BY <1>1, <1>2, <1>3, <1>4

\* A batch, in whatever order: the row is one, and
LEMMA ReplayTyped ==
  ASSUME NEW row \in MistakeRow, NEW ids \in SUBSET Nat, IsFiniteSet(ids),
         \A id \in ids : accepted[id] \in StoredAnswer
  PROVE  Replay(row, ids) \in MistakeRow
<1>1. PICK g : IsReplay(g, row, ids) /\ Replay(row, ids) = g[ids]
  BY ReplayFolds
<1> DEFINE Bad == {s \in SUBSET ids : g[s] \notin MistakeRow}
           R   == StrictSubsetOrdering(ids)
<1> SUFFICES ASSUME Bad # {}
             PROVE  FALSE
  BY <1>1
<1>2. PICK s \in Bad : \A r \in Bad : <<r, s>> \notin R
  <2>1. IsWellFoundedOn(R, FiniteSubsetsOf(ids))
    BY FS_StrictSubsetOrderingWellFounded
  <2>2. Bad \subseteq FiniteSubsetsOf(ids)
    BY FS_Subset DEF FiniteSubsetsOf
  <2> HIDE DEF Bad, R
  <2> QED BY <2>1, <2>2, WFMin
<1>3. CASE s = {}
  BY <1>1, <1>3 DEF IsReplay
<1>4. CASE s # {}
  <2> DEFINE m == Max(s)
  <2>1. m \in s
    BY <1>4, FS_Subset, LatestAnswer
  <2>2. g[s \ {m}] \in MistakeRow
    <3>1. <<s \ {m}, s>> \in R
      BY <2>1 DEF StrictSubsetOrdering
    <3> QED BY <1>2, <3>1
  <2>3. g[s] = AfterAnswer(g[s \ {m}], accepted[m], accepted[m].day)
    BY <1>1, <1>4 DEF IsReplay
  <2>4. accepted[m] \in StoredAnswer /\ accepted[m].day \in Nat
    BY <2>1 DEF StoredAnswer
  <2>5. g[s] \in MistakeRow
    <3> HIDE DEF m
    <3> QED BY <2>2, <2>3, <2>4, AnswerTyped
  <2> QED BY <2>5
<1> QED BY <1>3, <1>4

\* the days of its answers are behind it.
LEMMA ReplayBacked ==
  ASSUME NEW q, NEW row \in MistakeRow, NEW ids \in SUBSET Nat, IsFiniteSet(ids),
         NEW done, RowBacked(row, GoodDays(q, done)),
         \A id \in ids : accepted[id] \in StoredAnswer /\ accepted[id].quiz = q
  PROVE  RowBacked(Replay(row, ids), GoodDays(q, done \cup ids))
<1>1. PICK g : IsReplay(g, row, ids) /\ Replay(row, ids) = g[ids]
  BY ReplayFolds
<1> DEFINE Good(s) == g[s] \in MistakeRow /\ RowBacked(g[s], GoodDays(q, done \cup ids))
           Bad == {s \in SUBSET ids : ~Good(s)}
           R   == StrictSubsetOrdering(ids)
<1> SUFFICES ASSUME Bad # {}
             PROVE  FALSE
  BY <1>1
<1>2. PICK s \in Bad : \A r \in Bad : <<r, s>> \notin R
  <2>1. IsWellFoundedOn(R, FiniteSubsetsOf(ids))
    BY FS_StrictSubsetOrderingWellFounded
  <2>2. Bad \subseteq FiniteSubsetsOf(ids)
    BY FS_Subset DEF FiniteSubsetsOf
  <2> HIDE DEF Bad, R
  <2> QED BY <2>1, <2>2, WFMin
<1>3. GoodDays(q, done) \subseteq GoodDays(q, done \cup ids)
  BY DEF GoodDays
<1>4. CASE s = {}
  <2>1. g[s] = row
    BY <1>1, <1>4 DEF IsReplay
  <2> QED BY <1>3, <2>1, BackedByMore
<1>5. CASE s # {}
  <2> DEFINE m == Max(s)
  <2>1. m \in s
    BY <1>5, FS_Subset, LatestAnswer
  <2>2. Good(s \ {m})
    <3>1. <<s \ {m}, s>> \in R
      BY <2>1 DEF StrictSubsetOrdering
    <3> QED BY <1>2, <3>1
  <2>3. g[s] = AfterAnswer(g[s \ {m}], accepted[m], accepted[m].day)
    BY <1>1, <1>5 DEF IsReplay
  <2>4. accepted[m] \in StoredAnswer /\ accepted[m].day \in Nat
    BY <2>1 DEF StoredAnswer
  <2>5. accepted[m].correct /\ accepted[m].review =>
          accepted[m].day \in GoodDays(q, done \cup ids)
    BY <2>1 DEF GoodDays
  <2>6. Good(s)
    <3> HIDE DEF m
    <3>1. g[s] \in MistakeRow
      BY <2>2, <2>3, <2>4, AnswerTyped
    <3>2. RowBacked(g[s], GoodDays(q, done \cup ids))
      BY <2>2, <2>3, <2>4, <2>5, AnswerBacked
    <3> QED BY <3>1, <3>2
  <2> QED BY <2>6
<1> QED BY <1>4, <1>5

-----------------------------------------------------------------------------
(* Learning: the answers that are settled. *)

\* The number of an answer among some.
Rank(ids, id) == Cardinality({k \in ids : k <= id})

\* Every number names one of the answers, and every answer has a number.
LEMMA NthFacts ==
  ASSUME NEW ids \in SUBSET Nat, IsFiniteSet(ids)
  PROVE  /\ \A i \in 1 .. Cardinality(ids) : Nth(ids, i) \in ids /\ Rank(ids, Nth(ids, i)) = i
         /\ \A id \in ids : Rank(ids, id) \in 1 .. Cardinality(ids) /\ Nth(ids, Rank(ids, id)) = id
<1> DEFINE n == Cardinality(ids)
           UpTo(id) == {k \in ids : k <= id}
           rank == [id \in ids |-> Cardinality(UpTo(id))]
<1>1. n \in Nat
  BY FS_CardinalityType
<1>2. \A id \in ids : IsFiniteSet(UpTo(id)) /\ rank[id] \in 1 .. n
  <2> TAKE id \in ids
  <2>1. UpTo(id) \in SUBSET ids /\ id \in UpTo(id)
    OBVIOUS
  <2>2. IsFiniteSet(UpTo(id)) /\ Cardinality(UpTo(id)) <= n
    <3> HIDE DEF UpTo
    <3> QED BY <2>1, FS_Subset
  <2>3. Cardinality(UpTo(id)) \in Nat /\ Cardinality(UpTo(id)) # 0
    <3> HIDE DEF UpTo
    <3> QED BY <2>1, <2>2, FS_CardinalityType, FS_EmptySet
  <2> QED BY <1>1, <2>2, <2>3
<1>3. \A a, b \in ids : a < b => rank[a] # rank[b]
  <2> SUFFICES ASSUME NEW a \in ids, NEW b \in ids, a < b
               PROVE  rank[a] # rank[b]
    OBVIOUS
  <2>1. UpTo(a) \in SUBSET UpTo(b) /\ IsFiniteSet(UpTo(b))
    <3>1. \A k \in ids : k <= a => k <= b
      OBVIOUS
    <3> QED BY <1>2, <3>1
  <2>3. b \in UpTo(b) /\ b \notin UpTo(a)
    OBVIOUS
  <2>2. Cardinality(UpTo(a)) # Cardinality(UpTo(b))
    <3> HIDE DEF UpTo
    <3> QED BY <2>1, <2>3, FS_Subset
  <2> QED BY <2>2
<1>4. \A a, b \in ids : rank[a] = rank[b] => a = b
  <2> HIDE DEF rank
  <2> QED BY <1>3
<1>5. rank \in Injection(ids, 1 .. n)
  <2>1. rank \in [ids -> 1 .. n]
    BY <1>2
  <2> HIDE DEF rank
  <2> QED BY <1>4, <2>1 DEF Injection, IsInjective
<1>6. IsFiniteSet(1 .. n) /\ Cardinality(1 .. n) = n
  <2>1. 1 \in Int /\ n \in Int
    BY <1>1
  <2> HIDE DEF n
  <2> QED BY <1>1, <2>1, FS_Interval
<1>7. rank \in Surjection(ids, 1 .. n)
  <2>1. Cardinality(ids) = Cardinality(1 .. n)
    BY <1>6
  <2> HIDE DEF rank, n
  <2> QED BY <1>5, <1>6, <2>1, FS_Injection
<1>8. \A i \in 1 .. n : \E id \in ids : rank[id] = i
  <2> HIDE DEF rank
  <2> QED BY <1>7 DEF Surjection
<1>9. \A i : Nth(ids, i) = CHOOSE id \in ids : rank[id] = i
  BY DEF Nth
<1>10. \A i \in 1 .. n : Nth(ids, i) \in ids /\ rank[Nth(ids, i)] = i
  <2> HIDE DEF rank, n
  <2> QED BY <1>8, <1>9
<1>11. \A id \in ids : Nth(ids, rank[id]) = id
  <2> HIDE DEF rank, n
  <2> QED BY <1>2, <1>4, <1>10
<1>12. \A id \in ids : rank[id] = Rank(ids, id)
  BY DEF Rank
<1> HIDE DEF rank, n
<1> QED BY <1>2, <1>10, <1>11, <1>12 DEF n

\* A turn of a history.
Turn == [id : Nat, day : Nat \ {0}]

DaysTypes ==
  /\ accepted \in Seq(StoredAnswer)
  /\ today \in Nat \ {0} /\ \A id \in DOMAIN accepted : accepted[id].day \in 1 .. today
  /\ settled \in [QuizIds -> Seq(Turn)]
  /\ Settled \subseteq DOMAIN accepted
  /\ mistakes \in [QuizIds -> MistakeRow]
  /\ \A j \in jobs : /\ j.ids \subseteq DOMAIN accepted
                     /\ DOMAIN j.rows \subseteq QuizIds
                     /\ \A q \in DOMAIN j.rows : j.rows[q] \in MistakeRow
                     /\ j.kind = "event" => DOMAIN j.rows = QuizIds

\* Behind every row are the answers that are settled, behind a row a transaction
\* holds also the answers it has claimed.
Backed ==
  /\ \A q \in QuizIds \ (mistakeRaces \cup replayed) :
       RowBacked(mistakes[q], GoodDays(q, Settled))
  /\ \A j \in jobs : \A q \in DOMAIN j.rows \ (mistakeRaces \cup replayed) :
       RowBacked(j.rows[q], GoodDays(q, Settled \cup j.ids))

DaysInv == DaysTypes /\ Backed

LEMMA AcceptedFacts ==
  ASSUME DaysTypes
  PROVE  /\ Len(accepted) \in Nat /\ DOMAIN accepted = 1 .. Len(accepted)
         /\ \A id \in DOMAIN accepted : accepted[id] \in StoredAnswer
         /\ \A ids \in SUBSET DOMAIN accepted : IsFiniteSet(ids) /\ ids \in SUBSET Nat
<1>1. /\ Len(accepted) \in Nat /\ DOMAIN accepted = 1 .. Len(accepted)
      /\ \A id \in DOMAIN accepted : accepted[id] \in StoredAnswer
  BY DEF DaysTypes
<1>2. IsFiniteSet(DOMAIN accepted)
  <2>1. 1 \in Int /\ Len(accepted) \in Int
    BY <1>1
  <2> QED BY <1>1, <2>1, FS_Interval
<1> QED BY <1>1, <1>2, FS_Subset

\* The answers a transaction settles join those that are settled.
LEMMA SettledGrows ==
  ASSUME DaysTypes, NEW ids \in SUBSET DOMAIN accepted, NEW d \in [ids -> Nat \ {0}],
         settled' = [q \in QuizIds |->
           settled[q] \o [i \in 1 .. Cardinality(IdsOf(q, ids)) |->
             [id |-> Nth(IdsOf(q, ids), i), day |-> d[Nth(IdsOf(q, ids), i)]]]]
  PROVE  /\ settled' \in [QuizIds -> Seq(Turn)]
         /\ Settled' = Settled \cup ids
<1> DEFINE T(q) == [i \in 1 .. Cardinality(IdsOf(q, ids)) |->
                      [id |-> Nth(IdsOf(q, ids), i), day |-> d[Nth(IdsOf(q, ids), i)]]]
<1>1. \A q \in QuizIds : /\ IdsOf(q, ids) \in SUBSET ids
                         /\ IdsOf(q, ids) \in SUBSET Nat /\ IsFiniteSet(IdsOf(q, ids))
  <2>1. \A q \in QuizIds : IdsOf(q, ids) \in SUBSET ids
    BY DEF IdsOf
  <2> QED BY <2>1, AcceptedFacts
<1>2. \A q \in QuizIds :
        /\ \A i \in 1 .. Cardinality(IdsOf(q, ids)) : Nth(IdsOf(q, ids), i) \in IdsOf(q, ids)
        /\ \A id \in IdsOf(q, ids) :
             \E i \in 1 .. Cardinality(IdsOf(q, ids)) : Nth(IdsOf(q, ids), i) = id
        /\ Cardinality(IdsOf(q, ids)) \in Nat
  BY <1>1, NthFacts, FS_CardinalityType
<1>3. \A q \in QuizIds : T(q) \in Seq(Turn) /\ settled[q] \in Seq(Turn)
  <2> TAKE q \in QuizIds
  <2>1. \A i \in 1 .. Cardinality(IdsOf(q, ids)) : T(q)[i] \in Turn
    BY <1>1, <1>2 DEF Turn
  <2>2. T(q) \in [1 .. Cardinality(IdsOf(q, ids)) -> Turn]
    BY <2>1
  <2>3. T(q) \in Seq(Turn)
    <3> DEFINE n == Cardinality(IdsOf(q, ids))
    <3>1. n \in Nat
      BY <1>2
    <3> HIDE DEF T, n
    <3>2. T(q) \in [1 .. n -> Turn]
      BY <2>2 DEF n
    <3> QED BY <3>1, <3>2, SeqDef
  <2> QED BY <2>3 DEF DaysTypes
<1>4. \A q \in QuizIds : ToSet(T(q)) = {T(q)[i] : i \in 1 .. Cardinality(IdsOf(q, ids))}
  BY DEF ToSet
<1>5. \A q \in QuizIds : {turn.id : turn \in ToSet(T(q))} = IdsOf(q, ids)
  <2> TAKE q \in QuizIds
  <2>1. \A i \in 1 .. Cardinality(IdsOf(q, ids)) : T(q)[i].id = Nth(IdsOf(q, ids), i)
    OBVIOUS
  <2> DEFINE S == {turn.id : turn \in ToSet(T(q))}
             n == Cardinality(IdsOf(q, ids))
  <2> HIDE DEF T
  <2>2. S = {T(q)[i].id : i \in 1 .. n}
    BY <1>4
  <2>3. S = {Nth(IdsOf(q, ids), i) : i \in 1 .. n}
    BY <2>1, <2>2
  <2> HIDE DEF n
  <2>4. S = IdsOf(q, ids)
    <3> HIDE DEF S
    <3>1. \A i \in 1 .. n : Nth(IdsOf(q, ids), i) \in IdsOf(q, ids)
      BY <1>2 DEF n
    <3>2. \A id \in IdsOf(q, ids) : \E i \in 1 .. n : Nth(IdsOf(q, ids), i) = id
      BY <1>2 DEF n
    <3> QED BY <2>3, <3>1, <3>2
  <2> QED BY <2>4
<1>6. \A q \in QuizIds : settled'[q] = settled[q] \o T(q)
  OBVIOUS
<1> HIDE DEF T
<1>7. \A q \in QuizIds :
        settled'[q] \in Seq(Turn) /\ ToSet(settled'[q]) = ToSet(settled[q]) \cup ToSet(T(q))
  <2> TAKE q \in QuizIds
  <2>1. \A s, t \in Seq(Turn) : s \o t \in Seq(Turn) /\ ToSet(s \o t) = ToSet(s) \cup ToSet(t)
    <3> TAKE s, t \in Seq(Turn)
    <3> DEFINE u == s \o t
    <3>1. /\ u \in Seq(Turn) /\ Len(u) = Len(s) + Len(t)
          /\ \A i \in 1 .. Len(s) + Len(t) : u[i] = IF i <= Len(s) THEN s[i] ELSE t[i - Len(s)]
      OBVIOUS
    <3>2. DOMAIN u = 1 .. Len(u) /\ DOMAIN s = 1 .. Len(s) /\ DOMAIN t = 1 .. Len(t)
      BY <3>1
    <3>3. \A i \in DOMAIN s : i \in DOMAIN u /\ u[i] = s[i]
      BY <3>1, <3>2
    <3>4. \A i \in DOMAIN t : i + Len(s) \in DOMAIN u /\ u[i + Len(s)] = t[i]
      BY <3>1, <3>2
    <3>5. \A i \in DOMAIN u : u[i] \in ToSet(s) \cup ToSet(t)
      BY <3>1, <3>2 DEF ToSet
    <3> HIDE DEF u
    <3>6. ToSet(u) = ToSet(s) \cup ToSet(t)
      BY <3>3, <3>4, <3>5 DEF ToSet
    <3> QED BY <3>1, <3>6 DEF u
  <2> QED BY <1>3, <1>6, <2>1
<1>8. settled' \in [QuizIds -> Seq(Turn)]
  BY <1>7
<1>9. UNION {IdsOf(q, ids) : q \in QuizIds} = ids
  <2>1. \A id \in ids : accepted[id].quiz \in QuizIds
    BY AcceptedFacts DEF StoredAnswer
  <2> QED BY <2>1 DEF IdsOf
<1>10. Settled' = UNION {{turn.id : turn \in ToSet(settled'[q])} : q \in QuizIds}
  BY DEF Settled
<1>11. Settled' = Settled \cup UNION {IdsOf(q, ids) : q \in QuizIds}
  <2> DEFINE Old(q) == {turn.id : turn \in ToSet(settled[q])}
             New(q) == {turn.id : turn \in ToSet(settled'[q])}
  <2>1. \A q \in QuizIds : New(q) = Old(q) \cup IdsOf(q, ids)
    BY <1>5, <1>7
  <2>2. Settled' = UNION {New(q) : q \in QuizIds} /\ Settled = UNION {Old(q) : q \in QuizIds}
    BY <1>10 DEF Settled
  <2> HIDE DEF Old, New
  <2>3. \A x : x \in Settled' <=> \E q \in QuizIds : x \in New(q)
    BY <2>2
  <2>4. \A x : x \in Settled <=> \E q \in QuizIds : x \in Old(q)
    BY <2>2
  <2>5. \A x : x \in Settled' <=> x \in Settled \/ \E q \in QuizIds : x \in IdsOf(q, ids)
    BY <2>1, <2>3, <2>4
  <2> QED BY <2>5
<1> QED BY <1>8, <1>9, <1>11

-----------------------------------------------------------------------------
(* Learning: no mistake is resolved in a day. *)

LEMMA DaysInit == LearningInit => DaysInv
<1> SUFFICES ASSUME LearningInit
             PROVE  DaysInv
  OBVIOUS
<1>1. Settled = {}
  BY DEF LearningInit, Settled, ToSet
<1>2. DaysTypes
  <2>1. NoMistake \in MistakeRow
    BY DEF NoMistake, MistakeRow
  <2> QED BY <1>1, <2>1 DEF LearningInit, DaysTypes
<1>3. Backed
  BY BackedNoMistake DEF LearningInit, Backed
<1> QED BY <1>2, <1>3 DEF DaysInv

\* What is settled stays settled, so that the days behind a row only grow.
LEMMA BackedStays ==
  ASSUME DaysInv, Settled \subseteq Settled',
         \A id \in DOMAIN accepted : id \in DOMAIN accepted' /\ accepted'[id] = accepted[id],
         mistakeRaces \subseteq mistakeRaces', replayed \subseteq replayed'
  PROVE  /\ \A q \in QuizIds \ (mistakeRaces' \cup replayed') :
              RowBacked(mistakes[q], GoodDays(q, Settled)')
         /\ \A j \in jobs : \A q \in DOMAIN j.rows \ (mistakeRaces' \cup replayed') :
              RowBacked(j.rows[q], GoodDays(q, Settled \cup j.ids)')
<1>1. \A q : GoodDays(q, Settled) \subseteq GoodDays(q, Settled)'
  BY DEF DaysInv, DaysTypes, GoodDays
<1>2. \A j \in jobs : \A q : GoodDays(q, Settled \cup j.ids) \subseteq GoodDays(q, Settled \cup j.ids)'
  <2> TAKE j \in jobs
  <2>1. Settled \cup j.ids \subseteq DOMAIN accepted
    BY DEF DaysInv, DaysTypes
  <2> QED BY <2>1 DEF GoodDays
<1>3. \A q \in QuizIds \ (mistakeRaces' \cup replayed') : RowBacked(mistakes[q], GoodDays(q, Settled))
  BY DEF DaysInv, Backed
<1>4. \A j \in jobs : \A q \in DOMAIN j.rows \ (mistakeRaces' \cup replayed') :
        RowBacked(j.rows[q], GoodDays(q, Settled \cup j.ids))
  BY DEF DaysInv, Backed
<1>5. \A q \in QuizIds \ (mistakeRaces' \cup replayed') :
        RowBacked(mistakes[q], GoodDays(q, Settled)')
  BY <1>1, <1>3, BackedByMore
<1>6. \A j \in jobs : \A q \in DOMAIN j.rows \ (mistakeRaces' \cup replayed') :
        RowBacked(j.rows[q], GoodDays(q, Settled \cup j.ids)')
  <2> TAKE j \in jobs
  <2> TAKE q \in DOMAIN j.rows \ (mistakeRaces' \cup replayed')
  <2>1. RowBacked(j.rows[q], GoodDays(q, Settled \cup j.ids))
    BY <1>4
  <2>2. GoodDays(q, Settled \cup j.ids) \subseteq GoodDays(q, Settled \cup j.ids)'
    BY <1>2
  <2> QED BY <2>1, <2>2, BackedByMore
<1> QED BY <1>5, <1>6

LEMMA DaysAccept ==
  ASSUME DaysInv, NEW q \in QuizIds, NEW correct \in BOOLEAN, NEW review \in BOOLEAN,
         Accept(q, correct, review)
  PROVE  DaysInv'
<1> DEFINE answer == [quiz |-> q, correct |-> correct, review |-> review, day |-> today]
<1>1. accepted' = Append(accepted, answer)
      /\ UNCHANGED <<settled, today, mistakes, topic, jobs, learningRaces>>
  BY DEF Accept
<1>2. accepted \in Seq(StoredAnswer) /\ answer \in StoredAnswer
  BY DEF DaysInv, DaysTypes, StoredAnswer
<1>3. /\ accepted' \in Seq(StoredAnswer) /\ DOMAIN accepted \subseteq DOMAIN accepted'
      /\ \A id \in DOMAIN accepted : accepted'[id] = accepted[id]
      /\ \A id \in DOMAIN accepted' \ DOMAIN accepted : accepted'[id] = answer
  <2> HIDE DEF answer
  <2> QED BY <1>1, <1>2
<1>4. Settled' = Settled
  BY <1>1 DEF Settled
<1>5. \A id \in DOMAIN accepted' : accepted'[id].day \in 1 .. today
  <2>1. today \in 1 .. today
    BY DEF DaysInv, DaysTypes
  <2> QED BY <1>3, <2>1 DEF DaysInv, DaysTypes
<1>6. DaysTypes'
  BY <1>1, <1>3, <1>4, <1>5 DEF DaysInv, DaysTypes
<1>7. Backed'
  <2>1. /\ Settled \subseteq Settled'
        /\ \A id \in DOMAIN accepted : id \in DOMAIN accepted' /\ accepted'[id] = accepted[id]
        /\ mistakeRaces \subseteq mistakeRaces' /\ replayed \subseteq replayed'
    BY <1>1, <1>3, <1>4 DEF learningRaces
  <2> QED BY <1>1, <2>1, BackedStays DEF Backed
<1> QED BY <1>6, <1>7 DEF DaysInv

LEMMA DaysNextDay ==
  ASSUME DaysInv, NextDay
  PROVE  DaysInv'
<1>1. today' = today + 1 /\ UNCHANGED <<accepted, settled, mistakes, topic, jobs, learningRaces>>
  BY DEF NextDay
<1>2. Settled' = Settled
  BY <1>1 DEF Settled
<1>3. DaysTypes'
  BY <1>1, <1>2 DEF DaysInv, DaysTypes
<1>4. Backed'
  <2>1. \A q, s : GoodDays(q, s)' = GoodDays(q, s)
    BY <1>1 DEF GoodDays
  <2> QED BY <1>1, <1>2, <2>1 DEF DaysInv, Backed, learningRaces
<1> QED BY <1>3, <1>4 DEF DaysInv

LEMMA DaysBatchBegin ==
  ASSUME DaysInv, NEW ids \in SUBSET Outstanding, BatchBegin(ids)
  PROVE  DaysInv'
<1> DEFINE rows == [q \in TouchedBy(ids) |-> Replay(mistakes[q], IdsOf(q, ids))]
           job  == [kind |-> "batch", ids |-> ids, rows |-> rows, topic |-> topic]
<1>1. /\ jobs' = jobs \cup {job}
      /\ UNCHANGED <<accepted, settled, today, mistakes, topic, learningRaces>>
  BY DEF BatchBegin
<1>2. ids \in SUBSET DOMAIN accepted
  BY DEF Outstanding
<1>3. TouchedBy(ids) \subseteq QuizIds
  BY <1>2, AcceptedFacts DEF DaysInv, TouchedBy, Relevant, StoredAnswer
<1>4. Settled' = Settled
  BY <1>1 DEF Settled
<1>5. \A q \in TouchedBy(ids) :
        /\ Replay(mistakes[q], IdsOf(q, ids)) \in MistakeRow
        /\ q \notin mistakeRaces \cup replayed =>
             RowBacked(Replay(mistakes[q], IdsOf(q, ids)), GoodDays(q, Settled \cup ids))
  <2> TAKE q \in TouchedBy(ids)
  <2>1. mistakes[q] \in MistakeRow
    BY <1>3 DEF DaysInv, DaysTypes
  <2>2. IdsOf(q, ids) \in SUBSET Nat /\ IsFiniteSet(IdsOf(q, ids))
    BY <1>2, AcceptedFacts DEF DaysInv, IdsOf
  <2>3. \A id \in IdsOf(q, ids) : accepted[id] \in StoredAnswer /\ accepted[id].quiz = q
    BY <1>2, AcceptedFacts DEF DaysInv, IdsOf
  <2>4. Replay(mistakes[q], IdsOf(q, ids)) \in MistakeRow
    BY <2>1, <2>2, <2>3, ReplayTyped
  <2>5. ASSUME q \notin mistakeRaces \cup replayed
        PROVE  RowBacked(Replay(mistakes[q], IdsOf(q, ids)), GoodDays(q, Settled \cup ids))
    <3>1. RowBacked(mistakes[q], GoodDays(q, Settled))
      BY <1>3, <2>5 DEF DaysInv, Backed
    <3>2. RowBacked(Replay(mistakes[q], IdsOf(q, ids)), GoodDays(q, Settled \cup IdsOf(q, ids)))
      BY <2>1, <2>2, <2>3, <3>1, ReplayBacked
    <3>3. GoodDays(q, Settled \cup IdsOf(q, ids)) \subseteq GoodDays(q, Settled \cup ids)
      BY DEF GoodDays, IdsOf
    <3> QED BY <3>2, <3>3, BackedByMore
  <2> QED BY <2>4, <2>5
<1>6. /\ job.ids = ids /\ job.kind = "batch" /\ job.rows = rows
      /\ DOMAIN job.rows = TouchedBy(ids)
      /\ \A q \in TouchedBy(ids) : job.rows[q] = Replay(mistakes[q], IdsOf(q, ids))
  OBVIOUS
<1> HIDE DEF job, rows
<1>7. DaysTypes'
  <2>1. \A j \in jobs' : /\ j.ids \subseteq DOMAIN accepted
                         /\ DOMAIN j.rows \subseteq QuizIds
                         /\ \A q \in DOMAIN j.rows : j.rows[q] \in MistakeRow
                         /\ j.kind = "event" => DOMAIN j.rows = QuizIds
    BY <1>1, <1>2, <1>3, <1>5, <1>6 DEF DaysInv, DaysTypes
  <2> QED BY <1>1, <1>4, <2>1 DEF DaysInv, DaysTypes
<1>8. Backed'
  <2>1. \A j \in jobs' : \A q \in DOMAIN j.rows \ (mistakeRaces \cup replayed) :
          RowBacked(j.rows[q], GoodDays(q, Settled \cup j.ids))
    BY <1>1, <1>5, <1>6 DEF DaysInv, Backed
  <2>2. \A q, s : GoodDays(q, s)' = GoodDays(q, s)
    BY <1>1 DEF GoodDays
  <2> QED BY <1>1, <1>4, <2>1, <2>2 DEF DaysInv, Backed, learningRaces
<1> QED BY <1>7, <1>8 DEF DaysInv

LEMMA DaysEventBegin ==
  ASSUME DaysInv, NEW id \in Outstanding, EventBegin(id)
  PROVE  DaysInv'
<1> DEFINE job == [kind |-> "event", ids |-> {id}, rows |-> mistakes, topic |-> topic]
<1>1. /\ jobs' = jobs \cup {job}
      /\ UNCHANGED <<accepted, settled, today, mistakes, topic, learningRaces>>
  BY DEF EventBegin
<1>2. id \in DOMAIN accepted
  BY DEF Outstanding
<1>3. Settled' = Settled
  BY <1>1 DEF Settled
<1>4. job.ids = {id} /\ job.rows = mistakes
  OBVIOUS
<1>5. mistakes \in [QuizIds -> MistakeRow]
  BY DEF DaysInv, DaysTypes
<1> HIDE DEF job
<1>6. DaysTypes'
  <2>1. \A j \in jobs' : /\ j.ids \subseteq DOMAIN accepted
                         /\ DOMAIN j.rows \subseteq QuizIds
                         /\ \A q \in DOMAIN j.rows : j.rows[q] \in MistakeRow
                         /\ j.kind = "event" => DOMAIN j.rows = QuizIds
    BY <1>1, <1>2, <1>4, <1>5 DEF DaysInv, DaysTypes
  <2> QED BY <1>1, <1>3, <2>1 DEF DaysInv, DaysTypes
<1>7. Backed'
  <2>1. \A q \in QuizIds \ (mistakeRaces \cup replayed) :
          RowBacked(mistakes[q], GoodDays(q, Settled \cup {id}))
    <3>1. \A q : GoodDays(q, Settled) \subseteq GoodDays(q, Settled \cup {id})
      BY DEF GoodDays
    <3> QED BY <3>1, BackedByMore DEF DaysInv, Backed
  <2>2. \A j \in jobs' : \A q \in DOMAIN j.rows \ (mistakeRaces \cup replayed) :
          RowBacked(j.rows[q], GoodDays(q, Settled \cup j.ids))
    BY <1>1, <1>4, <1>5, <2>1 DEF DaysInv, Backed
  <2>3. \A q, s : GoodDays(q, s)' = GoodDays(q, s)
    BY <1>1 DEF GoodDays
  <2> QED BY <1>1, <1>3, <2>2, <2>3 DEF DaysInv, Backed, learningRaces
<1> QED BY <1>6, <1>7 DEF DaysInv

\* The ORM's update of a row that has changed meanwhile is a row still.
LEMMA ChangedTyped ==
  ASSUME NEW read \in MistakeRow, NEW new \in MistakeRow, NEW row \in MistakeRow
  PROVE  Changed(read, new, row) \in MistakeRow
<1> DEFINE c == Changed(read, new, row)
<1>1. DOMAIN new = {"status", "count", "repeats", "days", "last"}
  BY DEF MistakeRow
<1>2. c = [status |-> c.status, count |-> c.count, repeats |-> c.repeats,
           days |-> c.days, last |-> c.last]
  BY <1>1 DEF Changed
<1>3. /\ c.status \in {new.status, row.status} /\ c.count \in {new.count, row.count}
      /\ c.repeats \in {new.repeats, row.repeats} /\ c.days \in {new.days, row.days}
      /\ c.last \in {new.last, row.last}
  BY <1>1 DEF Changed
<1>4. /\ c.status \in {"none", "new", "repeated", "improved", "resolved"}
      /\ c.count \in Nat /\ c.repeats \in Nat /\ c.days \in Nat /\ c.last \in Nat
  BY <1>3 DEF MistakeRow
<1> HIDE DEF c
<1> QED BY <1>2, <1>4 DEF MistakeRow, c

\* A batch settles its answers with the days they were given on,
LEMMA BatchSettles ==
  ASSUME DaysTypes, NEW job \in jobs, BatchFinish(job)
  PROVE  \E d \in [job.ids -> Nat \ {0}] : settled' = [q \in QuizIds |->
           settled[q] \o [i \in 1 .. Cardinality(IdsOf(q, job.ids)) |->
             [id |-> Nth(IdsOf(q, job.ids), i), day |-> d[Nth(IdsOf(q, job.ids), i)]]]]
<1> DEFINE ids == job.ids
           d == [id \in ids |-> accepted[id].day]
<1>1. ids \in SUBSET DOMAIN accepted
  BY DEF DaysTypes
<1>2. d \in [ids -> Nat \ {0}]
  BY <1>1 DEF DaysTypes
<1>3. \A q \in QuizIds : \A i \in 1 .. Cardinality(IdsOf(q, ids)) : Nth(IdsOf(q, ids), i) \in ids
  <2> TAKE q \in QuizIds
  <2>1. IdsOf(q, ids) \in SUBSET Nat /\ IsFiniteSet(IdsOf(q, ids)) /\ IdsOf(q, ids) \subseteq ids
    BY <1>1, AcceptedFacts DEF IdsOf
  <2> QED BY <2>1, NthFacts
<1>4. settled' = [q \in QuizIds |->
        settled[q] \o [i \in 1 .. Cardinality(IdsOf(q, ids)) |->
          [id |-> Nth(IdsOf(q, ids), i), day |-> accepted[Nth(IdsOf(q, ids), i)].day]]]
  BY DEF BatchFinish, BatchFinishWith, Settle
<1>5. \A q \in QuizIds :
        [i \in 1 .. Cardinality(IdsOf(q, ids)) |->
          [id |-> Nth(IdsOf(q, ids), i), day |-> accepted[Nth(IdsOf(q, ids), i)].day]]
        = [i \in 1 .. Cardinality(IdsOf(q, ids)) |->
          [id |-> Nth(IdsOf(q, ids), i), day |-> d[Nth(IdsOf(q, ids), i)]]]
  BY <1>3
<1> HIDE DEF d
<1> QED BY <1>2, <1>4, <1>5

\* an event settles its answer with the day of now.
LEMMA EventSettles ==
  ASSUME DaysTypes, NEW job \in jobs, EventFinish(job)
  PROVE  \E d \in [job.ids -> Nat \ {0}] : settled' = [q \in QuizIds |->
           settled[q] \o [i \in 1 .. Cardinality(IdsOf(q, job.ids)) |->
             [id |-> Nth(IdsOf(q, job.ids), i), day |-> d[Nth(IdsOf(q, job.ids), i)]]]]
<1> DEFINE ids == job.ids
           d == [id \in ids |-> today]
<1>1. ids \in SUBSET DOMAIN accepted
  BY DEF DaysTypes
<1>2. d \in [ids -> Nat \ {0}]
  BY DEF DaysTypes
<1>3. \A q \in QuizIds : \A i \in 1 .. Cardinality(IdsOf(q, ids)) : Nth(IdsOf(q, ids), i) \in ids
  <2> TAKE q \in QuizIds
  <2>1. IdsOf(q, ids) \in SUBSET Nat /\ IsFiniteSet(IdsOf(q, ids)) /\ IdsOf(q, ids) \subseteq ids
    BY <1>1, AcceptedFacts DEF IdsOf
  <2> QED BY <2>1, NthFacts
<1>4. settled' = [q \in QuizIds |->
        settled[q] \o [i \in 1 .. Cardinality(IdsOf(q, ids)) |->
          [id |-> Nth(IdsOf(q, ids), i), day |-> today]]]
  BY DEF EventFinish, Settle
<1>5. \A q \in QuizIds :
        [i \in 1 .. Cardinality(IdsOf(q, ids)) |->
          [id |-> Nth(IdsOf(q, ids), i), day |-> today]]
        = [i \in 1 .. Cardinality(IdsOf(q, ids)) |->
          [id |-> Nth(IdsOf(q, ids), i), day |-> d[Nth(IdsOf(q, ids), i)]]]
  BY <1>3
<1> HIDE DEF d
<1> QED BY <1>2, <1>4, <1>5

LEMMA DaysBatchFinish ==
  ASSUME DaysInv, NEW job \in jobs, BatchFinish(job)
  PROVE  DaysInv'
<1>1. /\ mistakes' = WrittenBy(job) /\ jobs' = jobs \ {job}
      /\ mistakeRaces \subseteq mistakeRaces' /\ UNCHANGED <<accepted, today, replayed>>
  BY DEF BatchFinish, BatchFinishWith
<1>2. job.ids \in SUBSET DOMAIN accepted
  BY DEF DaysInv, DaysTypes
<1>3. /\ settled' \in [QuizIds -> Seq(Turn)]
      /\ Settled' = Settled \cup job.ids
  BY <1>2, BatchSettles, SettledGrows DEF DaysInv
<1>4. mistakes' \in [QuizIds -> MistakeRow]
  BY <1>1 DEF WrittenBy, DaysInv, DaysTypes
<1>5. DaysTypes'
  BY <1>1, <1>2, <1>3, <1>4 DEF DaysInv, DaysTypes
<1>6. /\ \A q \in QuizIds \ (mistakeRaces' \cup replayed') :
           RowBacked(mistakes[q], GoodDays(q, Settled)')
      /\ \A j \in jobs : \A q \in DOMAIN j.rows \ (mistakeRaces' \cup replayed') :
           RowBacked(j.rows[q], GoodDays(q, Settled \cup j.ids)')
  BY <1>1, <1>3, BackedStays
<1>7. \A q \in DOMAIN job.rows \ (mistakeRaces' \cup replayed') :
        RowBacked(job.rows[q], GoodDays(q, Settled)')
  <2> TAKE q \in DOMAIN job.rows \ (mistakeRaces' \cup replayed')
  <2>1. RowBacked(job.rows[q], GoodDays(q, Settled \cup job.ids)')
    BY <1>6
  <2>2. GoodDays(q, Settled \cup job.ids)' \subseteq GoodDays(q, Settled)'
    BY <1>3 DEF GoodDays
  <2> QED BY <2>1, <2>2, BackedByMore
<1>8. Backed'
  <2>1. \A q \in QuizIds \ (mistakeRaces' \cup replayed') :
          RowBacked(mistakes'[q], GoodDays(q, Settled)')
    <3> TAKE q \in QuizIds \ (mistakeRaces' \cup replayed')
    <3>1. \/ mistakes'[q] = mistakes[q]
          \/ q \in DOMAIN job.rows /\ mistakes'[q] = job.rows[q]
      BY <1>1 DEF WrittenBy
    <3> QED BY <1>6, <1>7, <3>1
  <2> QED BY <1>1, <1>6, <2>1 DEF Backed
<1> QED BY <1>5, <1>8 DEF DaysInv

LEMMA DaysEventFinish ==
  ASSUME DaysInv, NEW job \in jobs, EventFinish(job)
  PROVE  DaysInv'
<1>1. PICK id \in job.ids :
        LET answer == accepted[id]
            r      == answer.quiz
            read   == job.rows[r]
            new    == AfterAnswer(read, answer, today)
        IN /\ mistakes' = [mistakes EXCEPT ![r] =
                IF new = read THEN @ ELSE IF read = NoMistake THEN new ELSE Changed(read, new, @)]
           /\ mistakeRaces' = mistakeRaces \cup (IF read # mistakes[r] THEN {r} ELSE {})
           /\ replayed' = replayed \cup (IF answer.correct /\ answer.day # today THEN {r} ELSE {})
  BY DEF EventFinish
<1> PICK q : q = accepted[id].quiz
  OBVIOUS
<1> DEFINE ids   == job.ids
           read  == job.rows[q]
           new   == AfterAnswer(read, accepted[id], today)
           value == IF new = read THEN mistakes[q]
                    ELSE IF read = NoMistake THEN new ELSE Changed(read, new, mistakes[q])
<1>2. /\ job.kind = "event" /\ jobs' = jobs \ {job} /\ UNCHANGED <<accepted, today>>
      /\ Settle(ids, LAMBDA i : today)
  BY DEF EventFinish
<1>3. ids \in SUBSET DOMAIN accepted /\ id \in DOMAIN accepted /\ DOMAIN job.rows = QuizIds
  BY <1>2 DEF DaysInv, DaysTypes
<1>4. /\ accepted[id] \in StoredAnswer /\ q \in QuizIds
      /\ read \in MistakeRow /\ mistakes[q] \in MistakeRow /\ new \in MistakeRow
  <2>1. accepted[id] \in StoredAnswer /\ q \in QuizIds
    BY <1>3, AcceptedFacts DEF DaysInv, StoredAnswer
  <2>2. read \in MistakeRow /\ mistakes[q] \in MistakeRow /\ today \in Nat
    BY <1>3, <2>1 DEF DaysInv, DaysTypes
  <2>3. new \in MistakeRow
    <3> HIDE DEF read
    <3> QED BY <2>1, <2>2, AnswerTyped
  <2> QED BY <2>1, <2>2, <2>3
<1>5. /\ settled' \in [QuizIds -> Seq(Turn)]
      /\ Settled' = Settled \cup ids
  BY <1>3, EventSettles, SettledGrows DEF DaysInv
<1>6. mistakes' = [mistakes EXCEPT ![q] = value]
  BY <1>1
<1>7. value \in MistakeRow
  <2> HIDE DEF new, read
  <2> QED BY <1>4, ChangedTyped
<1>8. mistakes' \in [QuizIds -> MistakeRow]
  <2> HIDE DEF value
  <2> QED BY <1>6, <1>7 DEF DaysInv, DaysTypes
<1>9. DaysTypes'
  BY <1>2, <1>3, <1>5, <1>8 DEF DaysInv, DaysTypes
<1>10. mistakeRaces \subseteq mistakeRaces' /\ replayed \subseteq replayed'
  BY <1>1
<1>11. /\ \A r \in QuizIds \ (mistakeRaces' \cup replayed') :
            RowBacked(mistakes[r], GoodDays(r, Settled)')
       /\ \A j \in jobs : \A r \in DOMAIN j.rows \ (mistakeRaces' \cup replayed') :
            RowBacked(j.rows[r], GoodDays(r, Settled \cup j.ids)')
  BY <1>2, <1>5, <1>10, BackedStays
<1>12. ASSUME q \notin mistakeRaces' \cup replayed'
       PROVE  RowBacked(value, GoodDays(q, Settled)')
  <2>1. read = mistakes[q]
    BY <1>1, <1>12
  <2>2. accepted[id].correct => accepted[id].day = today
    BY <1>1, <1>12
  <2>3. RowBacked(read, GoodDays(q, Settled)')
    BY <1>4, <1>11, <1>12, <2>1
  <2>4. accepted[id].correct /\ accepted[id].review => accepted[id].day \in GoodDays(q, Settled)'
    BY <1>2, <1>5 DEF GoodDays
  <2>5. RowBacked(new, GoodDays(q, Settled)')
    <3>1. new = AfterAnswer(read, accepted[id], accepted[id].day)
      BY <2>2 DEF AfterAnswer
    <3> HIDE DEF new, read
    <3> QED BY <1>4, <2>3, <2>4, <3>1, AnswerBacked
  <2>6. new # read => value = new
    <3>1. ASSUME new # read
          PROVE  Changed(read, new, read) = new
      <4>1. new = [column \in DOMAIN new |-> new[column]]
        BY <3>1, AnsweredRow
      <4> HIDE DEF new, read
      <4> QED BY <4>1 DEF Changed
    <3> HIDE DEF new, read
    <3> QED BY <2>1, <3>1
  <2>7. new = read => value = read
    BY <2>1
  <2> HIDE DEF value, new, read
  <2> QED BY <2>3, <2>5, <2>6, <2>7
<1>13. Backed'
  <2>1. \A r \in QuizIds \ (mistakeRaces' \cup replayed') :
          RowBacked(mistakes'[r], GoodDays(r, Settled)')
    <3> TAKE r \in QuizIds \ (mistakeRaces' \cup replayed')
    <3>1. CASE r = q
      <4>1. mistakes'[r] = value
        BY <1>6, <3>1 DEF DaysInv, DaysTypes
      <4> HIDE DEF value
      <4> QED BY <1>12, <3>1, <4>1
    <3>2. CASE r # q
      <4>1. mistakes'[r] = mistakes[r]
        BY <1>6, <3>2 DEF DaysInv, DaysTypes
      <4> QED BY <1>11, <4>1
    <3> QED BY <3>1, <3>2
  <2> QED BY <1>2, <1>11, <2>1 DEF Backed
<1> QED BY <1>9, <1>13 DEF DaysInv

LEMMA DaysStep == DaysInv /\ [LearningNext]_learningVars => DaysInv'
<1> SUFFICES ASSUME DaysInv, [LearningNext]_learningVars
             PROVE  DaysInv'
  OBVIOUS
<1>1. ASSUME NEW q \in QuizIds,
             Accept(q, FALSE, FALSE) \/ Accept(q, TRUE, TRUE) \/ Accept(q, TRUE, FALSE)
      PROVE  DaysInv'
  BY <1>1, DaysAccept
<1>2. CASE NextDay
  BY <1>2, DaysNextDay
<1>3. ASSUME NEW ids \in (SUBSET Outstanding) \ {{}}, BatchBegin(ids)
      PROVE  DaysInv'
  BY <1>3, DaysBatchBegin
<1>4. ASSUME NEW id \in Outstanding, EventBegin(id)
      PROVE  DaysInv'
  BY <1>4, DaysEventBegin
<1>5. ASSUME NEW job \in jobs, BatchFinish(job)
      PROVE  DaysInv'
  BY <1>5, DaysBatchFinish
<1>6. ASSUME NEW job \in jobs, EventFinish(job)
      PROVE  DaysInv'
  BY <1>6, DaysEventFinish
<1>7. CASE /\ jobs' \subseteq jobs
           /\ UNCHANGED <<accepted, settled, today, mistakes, learningRaces>>
  <2>1. Settled' = Settled
    BY <1>7 DEF Settled
  <2>2. DaysTypes'
    BY <1>7, <2>1 DEF DaysInv, DaysTypes
  <2>3. Backed'
    <3>1. \A q, s : GoodDays(q, s)' = GoodDays(q, s)
      BY <1>7 DEF GoodDays
    <3> QED BY <1>7, <2>1, <3>1 DEF DaysInv, Backed, learningRaces
  <2> QED BY <2>2, <2>3 DEF DaysInv
<1>8. ASSUME NEW job \in jobs, Fail(job)
      PROVE  DaysInv'
  BY <1>7, <1>8 DEF Fail
<1>9. CASE UNCHANGED learningVars
  BY <1>7, <1>9 DEF learningVars
<1> QED BY <1>1, <1>2, <1>3, <1>4, <1>5, <1>6, <1>8, <1>9 DEF LearningNext

\* A mistake is resolved by review answers given on as many days as are required,
\* two of them in the code, whatever the order in which batches and single events
\* took effect.  With three days required it is not so: an answer that a retry
\* brings in late counts its day once more (record_review_success looks at the
\* day of the last success alone).
THEOREM ResolutionTakesDays ==
  ASSUME RequiredDays <= 2
  PROVE  LearningSpec => []ResolvedOverDays
<1>1. LearningInit => DaysInv
  BY DaysInit
<1>2. DaysInv /\ [LearningNext]_learningVars => DaysInv'
  BY DaysStep
<1>3. DaysInv => ResolvedOverDays
  <2> SUFFICES ASSUME DaysInv, NEW q \in QuizIds \ (mistakeRaces \cup replayed),
                      mistakes[q].status = "resolved"
               PROVE  Cardinality(GoodDays(q, Settled)) >= RequiredDays
    BY DEF ResolvedOverDays, GoodDays
  <2> DEFINE D == GoodDays(q, Settled)
  <2>1. RowBacked(mistakes[q], D) /\ mistakes[q] \in MistakeRow
    BY DEF DaysInv, Backed, DaysTypes
  <2>2. IsFiniteSet(D) /\ Cardinality(D) \in Nat
    <3>1. D \in SUBSET (1 .. today)
      BY DEF DaysInv, DaysTypes, GoodDays
    <3>2. IsFiniteSet(1 .. today)
      <4>1. 1 \in Int /\ today \in Int
        BY DEF DaysInv, DaysTypes
      <4> QED BY <4>1, FS_Interval
    <3> HIDE DEF D
    <3> QED BY <3>1, <3>2, FS_Subset, FS_CardinalityType
  <2>3. RequiredDays \in {1, 2} /\ mistakes[q].days \in Nat /\ mistakes[q].days >= RequiredDays
    BY <2>1, LearningAssumption DEF RowBacked, MistakeRow
  <2> HIDE DEF D
  <2>4. CASE RequiredDays = 1
    <3>1. D # {}
      BY <2>1, <2>3, <2>4 DEF RowBacked
    <3> QED BY <2>2, <2>4, <3>1, FS_EmptySet DEF D
  <2>5. CASE RequiredDays = 2
    <3>1. PICK a, b \in D : a # b
      BY <2>1, <2>3, <2>5 DEF RowBacked
    <3>2. IsFiniteSet({a}) /\ Cardinality({a}) = 1
      BY FS_Singleton
    <3>3. Cardinality({a} \cup {b}) = 2
      <4>1. b \notin {a}
        BY <3>1
      <4>2. b \notin {a} => Cardinality({a} \cup {b}) = Cardinality({a}) + 1
        BY <3>2, FS_AddElement
      <4> QED BY <3>2, <4>1, <4>2
    <3>4. {a} \cup {b} \in SUBSET D
      OBVIOUS
    <3>5. Cardinality({a} \cup {b}) <= Cardinality(D)
      BY <2>2, <3>4, FS_Subset
    <3> QED BY <2>2, <2>5, <3>3, <3>5 DEF D
  <2> QED BY <2>3, <2>4, <2>5
<1> QED BY <1>1, <1>2, <1>3, PTL DEF LearningSpec

-----------------------------------------------------------------------------
(* Learning: what one answer more changes in the account of a history. *)

\* The positions of a history and what is read of them.
LEMMA TurnFacts ==
  ASSUME NEW h \in Seq(Turn)
  PROVE  /\ Len(h) \in Nat /\ DOMAIN h = 1 .. Len(h)
         /\ \A P \in SUBSET DOMAIN h : /\ IsFiniteSet(P) /\ P \in SUBSET Nat
                                       /\ Cardinality(P) \in Nat
                                       /\ P # {} => Max(P) \in P /\ \A y \in P : Max(P) >= y
<1>1. Len(h) \in Nat /\ DOMAIN h = 1 .. Len(h)
  OBVIOUS
<1>2. IsFiniteSet(DOMAIN h)
  <2>1. 1 \in Int /\ Len(h) \in Int
    BY <1>1
  <2> QED BY <1>1, <2>1, FS_Interval
<1>3. \A P \in SUBSET DOMAIN h : IsFiniteSet(P) /\ P \in SUBSET Nat
  BY <1>1, <1>2, FS_Subset
<1>4. ASSUME NEW P \in SUBSET DOMAIN h
      PROVE  /\ Cardinality(P) \in Nat
             /\ P # {} => Max(P) \in P /\ \A y \in P : Max(P) >= y
  BY <1>3, FS_CardinalityType, LatestAnswer
<1> QED BY <1>1, <1>3, <1>4

\* A history and the same history with one turn more.
IsNext(h, e, t) ==
  /\ h \in Seq(Turn) /\ e \in Seq(Turn) /\ t \in Turn
  /\ Len(e) = Len(h) + 1 /\ e[Len(h) + 1] = t
  /\ \A i \in 1 .. Len(h) : e[i] = h[i]

\* Days are counted alike on the positions they share.
LEMMA SameDays ==
  ASSUME NEW h, NEW e, NEW t, IsNext(h, e, t), NEW P \in SUBSET DOMAIN h
  PROVE  NewDays(e, P) = NewDays(h, P) /\ (Enough(e, P) <=> Enough(h, P))
<1>1. DOMAIN h = 1 .. Len(h)
  BY TurnFacts DEF IsNext
<1>2. \A i \in P : Before(P, i) # {} => Max(Before(P, i)) \in DOMAIN h
  <2> TAKE i \in P
  <2>1. Before(P, i) \in SUBSET DOMAIN h
    BY DEF Before
  <2> QED BY <2>1, TurnFacts DEF IsNext
<1>3. NewDays(e, P) = NewDays(h, P)
  BY <1>1, <1>2 DEF NewDays, IsNext
<1> QED BY <1>3 DEF Enough

\* One position more, behind all others, adds a day unless it repeats the last.
AddsTo(h, e, t, P) ==
  LET m == Len(h) + 1
      Q == P \cup {m}
  IN /\ IsFiniteSet(Q) /\ Cardinality(Q) = Cardinality(P) + 1
     /\ Max(Q) = m
     /\ \A i \in Q : Before(Q, i) = IF i = m THEN P ELSE Before(P, i)
     /\ NewDays(h, P) \in SUBSET DOMAIN h
     /\ Cardinality(NewDays(e, Q)) =
          Cardinality(NewDays(h, P)) + (IF P # {} /\ h[Max(P)].day = t.day THEN 0 ELSE 1)

LEMMA OneMoreDay ==
  ASSUME NEW h, NEW e, NEW t, IsNext(h, e, t), NEW P \in SUBSET DOMAIN h
  PROVE  AddsTo(h, e, t, P)
<1> DEFINE m == Len(h) + 1
           Q == P \cup {m}
           same == P # {} /\ h[Max(P)].day = t.day
<1>1. /\ Len(h) \in Nat /\ DOMAIN h = 1 .. Len(h) /\ DOMAIN e = 1 .. m
      /\ IsFiniteSet(P) /\ P \in SUBSET Nat /\ Cardinality(P) \in Nat
      /\ P # {} => Max(P) \in P
  BY TurnFacts DEF IsNext
<1>2. m \notin P /\ m \in Nat /\ \A i \in P : i < m
  BY <1>1
<1>3. IsFiniteSet(Q) /\ Cardinality(Q) = Cardinality(P) + 1
  <2>1. IsFiniteSet(Q) /\ (m \notin P => Cardinality(Q) = Cardinality(P) + 1)
    <3> HIDE DEF m
    <3> QED BY <1>1, FS_AddElement
  <2> QED BY <1>2, <2>1
<1>4. \A i \in Q : Before(Q, i) = IF i = m THEN P ELSE Before(P, i)
  BY <1>2 DEF Before
<1>5. Max(Q) = m
  <2>1. Q \in SUBSET Nat /\ Q # {}
    BY <1>1, <1>2
  <2>2. Max(Q) \in Q /\ \A y \in Q : Max(Q) >= y
    <3> HIDE DEF Q
    <3> QED BY <1>3, <2>1, LatestAnswer
  <2>3. m \in Q /\ Max(Q) \in P \cup {m}
    BY <2>2
  <2>4. Max(Q) >= m
    BY <2>2, <2>3
  <2> HIDE DEF m, Q
  <2> QED BY <1>1, <1>2, <2>3, <2>4
<1>6. NewDays(h, P) \in SUBSET DOMAIN h
  BY DEF NewDays
<1>7. NewDays(e, P) = NewDays(h, P)
  BY SameDays
<1>8. e[m] = t /\ \A i \in P : e[i] = h[i]
  BY <1>1 DEF IsNext
<1>9. m \in NewDays(e, Q) <=> ~same
  <2>1. Before(Q, m) = P
    BY <1>4
  <2> HIDE DEF m, Q
  <2>2. m \in Q
    BY DEF Q
  <2> QED BY <1>1, <1>8, <2>1, <2>2 DEF NewDays
<1>10. \A i \in P : i \in NewDays(e, Q) <=> i \in NewDays(e, P)
  <2>1. \A i \in P : Before(Q, i) = Before(P, i) /\ i \in Q
    BY <1>2, <1>4
  <2> HIDE DEF m, Q
  <2> QED BY <2>1 DEF NewDays
<1>11. NewDays(e, Q) = NewDays(h, P) \cup (IF same THEN {} ELSE {m})
  <2>1. NewDays(e, Q) \subseteq Q /\ NewDays(e, P) \subseteq P
    BY DEF NewDays
  <2> HIDE DEF same, m
  <2> QED BY <1>7, <1>9, <1>10, <2>1
<1>12. Cardinality(NewDays(e, Q)) = Cardinality(NewDays(h, P)) + (IF same THEN 0 ELSE 1)
  <2>1. IsFiniteSet(NewDays(h, P)) /\ Cardinality(NewDays(h, P)) \in Nat
    BY <1>6, TurnFacts DEF IsNext
  <2>2. CASE same
    <3>1. NewDays(e, Q) = NewDays(h, P)
      BY <1>11, <2>2
    <3> HIDE DEF same, Q
    <3> QED BY <2>1, <2>2, <3>1
  <2>3. CASE ~same
    <3>1. m \notin NewDays(h, P)
      BY <1>1, <1>6
    <3>2. m \notin NewDays(h, P) =>
            Cardinality(NewDays(h, P) \cup {m}) = Cardinality(NewDays(h, P)) + 1
      <4> HIDE DEF m
      <4> QED BY <2>1, FS_AddElement
    <3> QED BY <1>11, <2>3, <3>1, <3>2
  <2> QED BY <2>2, <2>3
<1> QED BY <1>3, <1>4, <1>5, <1>6, <1>12 DEF AddsTo

\* The terms of MistakeOf.
Used(h) == {i \in Successes(h) : ~Enough(h, Before(Successes(h), i))}

LEMMA TermsOf ==
  ASSUME NEW h \in Seq(Turn)
  PROVE  /\ Wrongs(h) \in SUBSET DOMAIN h /\ Successes(h) \in SUBSET DOMAIN h
         /\ Used(h) \in SUBSET DOMAIN h
         /\ ~Enough(h, {})
         /\ Wrongs(h) = {} => MistakeOf(h) = NoMistake
         /\ Wrongs(h) # {} => MistakeOf(h) =
              [status |-> IF Enough(h, Successes(h)) THEN "resolved"
                          ELSE IF Successes(h) # {} THEN "improved"
                          ELSE IF Cardinality(Wrongs(h)) = 1 THEN "new" ELSE "repeated",
               count |-> Cardinality(Wrongs(h)), repeats |-> Cardinality(Used(h)),
               days |-> Cardinality(NewDays(h, Used(h))),
               last |-> IF Used(h) = {} THEN 0 ELSE h[Max(Used(h))].day]
<1>1. /\ Wrongs(h) \in SUBSET DOMAIN h /\ Successes(h) \in SUBSET DOMAIN h
      /\ Used(h) \in SUBSET DOMAIN h
  BY DEF Wrongs, Successes, Used
<1>2. ~Enough(h, {})
  BY FS_EmptySet, LearningAssumption DEF Enough
<1> QED BY <1>1, <1>2 DEF MistakeOf, Used

\* A wrong answer.
LEMMA AccountWrong ==
  ASSUME NEW h, NEW e, NEW t, IsNext(h, e, t), ~accepted[t.id].correct
  PROVE  MistakeOf(e) = Wrong(MistakeOf(h))
<1> DEFINE m == Len(h) + 1
<1>1. /\ Len(h) \in Nat /\ DOMAIN h = 1 .. Len(h) /\ DOMAIN e = 1 .. m
      /\ e[m] = t /\ \A i \in DOMAIN h : e[i] = h[i]
  BY TurnFacts DEF IsNext
<1>2. DOMAIN e = DOMAIN h \cup {m} /\ m \notin DOMAIN h /\ \A i \in DOMAIN h : i < m
  BY <1>1
<1>3. Wrongs(e) = Wrongs(h) \cup {m}
  <2> HIDE DEF m
  <2> QED BY <1>1, <1>2 DEF Wrongs
<1>4. Successes(e) = {}
  <2>1. m \in Wrongs(e) /\ \A i \in DOMAIN e : ~(m < i)
    BY <1>1, <1>2, <1>3
  <2> HIDE DEF m
  <2> QED BY <2>1 DEF Successes
<1>5. Used(e) = {} /\ NewDays(e, {}) = {}
  BY <1>4 DEF Used, NewDays
<1>6. /\ IsFiniteSet(Wrongs(h)) /\ Cardinality(Wrongs(h)) \in Nat
      /\ Cardinality(Wrongs(e)) = Cardinality(Wrongs(h)) + 1
  <2>1. IsFiniteSet(Wrongs(h)) /\ Cardinality(Wrongs(h)) \in Nat
    BY TermsOf, TurnFacts DEF IsNext
  <2>2. m \notin Wrongs(h)
    BY <1>2 DEF Wrongs
  <2>3. m \notin Wrongs(h) => Cardinality(Wrongs(h) \cup {m}) = Cardinality(Wrongs(h)) + 1
    <3> HIDE DEF m
    <3> QED BY <2>1, FS_AddElement
  <2> QED BY <1>3, <2>1, <2>2, <2>3
<1>7. Cardinality(Wrongs(h)) = 0 <=> Wrongs(h) = {}
  BY <1>6, FS_EmptySet
<1>8. MistakeOf(e) =
        [status |-> IF Cardinality(Wrongs(e)) = 1 THEN "new" ELSE "repeated",
         count |-> Cardinality(Wrongs(e)), repeats |-> 0, days |-> 0, last |-> 0]
  <2>1. Wrongs(e) # {} /\ e \in Seq(Turn)
    BY <1>3 DEF IsNext
  <2>2. Cardinality({}) = 0
    BY FS_EmptySet
  <2> QED BY <1>4, <1>5, <2>1, <2>2, TermsOf
<1>9. /\ MistakeOf(h).status = "none" <=> Wrongs(h) = {}
      /\ MistakeOf(h).count = Cardinality(Wrongs(h))
  <2>1. CASE Wrongs(h) = {}
    BY <1>7, <2>1, TermsOf DEF IsNext, NoMistake
  <2>2. CASE Wrongs(h) # {}
    BY <2>2, TermsOf DEF IsNext
  <2> QED BY <2>1, <2>2
<1> HIDE DEF m
<1> QED BY <1>6, <1>7, <1>8, <1>9 DEF Wrong

\* An answer that is right, but no success that counts.
LEMMA AccountSame ==
  ASSUME NEW h, NEW e, NEW t, IsNext(h, e, t), accepted[t.id].correct,
         accepted[t.id].review => Wrongs(h) = {}
  PROVE  MistakeOf(e) = MistakeOf(h)
<1> DEFINE m == Len(h) + 1
<1>1. /\ Len(h) \in Nat /\ DOMAIN h = 1 .. Len(h) /\ DOMAIN e = 1 .. m
      /\ e[m] = t /\ \A i \in DOMAIN h : e[i] = h[i]
  BY TurnFacts DEF IsNext
<1>2. DOMAIN e = DOMAIN h \cup {m}
  BY <1>1
<1>3. Wrongs(e) = Wrongs(h)
  <2> HIDE DEF m
  <2> QED BY <1>1, <1>2 DEF Wrongs
<1>4. CASE Wrongs(h) = {}
  BY <1>3, <1>4, TermsOf DEF IsNext
<1>5. CASE Wrongs(h) # {}
  <2>1. Successes(e) = Successes(h)
    <3> HIDE DEF m
    <3> QED BY <1>1, <1>2, <1>3, <1>5 DEF Successes
  <2>2. Successes(h) \in SUBSET DOMAIN h /\ Used(h) \in SUBSET DOMAIN h
    BY TermsOf DEF IsNext
  <2>3. Used(e) = Used(h)
    <3>1. \A i \in Successes(h) : Before(Successes(h), i) \in SUBSET DOMAIN h
      BY <2>2 DEF Before
    <3>2. \A i \in Successes(h) :
            Enough(e, Before(Successes(h), i)) <=> Enough(h, Before(Successes(h), i))
      BY <3>1, SameDays
    <3> QED BY <2>1, <3>2 DEF Used
  <2>4. NewDays(e, Used(h)) = NewDays(h, Used(h)) /\ (Enough(e, Successes(h)) <=> Enough(h, Successes(h)))
    BY <2>2, SameDays
  <2>5. Used(h) # {} => e[Max(Used(h))] = h[Max(Used(h))]
    <3>1. Used(h) # {} => Max(Used(h)) \in DOMAIN h
      BY <2>2, TurnFacts DEF IsNext
    <3> QED BY <1>1, <3>1
  <2> QED BY <1>3, <1>5, <2>1, <2>3, <2>4, <2>5, TermsOf DEF IsNext
<1> QED BY <1>4, <1>5

\* What was enough stays enough.
LEMMA EnoughGrows ==
  ASSUME NEW h \in Seq(Turn), NEW P \in SUBSET DOMAIN h, NEW i \in P,
         Enough(h, Before(P, i))
  PROVE  Enough(h, P)
<1> DEFINE B == Before(P, i)
<1>1. B \in SUBSET P /\ B \in SUBSET DOMAIN h
  BY DEF Before
<1>2. P \in SUBSET Nat
  BY TurnFacts
<1>3. \A k \in B : Before(B, k) = Before(P, k)
  <2>1. \A k \in B : \A j \in P : j < k => j < i
    BY <1>2 DEF Before
  <2> QED BY <2>1 DEF Before
<1>4. NewDays(h, B) \in SUBSET NewDays(h, P)
  <2> HIDE DEF B
  <2> QED BY <1>1, <1>3 DEF NewDays
<1>5. /\ IsFiniteSet(P) /\ Cardinality(P) \in Nat /\ Cardinality(B) \in Nat
      /\ IsFiniteSet(NewDays(h, P)) /\ Cardinality(NewDays(h, P)) \in Nat
      /\ Cardinality(NewDays(h, B)) \in Nat
  <2>1. NewDays(h, P) \in SUBSET DOMAIN h /\ NewDays(h, B) \in SUBSET DOMAIN h
    BY <1>1 DEF NewDays
  <2> HIDE DEF B
  <2> QED BY <1>1, <2>1, TurnFacts
<1>6. Cardinality(B) <= Cardinality(P) /\ Cardinality(NewDays(h, B)) <= Cardinality(NewDays(h, P))
  <2> HIDE DEF B
  <2> QED BY <1>1, <1>4, <1>5, FS_Subset
<1>7. Cardinality(B) >= RequiredRepeats /\ Cardinality(NewDays(h, B)) >= RequiredDays
  BY DEF Enough
<1> HIDE DEF B
<1> QED BY <1>5, <1>6, <1>7, LearningAssumption DEF Enough

\* A review success after a wrong answer.
LEMMA AccountSuccess ==
  ASSUME NEW h, NEW e, NEW t, IsNext(h, e, t), Wrongs(h) # {},
         accepted[t.id].correct, accepted[t.id].review
  PROVE  MistakeOf(e) = Success(MistakeOf(h), t.day)
<1> DEFINE m == Len(h) + 1
           G == Successes(h)
           Q == G \cup {m}
           row == MistakeOf(h)
           d == t.day
           same == G # {} /\ h[Max(G)].day = d
<1>1. /\ Len(h) \in Nat /\ DOMAIN h = 1 .. Len(h) /\ DOMAIN e = 1 .. m
      /\ e[m] = t /\ \A i \in DOMAIN h : e[i] = h[i]
      /\ h \in Seq(Turn) /\ e \in Seq(Turn)
  BY TurnFacts DEF IsNext
<1>2. DOMAIN e = DOMAIN h \cup {m} /\ m \notin DOMAIN h /\ \A i \in DOMAIN h : i < m
  BY <1>1
<1>3. Wrongs(e) = Wrongs(h) /\ Wrongs(h) \in SUBSET DOMAIN h /\ G \in SUBSET DOMAIN h
  <2>1. Wrongs(h) \in SUBSET DOMAIN h /\ G \in SUBSET DOMAIN h
    BY <1>1, TermsOf
  <2>2. Wrongs(e) = Wrongs(h)
    <3> HIDE DEF m, G
    <3> QED BY <1>1, <1>2 DEF Wrongs
  <2> QED BY <2>1, <2>2
<1>4. Successes(e) = Q
  <2>1. \A w \in Wrongs(e) : w < m
    BY <1>2, <1>3
  <2> HIDE DEF m, G
  <2>2. m \in Successes(e)
    BY <1>1, <1>2, <2>1 DEF Successes
  <2>3. \A i \in DOMAIN h : i \in Successes(e) <=> i \in Successes(h)
    BY <1>1, <1>2, <1>3 DEF Successes
  <2>4. Successes(e) \subseteq DOMAIN e /\ Successes(h) \subseteq DOMAIN h
    BY DEF Successes
  <2> QED BY <1>2, <2>2, <2>3, <2>4 DEF G
<1>5. /\ IsFiniteSet(Q) /\ Cardinality(Q) = Cardinality(G) + 1
      /\ Max(Q) = m
      /\ \A i \in Q : Before(Q, i) = IF i = m THEN G ELSE Before(G, i)
      /\ NewDays(h, G) \in SUBSET DOMAIN h
      /\ Cardinality(NewDays(e, Q)) = Cardinality(NewDays(h, G)) + (IF same THEN 0 ELSE 1)
  <2> HIDE DEF G
  <2>1. AddsTo(h, e, t, G)
    BY <1>3, OneMoreDay
  <2> QED BY <2>1 DEF AddsTo
<1>6. /\ Cardinality(G) \in Nat /\ Cardinality(NewDays(h, G)) \in Nat
      /\ Cardinality(Wrongs(h)) \in Nat /\ d \in Nat \ {0}
  <2>1. Cardinality(G) \in Nat /\ Cardinality(NewDays(h, G)) \in Nat /\ Cardinality(Wrongs(h)) \in Nat
    <3> HIDE DEF G
    <3> QED BY <1>1, <1>3, <1>5, TurnFacts
  <2>2. d \in Nat \ {0}
    BY DEF IsNext, Turn
  <2> QED BY <2>1, <2>2
<1>7. \A i \in G : Enough(e, Before(G, i)) <=> Enough(h, Before(G, i))
  <2>1. \A i \in G : Before(G, i) \in SUBSET DOMAIN h
    BY <1>3 DEF Before
  <2> QED BY <2>1, SameDays
<1>8. Enough(e, G) <=> Enough(h, G)
  BY <1>3, SameDays
<1>9. Used(e) = {i \in G : ~Enough(h, Before(G, i))} \cup (IF Enough(h, G) THEN {} ELSE {m})
  <2>1. Used(e) = {i \in Q : ~Enough(e, Before(Q, i))}
    BY <1>4 DEF Used
  <2>2. m \notin G
    BY <1>2, <1>3
  <2>3. \A i \in G : Enough(e, Before(Q, i)) <=> Enough(h, Before(G, i))
    BY <1>5, <1>7, <2>2
  <2>4. Enough(e, Before(Q, m)) <=> Enough(h, G)
    BY <1>5, <1>8
  <2> HIDE DEF G, m
  <2> QED BY <2>1, <2>2, <2>3, <2>4
<1>10. row = [status |-> IF Enough(h, G) THEN "resolved"
                         ELSE IF G # {} THEN "improved"
                         ELSE IF Cardinality(Wrongs(h)) = 1 THEN "new" ELSE "repeated",
              count |-> Cardinality(Wrongs(h)), repeats |-> Cardinality(Used(h)),
              days |-> Cardinality(NewDays(h, Used(h))),
              last |-> IF Used(h) = {} THEN 0 ELSE h[Max(Used(h))].day]
  BY <1>1, TermsOf
<1>11. MistakeOf(e) =
         [status |-> IF Enough(e, Q) THEN "resolved" ELSE "improved",
          count |-> Cardinality(Wrongs(h)), repeats |-> Cardinality(Used(e)),
          days |-> Cardinality(NewDays(e, Used(e))),
          last |-> IF Used(e) = {} THEN 0 ELSE e[Max(Used(e))].day]
  <2>1. Successes(e) # {} /\ Wrongs(e) # {}
    BY <1>3, <1>4
  <2> HIDE DEF Q
  <2> QED BY <1>1, <1>3, <1>4, <2>1, TermsOf
<1>12. CASE Enough(h, G)
  <2>1. Used(e) = Used(h)
    BY <1>9, <1>12 DEF Used
  <2>2. Enough(e, Q)
    <3>1. Cardinality(G) >= RequiredRepeats /\ Cardinality(NewDays(h, G)) >= RequiredDays
      BY <1>12 DEF Enough
    <3>2. Cardinality(Q) >= RequiredRepeats /\ Cardinality(NewDays(e, Q)) >= RequiredDays
      <4> HIDE DEF Q, G, same
      <4> QED BY <1>5, <1>6, <3>1, LearningAssumption
    <3> QED BY <3>2 DEF Enough
  <2>3. Used(h) \in SUBSET DOMAIN h
    BY <1>1, TermsOf
  <2>4. NewDays(e, Used(h)) = NewDays(h, Used(h))
    BY <2>3, SameDays
  <2>5. Used(h) # {} => e[Max(Used(h))] = h[Max(Used(h))]
    <3>1. Used(h) # {} => Max(Used(h)) \in DOMAIN h
      BY <1>1, <2>3, TurnFacts
    <3> QED BY <1>1, <3>1
  <2>6. MistakeOf(e) = row
    <3> HIDE DEF G, Q, row
    <3> QED BY <1>10, <1>11, <1>12, <2>1, <2>2, <2>4, <2>5
  <2>7. row.status = "resolved"
    BY <1>10, <1>12
  <2> HIDE DEF row
  <2> QED BY <2>6, <2>7 DEF Success, row
<1>13. CASE ~Enough(h, G)
  <2>1. Used(h) = G
    <3>1. \A i \in G : ~Enough(h, Before(G, i))
      <4> HIDE DEF G
      <4> QED BY <1>1, <1>3, <1>13, EnoughGrows
    <3> QED BY <3>1 DEF Used
  <2>2. Used(e) = Q
    BY <1>9, <1>13, <2>1 DEF Used
  <2>3. /\ row.status \in {"improved", "new", "repeated"} /\ row.count = Cardinality(Wrongs(h))
        /\ row.repeats = Cardinality(G) /\ row.days = Cardinality(NewDays(h, G))
        /\ row.last = IF G = {} THEN 0 ELSE h[Max(G)].day
        /\ DOMAIN row = {"status", "count", "repeats", "days", "last"}
    <3> HIDE DEF G, row
    <3> QED BY <1>10, <1>13, <2>1
  <2>4. row.last = d <=> same
    BY <1>6, <2>3
  <2>5. Enough(e, Q) <=>
          /\ row.repeats + 1 >= RequiredRepeats
          /\ (IF row.last = d THEN row.days ELSE row.days + 1) >= RequiredDays
    <3> HIDE DEF row, G, Q, same
    <3> QED BY <1>5, <1>6, <2>3, <2>4 DEF Enough
  <2>6. MistakeOf(e) =
          [status |-> IF Enough(e, Q) THEN "resolved" ELSE "improved",
           count |-> row.count, repeats |-> row.repeats + 1,
           days |-> IF row.last = d THEN row.days ELSE row.days + 1, last |-> d]
    <3>1. Q # {} /\ e[Max(Q)].day = d
      BY <1>1, <1>5
    <3>2. Cardinality(NewDays(e, Q)) = IF row.last = d THEN row.days ELSE row.days + 1
      <4> HIDE DEF row, G, Q, same
      <4> QED BY <1>5, <1>6, <2>3, <2>4
    <3> HIDE DEF row, G, Q, same, m
    <3> QED BY <1>5, <1>11, <2>2, <2>3, <3>1, <3>2
  <2>7. Success(row, d) =
          [status |-> IF row.repeats + 1 >= RequiredRepeats
                         /\ (IF row.last = d THEN row.days ELSE row.days + 1) >= RequiredDays
                      THEN "resolved" ELSE "improved",
           count |-> row.count, repeats |-> row.repeats + 1,
           days |-> IF row.last = d THEN row.days ELSE row.days + 1, last |-> d]
    <3>1. row = [status |-> row.status, count |-> row.count, repeats |-> row.repeats,
                 days |-> row.days, last |-> row.last]
      BY <1>10
    <3> HIDE DEF row
    <3> QED BY <2>3, <3>1 DEF Success
  <2> HIDE DEF row, Q
  <2> QED BY <2>5, <2>6, <2>7 DEF row
<1> QED BY <1>12, <1>13

\* What an answer does to a mistake is what it adds to the account.
LEMMA AccountNext ==
  ASSUME NEW h, NEW e, NEW t, IsNext(h, e, t),
         accepted[t.id].correct \in BOOLEAN, accepted[t.id].review \in BOOLEAN
  PROVE  MistakeOf(e) = AfterAnswer(MistakeOf(h), accepted[t.id], t.day)
<1>1. CASE ~accepted[t.id].correct
  BY <1>1, AccountWrong DEF AfterAnswer
<1>2. CASE accepted[t.id].correct /\ ~accepted[t.id].review
  BY <1>2, AccountSame DEF AfterAnswer
<1>3. CASE accepted[t.id].correct /\ accepted[t.id].review /\ Wrongs(h) = {}
  <2>1. MistakeOf(h) = NoMistake
    BY <1>3, TermsOf DEF IsNext
  <2>2. Success(NoMistake, t.day) = NoMistake
    BY DEF Success, NoMistake
  <2>3. MistakeOf(e) = MistakeOf(h)
    BY <1>3, AccountSame
  <2> QED BY <1>3, <2>1, <2>2, <2>3 DEF AfterAnswer
<1>4. CASE accepted[t.id].correct /\ accepted[t.id].review /\ Wrongs(h) # {}
  BY <1>4, AccountSuccess DEF AfterAnswer
<1> QED BY <1>1, <1>2, <1>3, <1>4

-----------------------------------------------------------------------------
(* Learning: the account of a history and the replay of a batch. *)

\* The turns of a batch: its answers as they were given.
GivenOrder(ids) ==
  [i \in 1 .. Cardinality(ids) |->
     [id |-> Nth(ids, i), day |-> accepted[Nth(ids, i)].day]]

LEMMA GivenTurns ==
  ASSUME NEW ids \in SUBSET Nat, IsFiniteSet(ids),
         \A id \in ids : accepted[id].day \in Nat \ {0}
  PROVE  /\ GivenOrder(ids) \in Seq(Turn) /\ Len(GivenOrder(ids)) = Cardinality(ids)
         /\ Cardinality(ids) \in Nat
         /\ \A i \in 1 .. Cardinality(ids) :
              GivenOrder(ids)[i] = [id |-> Nth(ids, i), day |-> accepted[Nth(ids, i)].day]
<1> DEFINE n == Cardinality(ids)
<1>1. n \in Nat
  BY FS_CardinalityType
<1>2. \A i \in 1 .. n :
        /\ GivenOrder(ids)[i] = [id |-> Nth(ids, i), day |-> accepted[Nth(ids, i)].day]
        /\ GivenOrder(ids)[i] \in Turn
  BY NthFacts DEF GivenOrder, Turn
<1>3. DOMAIN GivenOrder(ids) = 1 .. n /\ GivenOrder(ids) = [i \in 1 .. n |-> GivenOrder(ids)[i]]
  BY DEF GivenOrder
<1> HIDE DEF n
<1>4. GivenOrder(ids) \in [1 .. n -> Turn]
  BY <1>2, <1>3
<1>5. GivenOrder(ids) \in Seq(Turn)
  BY <1>1, <1>4, SeqDef
<1>6. Len(GivenOrder(ids)) = n
  BY <1>1, <1>3, <1>5
<1> QED BY <1>1, <1>2, <1>5, <1>6 DEF n

\* Without its latest answer a batch is the batch that was settled before it.
LEMMA LatestIsNext ==
  ASSUME NEW h \in Seq(Turn), NEW ids \in SUBSET Nat, IsFiniteSet(ids), ids # {},
         \A id \in ids : accepted[id].day \in Nat \ {0}
  PROVE  IsNext(h \o GivenOrder(ids \ {Max(ids)}), h \o GivenOrder(ids),
                [id |-> Max(ids), day |-> accepted[Max(ids)].day])
<1> DEFINE m == Max(ids)
           r == ids \ {m}
           a == GivenOrder(r)
           b == GivenOrder(ids)
<1>1. m \in ids /\ \A y \in ids : m >= y
  BY LatestAnswer
<1>2. r \in SUBSET Nat /\ IsFiniteSet(r) /\ \A id \in r : accepted[id].day \in Nat \ {0}
  <2>1. IsFiniteSet(ids \ {m})
    <3> HIDE DEF m
    <3> QED BY FS_RemoveElement
  <2> QED BY <2>1
<1>3. Cardinality(ids) = Cardinality(r) + 1
  <2>1. m \in ids => Cardinality(ids \ {m}) = Cardinality(ids) - 1
    <3> HIDE DEF m
    <3> QED BY FS_RemoveElement
  <2>2. Cardinality(ids) \in Nat
    BY FS_CardinalityType
  <2> QED BY <1>1, <2>1, <2>2
<1>4. /\ a \in Seq(Turn) /\ Len(a) = Cardinality(r) /\ Cardinality(r) \in Nat
      /\ \A i \in 1 .. Cardinality(r) : a[i] = [id |-> Nth(r, i), day |-> accepted[Nth(r, i)].day]
  <2> HIDE DEF r
  <2> QED BY <1>2, GivenTurns
<1>5. /\ b \in Seq(Turn) /\ Len(b) = Cardinality(ids)
      /\ \A i \in 1 .. Cardinality(ids) :
           b[i] = [id |-> Nth(ids, i), day |-> accepted[Nth(ids, i)].day]
  BY GivenTurns
<1>6. Nth(ids, Cardinality(ids)) = m
  <2>1. {k \in ids : k <= m} = ids
    BY <1>1
  <2>2. Rank(ids, m) = Cardinality(ids)
    BY <2>1 DEF Rank
  <2> HIDE DEF m
  <2> QED BY <1>1, <2>2, NthFacts
<1>7. \A i \in 1 .. Cardinality(r) : Nth(ids, i) = Nth(r, i)
  <2> TAKE i \in 1 .. Cardinality(r)
  <2> DEFINE x == Nth(r, i)
  <2>1. x \in r /\ Rank(r, x) = i
    <3> HIDE DEF r
    <3> QED BY <1>2, NthFacts
  <2>2. x \in ids /\ x \in Nat /\ m \in Nat /\ m # x /\ m >= x
    BY <1>1, <2>1
  <2>3. {k \in ids : k <= x} = {k \in r : k <= x}
    <3> HIDE DEF x, m
    <3>1. ~(m <= x)
      BY <2>2
    <3> QED BY <3>1
  <2>4. Rank(ids, x) = i
    BY <2>1, <2>3 DEF Rank
  <2> HIDE DEF x, r
  <2> QED BY <2>2, <2>4, NthFacts DEF x
<1> DEFINE t == [id |-> m, day |-> accepted[m].day]
<1>8. t \in Turn
  BY <1>1 DEF Turn
<1>9. b[Len(a) + 1] = t /\ Len(b) = Len(a) + 1 /\ \A i \in 1 .. Len(a) : b[i] = a[i]
  <2>1. Cardinality(ids) \in 1 .. Cardinality(ids)
    BY <1>3, <1>4
  <2>2. \A i \in 1 .. Cardinality(r) : i \in 1 .. Cardinality(ids)
    BY <1>3, <1>4
  <2> HIDE DEF a, b, r, m
  <2> QED BY <1>3, <1>4, <1>5, <1>6, <1>7, <2>1, <2>2
<1>10. IsNext(h \o a, h \o b, t)
  <2> HIDE DEF a, b, t
  <2>1. /\ Len(h) \in Nat /\ Len(a) \in Nat
        /\ h \o a \in Seq(Turn) /\ Len(h \o a) = Len(h) + Len(a)
        /\ h \o b \in Seq(Turn) /\ Len(h \o b) = Len(h) + Len(b)
    <3>1. a \in Seq(Turn) /\ b \in Seq(Turn)
      BY <1>4, <1>5
    <3> QED BY <3>1
  <2>2. \A i \in 1 .. Len(h) + Len(a) : (h \o a)[i] = IF i <= Len(h) THEN h[i] ELSE a[i - Len(h)]
    BY <1>4
  <2>3. \A i \in 1 .. Len(h) + Len(b) : (h \o b)[i] = IF i <= Len(h) THEN h[i] ELSE b[i - Len(h)]
    BY <1>5
  <2>4. \A i \in 1 .. Len(h) + Len(a) : (h \o b)[i] = (h \o a)[i]
    <3> TAKE i \in 1 .. Len(h) + Len(a)
    <3>1. i \in 1 .. Len(h) + Len(b) /\ (~(i <= Len(h)) => i - Len(h) \in 1 .. Len(a))
      BY <1>9, <2>1
    <3> QED BY <1>9, <2>2, <2>3, <3>1
  <2>5. (h \o b)[Len(h) + Len(a) + 1] = t
    <3>1. Len(h) + Len(a) + 1 \in 1 .. Len(h) + Len(b) /\ ~(Len(h) + Len(a) + 1 <= Len(h))
          /\ Len(h) + Len(a) + 1 - Len(h) = Len(a) + 1
      BY <1>9, <2>1
    <3> QED BY <1>9, <2>3, <3>1
  <2> QED BY <1>8, <1>9, <2>1, <2>4, <2>5 DEF IsNext
<1> QED BY <1>10

\* A history continued by a batch accounts for what the batch makes of the row.
LEMMA ReplayAccounts ==
  ASSUME NEW h \in Seq(Turn), NEW ids \in SUBSET Nat, IsFiniteSet(ids),
         \A id \in ids : accepted[id] \in StoredAnswer /\ accepted[id].day # 0
  PROVE  MistakeOf(h \o GivenOrder(ids)) = Replay(MistakeOf(h), ids)
<1>1. PICK g : IsReplay(g, MistakeOf(h), ids) /\ Replay(MistakeOf(h), ids) = g[ids]
  BY ReplayFolds
<1> DEFINE Bad == {s \in SUBSET ids : MistakeOf(h \o GivenOrder(s)) # g[s]}
           R   == StrictSubsetOrdering(ids)
<1> SUFFICES ASSUME Bad # {}
             PROVE  FALSE
  BY <1>1
<1>2. PICK s \in Bad : \A r \in Bad : <<r, s>> \notin R
  <2>1. IsWellFoundedOn(R, FiniteSubsetsOf(ids))
    BY FS_StrictSubsetOrderingWellFounded
  <2>2. Bad \subseteq FiniteSubsetsOf(ids)
    BY FS_Subset DEF FiniteSubsetsOf
  <2> HIDE DEF Bad, R
  <2> QED BY <2>1, <2>2, WFMin
<1>3. s \in SUBSET Nat /\ IsFiniteSet(s)
  BY FS_Subset
<1>4. CASE s = {}
  <2>1. GivenOrder({}) = <<>>
    <3>1. GivenOrder({}) \in Seq(Turn) /\ Len(GivenOrder({})) = 0
      BY GivenTurns, FS_EmptySet
    <3> QED BY <3>1
  <2>2. h \o <<>> = h
    BY ConcatEmptySeq
  <2>3. g[{}] = MistakeOf(h)
    BY <1>1 DEF IsReplay
  <2> QED BY <1>4, <2>1, <2>2, <2>3
<1>5. CASE s # {}
  <2> DEFINE m == Max(s)
             t == [id |-> m, day |-> accepted[m].day]
  <2>1. m \in s
    BY <1>3, <1>5, LatestAnswer
  <2>2. IsNext(h \o GivenOrder(s \ {m}), h \o GivenOrder(s), t)
    <3>1. \A id \in s : accepted[id].day \in Nat \ {0}
      BY DEF StoredAnswer
    <3> QED BY <1>3, <1>5, <3>1, LatestIsNext
  <2>3. accepted[m].correct \in BOOLEAN /\ accepted[m].review \in BOOLEAN
    BY <2>1 DEF StoredAnswer
  <2>4. MistakeOf(h \o GivenOrder(s)) =
          AfterAnswer(MistakeOf(h \o GivenOrder(s \ {m})), accepted[m], accepted[m].day)
    <3>1. t.id = m /\ t.day = accepted[m].day
      OBVIOUS
    <3> HIDE DEF t, m
    <3> QED BY <2>2, <2>3, <3>1, AccountNext
  <2>5. g[s] = AfterAnswer(g[s \ {m}], accepted[m], accepted[m].day)
    BY <1>1, <1>5 DEF IsReplay
  <2>6. MistakeOf(h \o GivenOrder(s \ {m})) = g[s \ {m}]
    <3>1. <<s \ {m}, s>> \in R /\ s \ {m} \in SUBSET ids
      BY <2>1 DEF StrictSubsetOrdering
    <3> QED BY <1>2, <3>1
  <2> HIDE DEF m
  <2> QED BY <2>4, <2>5, <2>6
<1> QED BY <1>4, <1>5

\* Answers that change nothing one by one change nothing together.
LEMMA ReplaySame ==
  ASSUME NEW row, NEW ids \in SUBSET Nat, IsFiniteSet(ids),
         \A id \in ids : AfterAnswer(row, accepted[id], accepted[id].day) = row
  PROVE  Replay(row, ids) = row
<1>1. PICK g : IsReplay(g, row, ids) /\ Replay(row, ids) = g[ids]
  BY ReplayFolds
<1> DEFINE Bad == {s \in SUBSET ids : g[s] # row}
           R   == StrictSubsetOrdering(ids)
<1> SUFFICES ASSUME Bad # {}
             PROVE  FALSE
  BY <1>1
<1>2. PICK s \in Bad : \A r \in Bad : <<r, s>> \notin R
  <2>1. IsWellFoundedOn(R, FiniteSubsetsOf(ids))
    BY FS_StrictSubsetOrderingWellFounded
  <2>2. Bad \subseteq FiniteSubsetsOf(ids)
    BY FS_Subset DEF FiniteSubsetsOf
  <2> HIDE DEF Bad, R
  <2> QED BY <2>1, <2>2, WFMin
<1>3. CASE s = {}
  BY <1>1, <1>3 DEF IsReplay
<1>4. CASE s # {}
  <2> DEFINE m == Max(s)
  <2>1. m \in s
    BY <1>4, FS_Subset, LatestAnswer
  <2>2. g[s] = AfterAnswer(g[s \ {m}], accepted[m], accepted[m].day)
    BY <1>1, <1>4 DEF IsReplay
  <2>3. g[s \ {m}] = row
    <3>1. <<s \ {m}, s>> \in R /\ s \ {m} \in SUBSET ids
      BY <2>1 DEF StrictSubsetOrdering
    <3> QED BY <1>2, <3>1
  <2> HIDE DEF m
  <2> QED BY <2>1, <2>2, <2>3
<1> QED BY <1>3, <1>4

\* A wrong answer leaves its mark: the count.
LEMMA ReplayCounts ==
  ASSUME NEW row \in MistakeRow, NEW ids \in SUBSET Nat, IsFiniteSet(ids),
         \A id \in ids : accepted[id] \in StoredAnswer,
         Replay(row, ids).count = 0
  PROVE  row.count = 0 /\ \A id \in ids : accepted[id].correct
<1>1. PICK g : IsReplay(g, row, ids) /\ Replay(row, ids) = g[ids]
  BY ReplayFolds
<1> DEFINE Good(s) == /\ g[s] \in MistakeRow
                      /\ g[s].count = 0 => row.count = 0 /\ \A id \in s : accepted[id].correct
           Bad == {s \in SUBSET ids : ~Good(s)}
           R   == StrictSubsetOrdering(ids)
<1> SUFFICES ASSUME Bad # {}
             PROVE  FALSE
  BY <1>1
<1>2. PICK s \in Bad : \A r \in Bad : <<r, s>> \notin R
  <2>1. IsWellFoundedOn(R, FiniteSubsetsOf(ids))
    BY FS_StrictSubsetOrderingWellFounded
  <2>2. Bad \subseteq FiniteSubsetsOf(ids)
    BY FS_Subset DEF FiniteSubsetsOf
  <2> HIDE DEF Bad, R
  <2> QED BY <2>1, <2>2, WFMin
<1>3. CASE s = {}
  BY <1>1, <1>3 DEF IsReplay
<1>4. CASE s # {}
  <2> DEFINE m == Max(s)
             new == AfterAnswer(g[s \ {m}], accepted[m], accepted[m].day)
  <2>1. m \in s
    BY <1>4, FS_Subset, LatestAnswer
  <2>2. g[s] = new
    BY <1>1, <1>4 DEF IsReplay
  <2>3. Good(s \ {m})
    <3>1. <<s \ {m}, s>> \in R /\ s \ {m} \in SUBSET ids
      BY <2>1 DEF StrictSubsetOrdering
    <3> QED BY <1>2, <3>1
  <2>4. accepted[m] \in StoredAnswer /\ accepted[m].day \in Nat
    BY <2>1 DEF StoredAnswer
  <2>5. new \in MistakeRow
    <3> HIDE DEF m
    <3> QED BY <2>3, <2>4, AnswerTyped
  <2>6. new.count = 0 => accepted[m].correct /\ g[s \ {m}].count = 0
    <3> DEFINE old == g[s \ {m}]
    <3>1. old.count \in Nat /\ "count" \in DOMAIN old
      BY <2>3 DEF MistakeRow
    <3>2. Wrong(old).count = old.count + 1
      BY DEF Wrong
    <3>3. Success(old, accepted[m].day).count = old.count
      BY <2>3 DEF Success, MistakeRow
    <3> HIDE DEF old, m
    <3> QED BY <3>1, <3>2, <3>3 DEF AfterAnswer, old
  <2> HIDE DEF m, new
  <2> QED BY <2>1, <2>2, <2>3, <2>5, <2>6
<1> QED BY <1>3, <1>4

-----------------------------------------------------------------------------
(* Learning: a mistake is what the settled answers say. *)

\* A batch has changed a row and not yet committed it.
Holds(j, q) == j.kind = "batch" /\ q \in DOMAIN j.rows /\ j.rows[q] # NoMistake

\* What a batch makes of a row is what its answers make of the row of now.
Claims(j) ==
  \A q \in QuizIds :
    IF q \notin DOMAIN j.rows
    THEN \A id \in IdsOf(q, j.ids) : accepted[id].correct /\ ~accepted[id].review
    ELSE IF j.rows[q] = NoMistake THEN \A id \in IdsOf(q, j.ids) : accepted[id].correct
    ELSE j.rows[q] = Replay(mistakes[q], IdsOf(q, j.ids))

AccountInv ==
  /\ MistakeMatchesAnswers
  /\ \A j \in jobs : /\ j.kind = "event" => \E id \in j.ids : j.ids = {id}
                     /\ j.kind = "batch" => Claims(j)
  /\ \A i, j \in jobs : \A q \in QuizIds : Holds(i, q) /\ Holds(j, q) => i = j

LEMMA SettledTurns ==
  ASSUME DaysTypes, NEW q \in QuizIds
  PROVE  settled[q] \in Seq(Turn) /\ \A i \in DOMAIN settled[q] : settled[q][i].id \in DOMAIN accepted
<1>1. settled[q] \in Seq(Turn)
  BY DEF DaysTypes
<1>2. \A i \in DOMAIN settled[q] : settled[q][i] \in ToSet(settled[q])
  BY DEF ToSet
<1>3. \A turn \in ToSet(settled[q]) : turn.id \in Settled
  BY DEF Settled
<1> QED BY <1>1, <1>2, <1>3 DEF DaysTypes

\* An answer once given stays as it is, and with it what a history says.
LEMMA AccountKept ==
  ASSUME NEW h, \A i \in DOMAIN h : accepted'[h[i].id] = accepted[h[i].id]
  PROVE  MistakeOf(h)' = MistakeOf(h)
<1>1. Wrongs(h)' = Wrongs(h)
  BY DEF Wrongs
<1>2. Successes(h)' = Successes(h)
  BY <1>1 DEF Successes
<1> QED BY <1>1, <1>2 DEF MistakeOf

LEMMA ReplayFoldsNow ==
  \A row : \A ids \in SUBSET Nat : IsFiniteSet(ids) =>
    \E g : IsReplay(g, row, ids) /\ Replay(row, ids) = g[ids]
BY ReplayFolds

LEMMA ReplayFoldsNext ==
  (\A row : \A ids \in SUBSET Nat : IsFiniteSet(ids) =>
     \E g : IsReplay(g, row, ids) /\ Replay(row, ids) = g[ids])'
BY ReplayFoldsNow, PTL

\* And with it what a batch makes of a row.
LEMMA ReplayKept ==
  ASSUME NEW row, NEW ids \in SUBSET Nat, IsFiniteSet(ids),
         \A id \in ids : accepted'[id] = accepted[id]
  PROVE  Replay(row, ids)' = Replay(row, ids)
<1>1. PICK g : IsReplay(g, row, ids) /\ Replay(row, ids) = g[ids]
  BY ReplayFolds
<1>2. PICK h : IsReplay(h, row, ids)' /\ Replay(row, ids)' = h[ids]
  BY ReplayFoldsNext
<1>3. \A s \in SUBSET ids : s # {} => accepted'[Max(s)] = accepted[Max(s)]
  <2> TAKE s \in SUBSET ids
  <2>1. s \in SUBSET Nat /\ IsFiniteSet(s)
    BY FS_Subset
  <2>2. s # {} => Max(s) \in s
    BY <2>1, LatestAnswer
  <2> QED BY <2>2
<1>4. IsReplay(h, row, ids)
  BY <1>2, <1>3 DEF IsReplay
<1>5. g[ids] = h[ids]
  BY <1>1, <1>4, ReplayUnique
<1> QED BY <1>1, <1>2, <1>5

\* A claim holds as long as the rows it rests on stay.
LEMMA ClaimsKept ==
  ASSUME DaysTypes, NEW j, j.ids \in SUBSET DOMAIN accepted, Claims(j),
         \A id \in DOMAIN accepted : accepted'[id] = accepted[id],
         \A q \in QuizIds : q \in DOMAIN j.rows /\ j.rows[q] # NoMistake => mistakes'[q] = mistakes[q]
  PROVE  Claims(j)'
<1> SUFFICES ASSUME NEW q \in QuizIds
             PROVE  (IF q \notin DOMAIN j.rows
                     THEN \A id \in IdsOf(q, j.ids) : accepted[id].correct /\ ~accepted[id].review
                     ELSE IF j.rows[q] = NoMistake THEN \A id \in IdsOf(q, j.ids) : accepted[id].correct
                     ELSE j.rows[q] = Replay(mistakes[q], IdsOf(q, j.ids)))'
  BY DEF Claims
<1> PICK ids : ids = IdsOf(q, j.ids)
  OBVIOUS
<1>2. IdsOf(q, j.ids)' = ids
  BY DEF IdsOf
<1>3. ids \in SUBSET DOMAIN accepted /\ ids \in SUBSET Nat /\ IsFiniteSet(ids)
  <2>1. ids \in SUBSET DOMAIN accepted
    BY DEF IdsOf
  <2> QED BY <2>1, AcceptedFacts
<1>4. CASE q \notin DOMAIN j.rows
  BY <1>2, <1>3, <1>4 DEF Claims
<1>5. CASE q \in DOMAIN j.rows /\ j.rows[q] = NoMistake
  BY <1>2, <1>3, <1>5 DEF Claims
<1>6. CASE q \in DOMAIN j.rows /\ j.rows[q] # NoMistake
  <2> PICK row : row = mistakes[q]
    OBVIOUS
  <2>1. mistakes'[q] = row
    BY <1>6
  <2>2. j.rows[q] = Replay(row, ids)
    BY <1>6 DEF Claims
  <2>3. Replay(row, ids)' = Replay(row, ids)
    BY <1>3, ReplayKept
  <2>4. Replay(mistakes[q], IdsOf(q, j.ids))' = Replay(row, ids)'
    BY <1>2, <2>1 DEF Replay
  <2> QED BY <1>6, <2>2, <2>3, <2>4
<1> QED BY <1>4, <1>5, <1>6

LEMMA AccountInit == LearningInit => AccountInv
<1> SUFFICES ASSUME LearningInit
             PROVE  AccountInv
  OBVIOUS
<1>1. <<>> \in Seq(Turn) /\ Wrongs(<<>>) = {}
  BY DEF Wrongs
<1>2. MistakeOf(<<>>) = NoMistake
  BY <1>1, TermsOf
<1> QED BY <1>2 DEF LearningInit, AccountInv, MistakeMatchesAnswers

\* Nothing is settled: the account and the claims stay.
LEMMA AccountStays ==
  ASSUME DaysTypes, AccountInv, \A id \in DOMAIN accepted : accepted'[id] = accepted[id],
         UNCHANGED <<settled, mistakes, mistakeRaces>>
  PROVE  /\ MistakeMatchesAnswers'
         /\ \A j \in jobs : j.kind = "batch" => Claims(j)'
<1>1. MistakeMatchesAnswers'
  <2> SUFFICES ASSUME NEW q \in QuizIds \ mistakeRaces
               PROVE  mistakes[q] = MistakeOf(settled[q])'
    BY DEF MistakeMatchesAnswers
  <2> PICK h : h = settled[q]
    OBVIOUS
  <2>1. MistakeOf(h)' = MistakeOf(h)
    BY SettledTurns, AccountKept
  <2>2. MistakeOf(settled[q])' = MistakeOf(h)'
    BY DEF MistakeOf, Wrongs, Successes, NewDays, Enough
  <2> QED BY <2>1, <2>2 DEF AccountInv, MistakeMatchesAnswers
<1>2. ASSUME NEW j \in jobs, j.kind = "batch"
      PROVE  Claims(j)'
  <2>1. j.ids \in SUBSET DOMAIN accepted
    BY DEF DaysTypes
  <2> QED BY <1>2, <2>1, ClaimsKept DEF AccountInv
<1> QED BY <1>1, <1>2

LEMMA AccountFrame ==
  ASSUME DaysTypes, AccountInv, \A id \in DOMAIN accepted : accepted'[id] = accepted[id],
         UNCHANGED <<settled, mistakes, mistakeRaces>>, jobs' \subseteq jobs
  PROVE  AccountInv'
<1>1. /\ MistakeMatchesAnswers'
      /\ \A j \in jobs : j.kind = "batch" => Claims(j)'
  BY AccountStays
<1>2. \A i, j \in jobs' : \A q \in QuizIds : Holds(i, q) /\ Holds(j, q) => i = j
  BY DEF AccountInv
<1> QED BY <1>1, <1>2 DEF AccountInv, Holds

LEMMA AccountBatchBegin ==
  ASSUME DaysTypes, AccountInv, NEW ids \in SUBSET Outstanding, BatchBegin(ids)
  PROVE  AccountInv'
<1> DEFINE rows == [q \in TouchedBy(ids) |-> Replay(mistakes[q], IdsOf(q, ids))]
<1> PICK job : job = [kind |-> "batch", ids |-> ids, rows |-> rows, topic |-> topic]
  OBVIOUS
<1>1. /\ jobs' = jobs \cup {job}
      /\ \A q \in TouchedBy(ids) \cap Locked : rows[q] = NoMistake
      /\ UNCHANGED <<accepted, settled, today, mistakes, topic, learningRaces>>
  BY DEF BatchBegin
<1>2. ids \in SUBSET DOMAIN accepted
  BY DEF Outstanding
<1>3. /\ job.ids = ids /\ job.kind = "batch" /\ DOMAIN job.rows = TouchedBy(ids)
      /\ \A q \in TouchedBy(ids) : job.rows[q] = Replay(mistakes[q], IdsOf(q, ids))
      /\ job.rows = rows
  OBVIOUS
<1> HIDE DEF rows
<1>4. Claims(job)
  <2> SUFFICES ASSUME NEW q \in QuizIds
               PROVE  IF q \notin TouchedBy(ids)
                      THEN \A id \in IdsOf(q, ids) : accepted[id].correct /\ ~accepted[id].review
                      ELSE IF job.rows[q] = NoMistake
                           THEN \A id \in IdsOf(q, ids) : accepted[id].correct
                      ELSE job.rows[q] = Replay(mistakes[q], IdsOf(q, ids))
    BY <1>3 DEF Claims
  <2>1. q \notin TouchedBy(ids) =>
          \A id \in IdsOf(q, ids) : accepted[id].correct /\ ~accepted[id].review
    BY DEF TouchedBy, Relevant, IdsOf
  <2>2. ASSUME q \in TouchedBy(ids), job.rows[q] = NoMistake
        PROVE  \A id \in IdsOf(q, ids) : accepted[id].correct
    <3>1. /\ IdsOf(q, ids) \in SUBSET Nat /\ IsFiniteSet(IdsOf(q, ids))
          /\ \A id \in IdsOf(q, ids) : accepted[id] \in StoredAnswer
      BY <1>2, AcceptedFacts DEF IdsOf
    <3>2. mistakes[q] \in MistakeRow
      BY DEF DaysTypes
    <3>3. Replay(mistakes[q], IdsOf(q, ids)).count = 0
      BY <1>3, <2>2 DEF NoMistake
    <3> QED BY <3>1, <3>2, <3>3, ReplayCounts
  <2> QED BY <1>3, <2>1, <2>2
<1>5. \A j \in jobs' : j.kind = "event" => \E id \in j.ids : j.ids = {id}
  BY <1>1, <1>3 DEF AccountInv
<1>6. \A j \in jobs : \A q \in QuizIds : Holds(j, q) /\ Holds(job, q) => FALSE
  <2> SUFFICES ASSUME NEW j \in jobs, NEW q \in QuizIds, Holds(j, q), Holds(job, q)
               PROVE  FALSE
    OBVIOUS
  <2>1. q \in Locked
    BY DEF Holds, Locked
  <2> QED BY <1>1, <1>3, <2>1 DEF Holds
<1>7. \A i, j \in jobs' : \A q \in QuizIds : Holds(i, q) /\ Holds(j, q) => i = j
  BY <1>1, <1>6 DEF AccountInv
<1>8. /\ MistakeMatchesAnswers'
      /\ \A j \in jobs : j.kind = "batch" => Claims(j)'
  BY <1>1, AccountStays DEF learningRaces
<1>9. Claims(job)'
  BY <1>1, <1>2, <1>3, <1>4, ClaimsKept
<1>10. \A j \in jobs' : j.kind = "batch" => Claims(j)'
  BY <1>1, <1>8, <1>9
<1> QED BY <1>5, <1>7, <1>8, <1>10 DEF AccountInv, Holds

LEMMA AccountEventBegin ==
  ASSUME DaysTypes, AccountInv, NEW id \in Outstanding, EventBegin(id)
  PROVE  AccountInv'
<1> DEFINE job == [kind |-> "event", ids |-> {id}, rows |-> mistakes, topic |-> topic]
<1>1. /\ jobs' = jobs \cup {job}
      /\ UNCHANGED <<accepted, settled, today, mistakes, topic, learningRaces>>
  BY DEF EventBegin
<1>2. job.ids = {id} /\ job.kind = "event"
  OBVIOUS
<1> HIDE DEF job
<1>3. \A j \in jobs' : j.kind = "event" => \E x \in j.ids : j.ids = {x}
  BY <1>1, <1>2 DEF AccountInv
<1>4. \A i, j \in jobs' : \A q \in QuizIds : Holds(i, q) /\ Holds(j, q) => i = j
  BY <1>1, <1>2 DEF AccountInv, Holds
<1>5. /\ MistakeMatchesAnswers'
      /\ \A j \in jobs : j.kind = "batch" => Claims(j)'
  BY <1>1, AccountStays DEF learningRaces
<1>6. \A j \in jobs' : j.kind = "batch" => Claims(j)'
  BY <1>1, <1>2, <1>5
<1> QED BY <1>3, <1>4, <1>5, <1>6 DEF AccountInv, Holds

\* A transaction that ends leaves the claims of the others, as long as it writes
\* no row that one of them holds.
LEMMA AccountEnds ==
  ASSUME DaysTypes, AccountInv, NEW job \in jobs, jobs' = jobs \ {job}, UNCHANGED accepted,
         \A j \in jobs \ {job} : \A q \in QuizIds : Holds(j, q) => mistakes'[q] = mistakes[q]
  PROVE  /\ \A j \in jobs' : /\ j.kind = "event" => \E id \in j.ids : j.ids = {id}
                             /\ j.kind = "batch" => Claims(j)'
         /\ \A i, j \in jobs' : \A q \in QuizIds : Holds(i, q) /\ Holds(j, q) => i = j
<1>1. ASSUME NEW j \in jobs', j.kind = "batch"
      PROVE  Claims(j)'
  <2>1. j.ids \in SUBSET DOMAIN accepted /\ j \in jobs \ {job} /\ Claims(j)
    BY <1>1 DEF DaysTypes, AccountInv
  <2>2. \A q \in QuizIds : q \in DOMAIN j.rows /\ j.rows[q] # NoMistake => mistakes'[q] = mistakes[q]
    BY <1>1, <2>1 DEF Holds
  <2> QED BY <2>1, <2>2, ClaimsKept
<1>2. \A j \in jobs' : j.kind = "event" => \E id \in j.ids : j.ids = {id}
  BY DEF AccountInv
<1>3. \A i, j \in jobs' : \A q \in QuizIds : Holds(i, q) /\ Holds(j, q) => i = j
  BY DEF AccountInv
<1> QED BY <1>1, <1>2, <1>3

LEMMA AccountBatchFinish ==
  ASSUME DaysTypes, AccountInv, NEW job \in jobs, BatchFinish(job)
  PROVE  AccountInv'
<1>1. /\ job.kind = "batch" /\ mistakes' = WrittenBy(job) /\ jobs' = jobs \ {job}
      /\ mistakeRaces' = mistakeRaces \cup
           {q \in DOMAIN job.rows : job.rows[q] = NoMistake /\ mistakes[q] # NoMistake}
      /\ UNCHANGED accepted
      /\ settled' = [q \in QuizIds |-> settled[q] \o GivenOrder(IdsOf(q, job.ids))]
  BY DEF BatchFinish, BatchFinishWith, Settle, GivenOrder
<1>2. job.ids \in SUBSET DOMAIN accepted /\ Claims(job)
  BY <1>1 DEF DaysTypes, AccountInv
<1>3. \A q \in QuizIds : mistakes'[q] = IF Holds(job, q) THEN job.rows[q] ELSE mistakes[q]
  BY <1>1 DEF WrittenBy, Holds
<1>4. \A j \in jobs \ {job} : \A q \in QuizIds : Holds(j, q) => mistakes'[q] = mistakes[q]
  BY <1>3 DEF AccountInv
<1>5. MistakeMatchesAnswers'
  <2> SUFFICES ASSUME NEW q \in QuizIds \ mistakeRaces'
               PROVE  mistakes'[q] = MistakeOf(settled[q])'
    BY DEF MistakeMatchesAnswers
  <2> PICK ids, row, h, e : /\ ids = IdsOf(q, job.ids) /\ row = mistakes[q]
                            /\ h = settled[q] /\ e = settled[q] \o GivenOrder(ids)
    OBVIOUS
  <2>1. settled'[q] = e
    BY <1>1
  <2>2. MistakeOf(settled[q])' = MistakeOf(e)
    <3>1. MistakeOf(settled[q])' = MistakeOf(e)'
      BY <2>1 DEF MistakeOf, Wrongs, Successes, NewDays, Enough
    <3>2. MistakeOf(e)' = MistakeOf(e)
      BY <1>1, AccountKept
    <3> QED BY <3>1, <3>2
  <2>3. h \in Seq(Turn) /\ row = MistakeOf(h) /\ row \in MistakeRow
    BY <1>1 DEF DaysTypes, AccountInv, MistakeMatchesAnswers
  <2>4. /\ ids \in SUBSET Nat /\ IsFiniteSet(ids)
        /\ \A id \in ids : accepted[id] \in StoredAnswer /\ accepted[id].day # 0
    <3>1. ids \in SUBSET DOMAIN accepted
      BY <1>2 DEF IdsOf
    <3> QED BY <3>1, AcceptedFacts DEF DaysTypes
  <2>5. MistakeOf(e) = Replay(row, ids)
    BY <2>3, <2>4, ReplayAccounts
  <2>6. CASE Holds(job, q)
    <3>1. job.rows[q] = Replay(row, ids)
      BY <1>2, <2>6 DEF Claims, Holds
    <3> QED BY <1>3, <2>2, <2>5, <2>6, <3>1
  <2>7. CASE ~Holds(job, q)
    <3>1. \A id \in ids : AfterAnswer(row, accepted[id], accepted[id].day) = row
      <4>1. CASE q \notin DOMAIN job.rows
        BY <1>2, <4>1 DEF Claims, AfterAnswer
      <4>2. CASE q \in DOMAIN job.rows
        <5>1. job.rows[q] = NoMistake
          BY <1>1, <2>7, <4>2 DEF Holds
        <5>2. \A id \in ids : accepted[id].correct
          BY <1>2, <4>2, <5>1 DEF Claims
        <5>3. row = NoMistake
          BY <1>1, <4>2, <5>1
        <5>4. \A day : Success(row, day) = row
          BY <5>3 DEF Success, NoMistake
        <5> QED BY <5>2, <5>4 DEF AfterAnswer
      <4> QED BY <4>1, <4>2
    <3>2. Replay(row, ids) = row
      BY <2>4, <3>1, ReplaySame
    <3> QED BY <1>3, <2>2, <2>5, <2>7, <3>2
  <2> QED BY <2>6, <2>7
<1> QED BY <1>1, <1>4, <1>5, AccountEnds DEF AccountInv, Holds

LEMMA AccountEventFinish ==
  ASSUME DaysTypes, AccountInv, NEW job \in jobs, EventFinish(job)
  PROVE  AccountInv'
<1>1. PICK id \in job.ids :
        LET answer == accepted[id]
            r      == answer.quiz
            read   == job.rows[r]
            new    == AfterAnswer(read, answer, today)
        IN /\ job.kind = "event"
           /\ new # read => r \notin Locked
           /\ mistakes' = [mistakes EXCEPT ![r] =
                IF new = read THEN @ ELSE IF read = NoMistake THEN new ELSE Changed(read, new, @)]
           /\ mistakeRaces' = mistakeRaces \cup (IF read # mistakes[r] THEN {r} ELSE {})
           /\ jobs' = jobs \ {job}
           /\ UNCHANGED accepted
           /\ Settle(job.ids, LAMBDA i : today)
  BY DEF EventFinish
<1> PICK q, read, old, now : /\ q = accepted[id].quiz /\ read = job.rows[accepted[id].quiz]
                             /\ old = mistakes[accepted[id].quiz] /\ now = today
  OBVIOUS
<1> DEFINE new   == AfterAnswer(read, accepted[id], now)
           value == IF new = read THEN old
                    ELSE IF read = NoMistake THEN new ELSE Changed(read, new, old)
<1>2. /\ jobs' = jobs \ {job} /\ UNCHANGED accepted
      /\ new # read => q \notin Locked
      /\ mistakes' = [mistakes EXCEPT ![q] = value]
      /\ mistakeRaces' = mistakeRaces \cup (IF read # old THEN {q} ELSE {})
  BY <1>1
<1>3. /\ job.ids = {id} /\ id \in DOMAIN accepted /\ DOMAIN job.rows = QuizIds
  BY <1>1 DEF DaysTypes, AccountInv
<1>4. /\ accepted[id] \in StoredAnswer /\ q \in QuizIds /\ id \in Nat
      /\ read \in MistakeRow /\ old \in MistakeRow /\ now \in Nat \ {0}
  <2>1. accepted[id] \in StoredAnswer /\ q \in QuizIds /\ id \in Nat
    BY <1>3, AcceptedFacts DEF StoredAnswer
  <2> QED BY <1>3, <2>1 DEF DaysTypes
<1>5. \A r \in QuizIds : mistakes'[r] = IF r = q THEN value ELSE mistakes[r]
  <2> HIDE DEF value
  <2> QED BY <1>2 DEF DaysTypes
<1>6. \A r \in QuizIds : settled'[r] = IF r = q THEN settled[r] \o <<[id |-> id, day |-> now]>>
                                       ELSE settled[r]
  <2> SUFFICES ASSUME NEW r \in QuizIds
               PROVE  settled'[r] = IF r = q THEN settled[r] \o <<[id |-> id, day |-> now]>>
                                    ELSE settled[r]
    OBVIOUS
  <2>1. settled'[r] = settled[r] \o [i \in 1 .. Cardinality(IdsOf(r, {id})) |->
                        [id |-> Nth(IdsOf(r, {id}), i), day |-> now]]
    BY <1>1, <1>3 DEF Settle
  <2>2. CASE r = q
    <3>1. IdsOf(r, {id}) = {id}
      BY <2>2 DEF IdsOf
    <3>2. Cardinality({id}) = 1 /\ Nth({id}, 1) = id
      <4>1. {id} \in SUBSET Nat /\ IsFiniteSet({id}) /\ Cardinality({id}) = 1
        BY <1>4, FS_Singleton
      <4>2. 1 \in 1 .. Cardinality({id})
        BY <4>1
      <4> QED BY <4>1, <4>2, NthFacts
    <3>3. [i \in 1 .. 1 |-> [id |-> Nth({id}, i), day |-> now]] = <<[id |-> id, day |-> now]>>
      BY <3>2
    <3> QED BY <2>1, <2>2, <3>1, <3>2, <3>3
  <2>3. CASE r # q
    <3>1. IdsOf(r, {id}) = {}
      BY <2>3 DEF IdsOf
    <3>2. Cardinality({}) = 0
      BY FS_EmptySet
    <3>3. [i \in 1 .. 0 |-> [id |-> Nth({}, i), day |-> now]] = <<>>
      OBVIOUS
    <3>4. settled[r] \in Seq(Turn)
      BY DEF DaysTypes
    <3>5. settled[r] \o <<>> = settled[r]
      BY <3>4, ConcatEmptySeq
    <3> QED BY <2>1, <2>3, <3>1, <3>2, <3>3, <3>5
  <2> QED BY <2>2, <2>3
<1>7. \A j \in jobs \ {job} : \A r \in QuizIds : Holds(j, r) => mistakes'[r] = mistakes[r]
  <2> SUFFICES ASSUME NEW j \in jobs \ {job}, NEW r \in QuizIds, Holds(j, r)
               PROVE  mistakes'[r] = mistakes[r]
    OBVIOUS
  <2>1. r \in Locked
    BY DEF Holds, Locked
  <2>2. r = q => value = old
    BY <1>2, <2>1
  <2> HIDE DEF value
  <2> QED BY <1>5, <2>2
<1>8. MistakeMatchesAnswers'
  <2> SUFFICES ASSUME NEW r \in QuizIds \ mistakeRaces'
               PROVE  mistakes'[r] = MistakeOf(settled[r])'
    BY DEF MistakeMatchesAnswers
  <2> PICK h, e : h = settled[r] /\ e = IF r = q THEN settled[r] \o <<[id |-> id, day |-> now]>>
                                        ELSE settled[r]
    OBVIOUS
  <2>1. MistakeOf(settled[r])' = MistakeOf(e)
    <3>1. settled'[r] = e
      BY <1>6
    <3>2. MistakeOf(settled[r])' = MistakeOf(e)'
      BY <3>1 DEF MistakeOf, Wrongs, Successes, NewDays, Enough
    <3>3. MistakeOf(e)' = MistakeOf(e)
      BY <1>2, AccountKept
    <3> QED BY <3>2, <3>3
  <2>2. h \in Seq(Turn) /\ mistakes[r] = MistakeOf(h)
    BY <1>2 DEF DaysTypes, AccountInv, MistakeMatchesAnswers
  <2>3. CASE r # q
    BY <1>5, <2>1, <2>2, <2>3
  <2>4. CASE r = q
    <3>1. read = old /\ old = MistakeOf(h)
      BY <1>2, <2>2, <2>4
    <3>2. IsNext(h, e, [id |-> id, day |-> now])
      <4> PICK t : t = [id |-> id, day |-> now]
        OBVIOUS
      <4>1. t \in Turn
        BY <1>4 DEF Turn
      <4>2. e = Append(h, t)
        BY <2>2, <2>4, AppendIsConcat
      <4> QED BY <2>2, <4>1, <4>2 DEF IsNext
    <3>3. MistakeOf(e) = new
      BY <1>4, <3>1, <3>2, AccountNext DEF StoredAnswer
    <3>4. value = new
      <4>1. ASSUME new # read
            PROVE  Changed(read, new, read) = new
        <5>1. new = [column \in DOMAIN new |-> new[column]]
          BY <4>1, AnsweredRow
        <5> HIDE DEF new
        <5> QED BY <5>1 DEF Changed
      <4> HIDE DEF new
      <4> QED BY <3>1, <4>1
    <3> HIDE DEF value, new
    <3> QED BY <1>5, <2>1, <2>4, <3>3, <3>4
  <2> QED BY <2>3, <2>4
<1> QED BY <1>2, <1>7, <1>8, AccountEnds DEF AccountInv, Holds

LEMMA AccountStep == DaysTypes /\ AccountInv /\ [LearningNext]_learningVars => AccountInv'
<1> SUFFICES ASSUME DaysTypes, AccountInv, [LearningNext]_learningVars
             PROVE  AccountInv'
  OBVIOUS
<1>1. ASSUME NEW q \in QuizIds,
             Accept(q, FALSE, FALSE) \/ Accept(q, TRUE, TRUE) \/ Accept(q, TRUE, FALSE)
      PROVE  AccountInv'
  <2>1. PICK answer : accepted' = Append(accepted, answer)
    BY <1>1 DEF Accept
  <2>2. UNCHANGED <<settled, mistakes, mistakeRaces, jobs>>
    BY <1>1 DEF Accept, learningRaces
  <2>3. \A id \in DOMAIN accepted : accepted'[id] = accepted[id]
    BY <2>1 DEF DaysTypes
  <2> QED BY <2>2, <2>3, AccountFrame
<1>2. CASE NextDay
  BY <1>2, AccountFrame DEF NextDay, learningRaces
<1>3. ASSUME NEW ids \in (SUBSET Outstanding) \ {{}}, BatchBegin(ids)
      PROVE  AccountInv'
  BY <1>3, AccountBatchBegin
<1>4. ASSUME NEW id \in Outstanding, EventBegin(id)
      PROVE  AccountInv'
  BY <1>4, AccountEventBegin
<1>5. ASSUME NEW job \in jobs, BatchFinish(job)
      PROVE  AccountInv'
  BY <1>5, AccountBatchFinish
<1>6. ASSUME NEW job \in jobs, EventFinish(job)
      PROVE  AccountInv'
  BY <1>6, AccountEventFinish
<1>7. ASSUME NEW job \in jobs, Fail(job)
      PROVE  AccountInv'
  BY <1>7, AccountFrame DEF Fail, learningRaces
<1>8. CASE UNCHANGED learningVars
  BY <1>8, AccountFrame DEF learningVars, learningRaces
<1> QED BY <1>1, <1>2, <1>3, <1>4, <1>5, <1>6, <1>7, <1>8 DEF LearningNext

\* A mistake says what the answers that took effect say, in the order in which
\* they did: however batches, single events, failures and retries are mixed, for
\* any numbers of required repeats and days, unless an event wrote the row on a
\* read that was stale by then.
THEOREM MistakesAddUp == LearningSpec => []MistakeMatchesAnswers
<1>1. LearningInit => DaysInv /\ AccountInv
  BY DaysInit, AccountInit
<1>2. DaysInv /\ AccountInv /\ [LearningNext]_learningVars => (DaysInv /\ AccountInv)'
  BY DaysStep, AccountStep DEF DaysInv
<1>3. AccountInv => MistakeMatchesAnswers
  BY DEF AccountInv
<1> QED BY <1>1, <1>2, <1>3, PTL DEF LearningSpec

-----------------------------------------------------------------------------
(* Learning: the scores stay between nothing and all. *)

Percent       == 0 .. 10000
PercentOrNone == -1 .. 10000

LEMMA Hundredths == \A h : h \in Nat /\ h <= 10000 => h \in Percent
BY DEF Percent

LEMMA HundredthsOrNone == \A h : h \in Nat /\ h <= 10000 => h \in PercentOrNone
BY DEF PercentOrNone

LEMMA PercentFacts == \A h \in Percent : h \in Nat /\ h <= 10000
BY DEF Percent

LEMMA QuotientInRange ==
  ASSUME NEW a \in Nat, NEW d \in Nat \ {0}
  PROVE  a \div d \in Nat /\ (a < 10001 * d => a \div d <= 10000)
<1>1. a \div d \in Nat
  OBVIOUS
<1>2. a < 10001 * d => a \div d <= 10000
  OBVIOUS
<1> QED BY <1>1, <1>2

\* A share of a whole is a percentage, and one of an empty whole is never asked for.
LEMMA ShareInRange ==
  ASSUME NEW part \in Nat, NEW whole \in Nat \ {0}
  PROVE  /\ HundredthsOf(part, whole) \in Nat
         /\ part <= whole => HundredthsOf(part, whole) <= 10000
<1> PICK a, d : a = 20000 * part + whole /\ d = 2 * whole
  OBVIOUS
<1>1. a \in Nat /\ d \in Nat \ {0}
  OBVIOUS
<1>2. part <= whole => a < 10001 * d
  OBVIOUS
<1> QED BY <1>1, <1>2, QuotientInRange DEF HundredthsOf

LEMMA AccuracyInRange ==
  ASSUME NEW correct \in Nat, NEW total \in Nat, correct <= total
  PROVE  AccuracyScore(correct, total) \in Percent
<1>1. CASE total = 0
  BY <1>1 DEF AccuracyScore, Percent
<1>2. CASE total # 0
  <2>1. HundredthsOf(correct, total) \in Nat /\ HundredthsOf(correct, total) <= 10000
    BY <1>2, ShareInRange
  <2>2. AccuracyScore(correct, total) = HundredthsOf(correct, total)
    BY <1>2 DEF AccuracyScore
  <2> QED BY <2>1, <2>2, Hundredths
<1> QED BY <1>1, <1>2

LEMMA CoverageInRange ==
  ASSUME NEW unique \in Nat
  PROVE  CoverageScore(unique, Available) \in PercentOrNone
<1>1. Available \in Nat
  BY LearningAssumption
<1>2. CASE Available = 0
  BY <1>2 DEF CoverageScore, PercentOrNone
<1>3. CASE Available # 0
  <2>1. HundredthsOf(unique, Available) \in Nat
    BY <1>1, <1>3, ShareInRange
  <2>2. PICK h : h = HundredthsOf(unique, Available)
    OBVIOUS
  <2>3. PICK s : s = IF h <= 10000 THEN h ELSE 10000
    OBVIOUS
  <2>4. CoverageScore(unique, Available) = s
    BY <1>1, <1>3, <2>2, <2>3 DEF CoverageScore, Smaller
  <2>5. s \in Nat /\ s <= 10000
    BY <2>1, <2>2, <2>3
  <2> QED BY <2>4, <2>5, HundredthsOrNone
<1> QED BY <1>2, <1>3

\* Products, as far as the weakness needs them.
LEMMA ProductFacts ==
  ASSUME NEW x \in Nat, NEW u \in Nat, NEW m \in Nat
  PROVE  /\ u * m \in Nat /\ x * u * m = x * (u * m) /\ x * u * m \in Nat
         /\ \A y \in Nat : x <= y => x * u * m <= y * (u * m)
<1>1. u * m \in Nat /\ x * u * m = x * (u * m)
  OBVIOUS
<1>2. \A w \in Nat : x * w \in Nat /\ \A y \in Nat : x <= y => x * w <= y * w
  OBVIOUS
<1> QED BY <1>1, <1>2

Risks == {0, 1000, 2000, 3500, 5000, 7000, 9000}

\* The weights of the weakness add up to one.
LEMMA WeaknessInRange ==
  ASSUME NEW answered \in Nat, NEW accuracy \in Percent, NEW unique \in Nat,
         NEW stability \in Percent, NEW recency \in Risks,
         NEW open \in Nat, NEW made \in Nat, NEW repeated \in Nat
  PROVE  WeaknessScore(answered, accuracy, unique, stability, recency, open, made, repeated)
           \in Percent
<1>1. PICK u, m, s, r : /\ u = Larger(unique, 1) /\ m = Larger(made, 1)
                        /\ s = Smaller(open, Larger(unique, 1))
                        /\ r = Smaller(repeated, Larger(made, 1))
  OBVIOUS
<1>2. u \in Nat \ {0} /\ m \in Nat \ {0} /\ s \in Nat /\ s <= u /\ r \in Nat /\ r <= m
  BY <1>1 DEF Larger, Smaller
<1>3. PICK w : w = u * m
  OBVIOUS
<1>4. w \in Nat \ {0}
  BY <1>2, <1>3
<1>5. PICK x, y, z : x = 6 * (10000 - accuracy) /\ y = 3 * (10000 - stability) /\ z = 2 * recency
  OBVIOUS
<1>6. x \in Nat /\ x <= 60000 /\ y \in Nat /\ y <= 30000 /\ z \in Nat /\ z <= 18000
  BY <1>5, PercentFacts DEF Risks
<1>7. PICK a, b, c, e, f : /\ a = x * u * m /\ b = 50000 * s * m /\ c = 40000 * r * u
                           /\ e = y * u * m /\ f = z * u * m
  OBVIOUS
<1>8. a \in Nat /\ a <= 60000 * w
  <2>1. x * u * m \in Nat /\ x * u * m <= 60000 * (u * m)
    BY <1>2, <1>6, ProductFacts
  <2> QED BY <1>3, <1>7, <2>1
<1>9. b \in Nat /\ b <= 50000 * w
  <2>1. s * m \in Nat /\ s * m <= u * m
    BY <1>2
  <2>2. b = 50000 * (s * m)
    BY <1>2, <1>7
  <2> QED BY <1>3, <2>1, <2>2
<1>10. c \in Nat /\ c <= 40000 * w
  <2>1. r * u \in Nat /\ r * u <= m * u /\ m * u = u * m
    BY <1>2
  <2>2. c = 40000 * (r * u)
    BY <1>2, <1>7
  <2> QED BY <1>3, <2>1, <2>2
<1>11. e \in Nat /\ e <= 30000 * w
  <2>1. y * u * m \in Nat /\ y * u * m <= 30000 * (u * m)
    BY <1>2, <1>6, ProductFacts
  <2> QED BY <1>3, <1>7, <2>1
<1>12. f \in Nat /\ f <= 18000 * w
  <2>1. z * u * m \in Nat /\ z * u * m <= 18000 * (u * m)
    BY <1>2, <1>6, ProductFacts
  <2> QED BY <1>3, <1>7, <2>1
<1>13. PICK n, d : n = a + b + c + e + f /\ d = 20 * u * m
  OBVIOUS
<1>14. d = 20 * w
  BY <1>2, <1>3, <1>13
<1>15. n \in Nat /\ n <= 198000 * w
  BY <1>4, <1>8, <1>9, <1>10, <1>11, <1>12, <1>13
<1>16. PICK p, q : p = 2 * n + d /\ q = 2 * d
  OBVIOUS
<1>17. p \in Nat /\ q \in Nat \ {0} /\ p < 10001 * q
  BY <1>4, <1>14, <1>15, <1>16
<1>18. p \div q \in Nat /\ p \div q <= 10000
  BY <1>17, QuotientInRange
<1>19. PICK v : v = IF answered <= 0 THEN 0 ELSE p \div q
  OBVIOUS
<1>20. WeaknessScore(answered, accuracy, unique, stability, recency, open, made, repeated) = v
  BY <1>1, <1>5, <1>7, <1>13, <1>16, <1>19 DEF WeaknessScore
<1>21. v \in Percent
  <2>1. v \in Nat /\ v <= 10000
    BY <1>18, <1>19
  <2> QED BY <2>1, Hundredths
<1> QED BY <1>20, <1>21

\* No item is more than stable.
LEMMA ItemInRange ==
  ASSUME NEW events, NEW q, NEW unresolved
  PROVE  ItemStability(events, q, unresolved) \in 0 .. 100
<1>1. ItemStability(events, q, unresolved) \in {0, 10, 55, 75, 90, 100}
  BY DEF ItemStability
<1> QED BY <1>1

LEMMA StabilityInRange ==
  ASSUME NEW events, NEW unresolved
  PROVE  StabilityScore(events, unresolved) \in Percent
<1> DEFINE S == Eligible(events)
           f == [q \in S |-> ItemStability(events, q, unresolved)]
           IsTotal(g) == g = [s \in SUBSET S |->
             IF s = {} THEN 0
             ELSE LET x == CHOOSE x \in s : TRUE
                  IN ItemStability(events, x, unresolved) + g[s \ {x}]]
           total == MapThenSumSet(LAMBDA q : ItemStability(events, q, unresolved), S)
           n == Cardinality(S)
<1>1. IsFiniteSet(S) /\ n \in Nat
  <2>1. S \in SUBSET QuizIds
    BY DEF Eligible
  <2> QED BY <2>1, LearningAssumption, FS_Subset, FS_CardinalityType
<1>2. \A x \in S : f[x] \in 0 .. 100
  BY ItemInRange
<1>3. \A x \in S : f[x] \in Nat
  <2> HIDE DEF f
  <2> QED BY <1>2
<1>4. \A g : IsTally(g, f, S) => IsTotal(g)
  BY DEF IsTally
<1>5. \A g : IsTotal(g) => IsTally(g, f, S)
  BY DEF IsTally
<1>6. IsTotal(CHOOSE g : IsTotal(g))
  <2>1. \E g : IsTally(g, f, S)
    <3> HIDE DEF f, S
    <3> QED BY <1>1, <1>3, TallyExists
  <2>2. \E g : IsTotal(g)
    <3> HIDE DEF IsTotal, f, S
    <3> QED BY <1>4, <2>1
  <2> HIDE DEF IsTotal
  <2> QED BY <2>2
<1>7. total = (CHOOSE g : IsTotal(g))[S]
  BY DEF MapThenSumSet, MapThenFoldSet
<1> HIDE DEF IsTotal, total, f, S, n
<1>8. PICK g : IsTally(g, f, S) /\ total = g[S]
  BY <1>5, <1>6, <1>7
<1>9. total = Cardinality(Tokens(f, S))
  BY <1>1, <1>3, <1>8, TallyCounts
<1>10. total \in Nat /\ total <= n * 100
  BY <1>1, <1>2, <1>9, SumBounded DEF n
<1>11. StabilityScore(events, unresolved) = IF S = {} THEN 0 ELSE (200 * total + n) \div (2 * n)
  BY DEF StabilityScore, total, S, n
<1>12. S # {} => n # 0
  BY <1>1, FS_EmptySet DEF n
<1>13. PICK a, d : a = 200 * total + n /\ d = 2 * n
  OBVIOUS
<1>14. S # {} => a \in Nat /\ d \in Nat \ {0} /\ a < 10001 * d
  BY <1>1, <1>10, <1>12, <1>13
<1>15. PICK v : v = IF S = {} THEN 0 ELSE a \div d
  OBVIOUS
<1>16. v \in Nat /\ v <= 10000
  BY <1>14, <1>15, QuotientInRange
<1>17. StabilityScore(events, unresolved) = v
  BY <1>11, <1>13, <1>15
<1> QED BY <1>16, <1>17, Hundredths

\* The signals of rows that count every mistake they tell of.
SignalType == [unresolved : SUBSET QuizIds, total : Nat, repeated : Nat]

LEMMA SignalsTyped ==
  ASSUME NEW rows, DOMAIN rows \subseteq QuizIds,
         \A q \in Unresolved(rows) : rows[q].count \in Nat \ {0}
  PROVE  Signals(rows) \in SignalType
<1> DEFINE S == Unresolved(rows)
<1>1. S \in SUBSET QuizIds /\ IsFiniteSet(S)
  <2>1. S \in SUBSET QuizIds
    BY DEF Unresolved
  <2> QED BY <2>1, LearningAssumption, FS_Subset
<1>2. MapThenSumSet(LAMBDA q : rows[q].count, S) \in Nat
  <2> DEFINE f == [q \in S |-> rows[q].count]
             IsTotal(g) == g = [s \in SUBSET S |->
               IF s = {} THEN 0
               ELSE LET x == CHOOSE x \in s : TRUE IN rows[x].count + g[s \ {x}]]
             total == MapThenSumSet(LAMBDA q : rows[q].count, S)
  <2>1. \A x \in S : f[x] \in Nat
    OBVIOUS
  <2>2. \A g : IsTally(g, f, S) <=> IsTotal(g)
    BY DEF IsTally
  <2>3. total = (CHOOSE g : IsTotal(g))[S]
    BY DEF MapThenSumSet, MapThenFoldSet
  <2> HIDE DEF IsTotal, total, f, S
  <2>4. \E g : IsTally(g, f, S)
    BY <1>1, <2>1, TallyExists
  <2>5. IsTotal(CHOOSE g : IsTotal(g))
    BY <2>2, <2>4
  <2>6. PICK g : IsTally(g, f, S) /\ total = g[S]
    BY <2>2, <2>3, <2>5
  <2>7. total = Cardinality(Tokens(f, S))
    BY <1>1, <2>1, <2>6, TallyCounts
  <2>8. total \in Nat
    BY <1>1, <2>1, <2>7, TokensFinite
  <2> QED BY <2>8 DEF total
<1>3. MapThenSumSet(LAMBDA q : rows[q].count - 1, S) \in Nat
  <2> DEFINE f == [q \in S |-> rows[q].count - 1]
             IsTotal(g) == g = [s \in SUBSET S |->
               IF s = {} THEN 0
               ELSE LET x == CHOOSE x \in s : TRUE IN (rows[x].count - 1) + g[s \ {x}]]
             total == MapThenSumSet(LAMBDA q : rows[q].count - 1, S)
  <2>1. \A x \in S : f[x] \in Nat
    OBVIOUS
  <2>2. \A g : IsTally(g, f, S) <=> IsTotal(g)
    BY DEF IsTally
  <2>3. total = (CHOOSE g : IsTotal(g))[S]
    BY DEF MapThenSumSet, MapThenFoldSet
  <2> HIDE DEF IsTotal, total, f, S
  <2>4. \E g : IsTally(g, f, S)
    BY <1>1, <2>1, TallyExists
  <2>5. IsTotal(CHOOSE g : IsTotal(g))
    BY <2>2, <2>4
  <2>6. PICK g : IsTally(g, f, S) /\ total = g[S]
    BY <2>2, <2>3, <2>5
  <2>7. total = Cardinality(Tokens(f, S))
    BY <1>1, <2>1, <2>6, TallyCounts
  <2>8. total \in Nat
    BY <1>1, <2>1, <2>7, TokensFinite
  <2> QED BY <2>8 DEF total
<1> QED BY <1>1, <1>2, <1>3 DEF Signals, SignalType

ScoreType == [coverage : PercentOrNone, stability : Percent, weakness : Percent,
              status : {"new", "weak", "learning", "stable", "strong"}]

LEMMA TopicRowIs ==
  TopicRow = [exists : BOOLEAN, answered : Nat, correct : Nat, wrong : Nat, accuracy : Percent,
              unique : Nat, last : Nat, scores : ScoreType, signals : SignalType]
BY DEF TopicRow, ScoreType, SignalType, Percent, PercentOrNone

LEMMA TopicFields ==
  ASSUME NEW t \in TopicRow
  PROVE  /\ t = [exists |-> t.exists, answered |-> t.answered, correct |-> t.correct,
                 wrong |-> t.wrong, accuracy |-> t.accuracy, unique |-> t.unique,
                 last |-> t.last, scores |-> t.scores, signals |-> t.signals]
         /\ t.exists \in BOOLEAN /\ t.answered \in Nat /\ t.correct \in Nat /\ t.wrong \in Nat
         /\ t.accuracy \in Percent /\ t.unique \in Nat /\ t.last \in Nat
         /\ t.scores \in ScoreType /\ t.signals \in SignalType
BY TopicRowIs

LEMMA ScoresTyped ==
  ASSUME NEW answered \in Nat, NEW accuracy \in Percent, NEW unique \in Nat,
         NEW last \in Nat, NEW now \in Nat, NEW events, NEW signals \in SignalType
  PROVE  Scores(answered, accuracy, unique, last, now, events, signals) \in ScoreType
<1>1. CoverageScore(unique, Available) \in PercentOrNone
  BY CoverageInRange
<1>2. StabilityScore(events, signals.unresolved) \in Percent
  BY StabilityInRange
<1>3. RecencyRisk(now - last) \in Risks
  BY DEF RecencyRisk, Risks
<1>4. Cardinality(signals.unresolved) \in Nat
  <2>1. signals.unresolved \in SUBSET QuizIds
    BY DEF SignalType
  <2> QED BY <2>1, LearningAssumption, FS_Subset, FS_CardinalityType
<1>5. signals.total \in Nat /\ signals.repeated \in Nat
  BY DEF SignalType
<1>6. WeaknessScore(answered, accuracy, unique, StabilityScore(events, signals.unresolved),
        RecencyRisk(now - last), Cardinality(signals.unresolved), signals.total,
        signals.repeated) \in Percent
  <2>1. PICK s, r, o, m, n : /\ s = StabilityScore(events, signals.unresolved)
                           /\ r = RecencyRisk(now - last)
                           /\ o = Cardinality(signals.unresolved)
                           /\ m = signals.total /\ n = signals.repeated
    OBVIOUS
  <2>2. s \in Percent /\ r \in Risks /\ o \in Nat /\ m \in Nat /\ n \in Nat
    BY <1>2, <1>3, <1>4, <1>5, <2>1
  <2>3. WeaknessScore(answered, accuracy, unique, s, r, o, m, n) \in Percent
    BY <2>2, WeaknessInRange
  <2> QED BY <2>1, <2>3
<1>7. \A a, b, c, d, e, f, g, h :
        TopicStatus(a, b, c, d, e, f, g, h) \in {"new", "weak", "learning", "stable", "strong"}
  BY DEF TopicStatus
<1> QED BY <1>1, <1>2, <1>6, <1>7 DEF Scores, ScoreType

\* A progress row that can be stored.
SoundTopic(t) == t \in TopicRow /\ t.correct + t.wrong <= t.answered

\* The seen answers are the ones they are counted among.
LEMMA UniqueTyped ==
  ASSUME DaysTypes
  PROVE  UniqueSeen \in Nat
<1>1. {accepted[id].quiz : id \in DOMAIN accepted} \in SUBSET QuizIds
  BY AcceptedFacts DEF StoredAnswer
<1> QED BY <1>1, LearningAssumption, FS_Subset, FS_CardinalityType DEF UniqueSeen

\* What _progress_update_row makes of a sound row is one.
LEMMA RescoredSound ==
  ASSUME DaysTypes, NEW row, SoundTopic(row), NEW seen, SoundTopic(seen), NEW now \in Nat,
         NEW signals \in SignalType
  PROVE  SoundTopic(Rescored(row, seen, now, signals))
<1>1. PICK accuracy : accuracy = AccuracyScore(seen.correct, seen.answered)
  OBVIOUS
<1>2. PICK events : events = accepted
  OBVIOUS
<1>3. PICK unique : unique = UniqueSeen
  OBVIOUS
<1>4. PICK scores : scores = Scores(seen.answered, accuracy, unique, seen.last, now, events, signals)
  OBVIOUS
<1>5. /\ seen.correct \in Nat /\ seen.answered \in Nat /\ seen.last \in Nat
      /\ seen.correct <= seen.answered
  BY TopicFields DEF SoundTopic
<1>6. accuracy \in Percent
  BY <1>1, <1>5, AccuracyInRange
<1>7. unique \in Nat
  BY <1>3, UniqueTyped
<1>8. scores \in ScoreType
  BY <1>4, <1>5, <1>6, <1>7, ScoresTyped
<1>9. Rescored(row, seen, now, signals) =
        [row EXCEPT !.accuracy = accuracy, !.unique = unique, !.signals = signals, !.scores = scores]
  BY <1>1, <1>2, <1>3, <1>4 DEF Rescored
<1>10. PICK r, t : /\ r = row
                   /\ t = [r EXCEPT !.accuracy = accuracy, !.unique = unique, !.signals = signals,
                                    !.scores = scores]
  OBVIOUS
<1>11. r \in TopicRow /\ r.correct + r.wrong <= r.answered
  BY <1>10 DEF SoundTopic
<1>12. t \in TopicRow
  BY <1>6, <1>7, <1>8, <1>10, <1>11, TopicRowIs
<1>13. t.correct = r.correct /\ t.wrong = r.wrong /\ t.answered = r.answered
  BY <1>10, <1>11, TopicRowIs
<1> QED BY <1>9, <1>10, <1>11, <1>12, <1>13 DEF SoundTopic

LEMMA BatchTopicSound ==
  ASSUME DaysTypes, SoundTopic(topic), NEW job, job.ids \in SUBSET DOMAIN accepted, job.ids # {},
         NEW behind, NEW signals \in SignalType
  PROVE  SoundTopic(BatchTopic(topic, job, behind, signals))
<1>1. PICK ids, right, now : /\ ids = job.ids /\ right = {id \in job.ids : accepted[id].correct}
                             /\ now = Max({accepted[id].day : id \in job.ids})
  OBVIOUS
<1>2. IsFiniteSet(ids) /\ Cardinality(ids) \in Nat
  BY <1>1, AcceptedFacts, FS_CardinalityType
<1>3. /\ Cardinality(right) \in Nat /\ Cardinality(ids \ right) \in Nat
      /\ Cardinality(right) + Cardinality(ids \ right) = Cardinality(ids)
  <2>1. right \in SUBSET ids /\ ids \cap right = right
    BY <1>1
  <2>2. IsFiniteSet(right) /\ IsFiniteSet(ids \ right)
    BY <1>2, <2>1, FS_Subset, FS_Difference
  <2>3. Cardinality(ids \ right) = Cardinality(ids) - Cardinality(ids \cap right)
    BY <1>2, FS_Difference
  <2>4. Cardinality(right) \in Nat /\ Cardinality(ids \ right) \in Nat
    BY <2>2, FS_CardinalityType
  <2>5. Cardinality(ids \cap right) = Cardinality(right)
    BY <2>1
  <2> QED BY <1>2, <2>3, <2>4, <2>5
<1>4. now \in Nat
  <2> DEFINE days == {accepted[id].day : id \in job.ids}
  <2>1. days \in SUBSET (1 .. today) /\ days \in SUBSET Nat /\ days # {}
    BY DEF DaysTypes
  <2>2. IsFiniteSet(1 .. today)
    <3>1. 1 \in Int /\ today \in Int
      BY DEF DaysTypes
    <3> QED BY <3>1, FS_Interval
  <2>3. IsFiniteSet(days)
    BY <2>1, <2>2, FS_Subset
  <2> HIDE DEF days
  <2>4. Max(days) \in days
    BY <2>1, <2>3, LatestAnswer
  <2> QED BY <1>1, <2>1, <2>4 DEF days
<1>5. PICK added : added = [topic EXCEPT !.exists = TRUE,
                              !.answered = @ + Cardinality(ids),
                              !.correct = @ + Cardinality(right),
                              !.wrong = @ + Cardinality(ids \ right),
                              !.last = Larger(@, now)]
  OBVIOUS
<1>6. SoundTopic(added)
  <2>1. PICK n, r, w : n = Cardinality(ids) /\ r = Cardinality(right) /\ w = Cardinality(ids \ right)
    OBVIOUS
  <2>2. n \in Nat /\ r \in Nat /\ w \in Nat /\ r + w = n
    BY <1>2, <1>3, <2>1
  <2>3. PICK t, l : t = topic /\ l = Larger(topic.last, now)
    OBVIOUS
  <2>4. /\ t.answered \in Nat /\ t.correct \in Nat /\ t.wrong \in Nat /\ t.last \in Nat
        /\ t.correct + t.wrong <= t.answered /\ t \in TopicRow
    BY <2>3, TopicFields DEF SoundTopic
  <2>5. l \in Nat
    BY <1>4, <2>3, <2>4 DEF Larger
  <2>6. PICK a, b, c : a = t.answered + n /\ b = t.correct + r /\ c = t.wrong + w
    OBVIOUS
  <2>7. a \in Nat /\ b \in Nat /\ c \in Nat /\ b + c <= a
    BY <2>2, <2>4, <2>6
  <2>8. added = [t EXCEPT !.exists = TRUE, !.answered = a, !.correct = b, !.wrong = c, !.last = l]
    <3>1. added = [t EXCEPT !.exists = TRUE, !.answered = t.answered + n, !.correct = t.correct + r,
                     !.wrong = t.wrong + w, !.last = Larger(t.last, now)]
      BY <1>5, <2>1, <2>3
    <3> QED BY <2>3, <2>6, <3>1
  <2>9. added \in TopicRow
    BY <2>4, <2>5, <2>7, <2>8, TopicRowIs
  <2>10. added.answered = a /\ added.correct = b /\ added.wrong = c
    BY <2>4, <2>8, TopicRowIs
  <2> QED BY <2>7, <2>9, <2>10 DEF SoundTopic
<1>7. PICK seen : seen = IF behind THEN topic ELSE added
  OBVIOUS
<1>8. SoundTopic(seen)
  BY <1>6, <1>7
<1>9. BatchTopic(topic, job, behind, signals) = Rescored(added, seen, now, signals)
  BY <1>1, <1>5, <1>7 DEF BatchTopic
<1>10. SoundTopic(Rescored(added, seen, now, signals))
  BY <1>4, <1>6, <1>8, RescoredSound
<1> QED BY <1>9, <1>10

\* record_answer_result.
LEMMA EventTopicTyped ==
  ASSUME DaysTypes, NEW read, SoundTopic(read), NEW answer, NEW id, NEW rows,
         Signals(rows) \in SignalType
  PROVE  EventTopic(read, answer, id, rows) \in TopicRow
<1>1. PICK a, c, w, now : /\ a = read.answered + 1 /\ now = today
                          /\ c = read.correct + (IF answer.correct THEN 1 ELSE 0)
                          /\ w = read.wrong + (IF answer.correct THEN 0 ELSE 1)
  OBVIOUS
<1>2. PICK accuracy : accuracy = AccuracyScore(c, a)
  OBVIOUS
<1>3. PICK seen : seen = UniqueSeen
  OBVIOUS
<1>4. PICK again : again = [answer EXCEPT !.day = now]
  OBVIOUS
<1>5. PICK events : events = IF a > 1 THEN Append(accepted, again) ELSE <<again>>
  OBVIOUS
<1>6. PICK before : before = \E k \in DOMAIN accepted \ {id} : accepted[k].quiz = answer.quiz
  OBVIOUS
<1>7. PICK unique : unique = IF a <= 1 THEN 1
                             ELSE Larger(read.unique + (IF before THEN 0 ELSE 1), seen)
  OBVIOUS
<1>8. PICK signals : signals = Signals(rows)
  OBVIOUS
<1>9. PICK scores : scores = Scores(a, accuracy, unique, now, now, events, signals)
  OBVIOUS
<1>10. EventTopic(read, answer, id, rows) =
         [exists |-> TRUE, answered |-> a, correct |-> c, wrong |-> w, accuracy |-> accuracy,
          unique |-> unique, last |-> now, signals |-> signals, scores |-> scores]
  BY <1>1, <1>2, <1>3, <1>4, <1>5, <1>6, <1>7, <1>8, <1>9 DEF EventTopic
<1>11. /\ read.answered \in Nat /\ read.correct \in Nat /\ read.wrong \in Nat
       /\ read.unique \in Nat /\ read.correct + read.wrong <= read.answered
  BY TopicFields DEF SoundTopic
<1>12. a \in Nat /\ c \in Nat /\ w \in Nat /\ c <= a /\ now \in Nat
  BY <1>1, <1>11 DEF DaysTypes
<1>13. accuracy \in Percent
  BY <1>2, <1>12, AccuracyInRange
<1>14. unique \in Nat
  <2>1. seen \in Nat
    BY <1>3, UniqueTyped
  <2> QED BY <1>7, <1>11, <2>1 DEF Larger
<1>15. signals \in SignalType
  BY <1>8
<1>16. scores \in ScoreType
  BY <1>9, <1>12, <1>13, <1>14, <1>15, ScoresTyped
<1> QED BY <1>10, <1>12, <1>13, <1>14, <1>15, <1>16, TopicRowIs

\* What the ORM writes of a row and of its scores keeps their types.
LEMMA ChangedScores ==
  ASSUME NEW read \in ScoreType, NEW new \in ScoreType, NEW row \in ScoreType
  PROVE  Changed(read, new, row) \in ScoreType
<1> DEFINE c == Changed(read, new, row)
<1>1. DOMAIN new = {"coverage", "stability", "weakness", "status"}
  BY DEF ScoreType
<1>2. c = [coverage |-> c.coverage, stability |-> c.stability, weakness |-> c.weakness,
           status |-> c.status]
  BY <1>1 DEF Changed
<1>3. /\ c.coverage \in {new.coverage, row.coverage} /\ c.stability \in {new.stability, row.stability}
      /\ c.weakness \in {new.weakness, row.weakness} /\ c.status \in {new.status, row.status}
  BY <1>1 DEF Changed
<1>4. /\ c.coverage \in PercentOrNone /\ c.stability \in Percent /\ c.weakness \in Percent
      /\ c.status \in {"new", "weak", "learning", "stable", "strong"}
  BY <1>3 DEF ScoreType
<1> HIDE DEF c
<1> QED BY <1>2, <1>4 DEF ScoreType, c

LEMMA ChangedTopic ==
  ASSUME NEW read \in TopicRow, NEW new \in TopicRow, NEW row \in TopicRow
  PROVE  [Changed(read, new, row) EXCEPT !.signals = new.signals,
            !.scores = Changed(read.scores, new.scores, row.scores)] \in TopicRow
<1> DEFINE c == Changed(read, new, row)
<1>1. DOMAIN new = {"exists", "answered", "correct", "wrong", "accuracy", "unique", "last",
                    "scores", "signals"}
  BY TopicRowIs
<1>2. c = [exists |-> c.exists, answered |-> c.answered, correct |-> c.correct,
           wrong |-> c.wrong, accuracy |-> c.accuracy, unique |-> c.unique,
           last |-> c.last, scores |-> c.scores, signals |-> c.signals]
  BY <1>1 DEF Changed
<1>3. /\ c.exists \in {new.exists, row.exists} /\ c.answered \in {new.answered, row.answered}
      /\ c.correct \in {new.correct, row.correct} /\ c.wrong \in {new.wrong, row.wrong}
      /\ c.accuracy \in {new.accuracy, row.accuracy} /\ c.unique \in {new.unique, row.unique}
      /\ c.last \in {new.last, row.last} /\ c.scores \in {new.scores, row.scores}
      /\ c.signals \in {new.signals, row.signals}
  BY <1>1 DEF Changed
<1>4. /\ c.exists \in BOOLEAN /\ c.answered \in Nat /\ c.correct \in Nat /\ c.wrong \in Nat
      /\ c.accuracy \in Percent /\ c.unique \in Nat /\ c.last \in Nat
      /\ c.scores \in ScoreType /\ c.signals \in SignalType
  BY <1>3, TopicFields
<1> HIDE DEF c
<1>5. c \in TopicRow
  BY <1>2, <1>4, TopicRowIs
<1>6. PICK g, s : g = new.signals /\ s = Changed(read.scores, new.scores, row.scores)
  OBVIOUS
<1>7. g \in SignalType /\ s \in ScoreType
  BY <1>6, TopicFields, ChangedScores
<1>8. [c EXCEPT !.signals = g, !.scores = s] \in TopicRow
  BY <1>5, <1>7, TopicRowIs
<1> QED BY <1>6, <1>8 DEF c

-----------------------------------------------------------------------------
(* Learning: every table and every transaction keeps its type. *)

\* A row tells of no mistake at all, or it counts one.
WholeRow(r) ==
  r \in MistakeRow /\ (r = NoMistake \/ (r.status # "none" /\ r.count \in Nat \ {0}))

\* An answer has one turn, in the history of its quiz.
TurnsInv ==
  \A q \in QuizIds : \A i, k \in DOMAIN settled[q] :
    /\ accepted[settled[q][i].id].quiz = q
    /\ settled[q][i].id = settled[q][k].id => i = k

\* The progress row and the copies of it that transactions hold can be stored,
\* their rows count mistakes, and what an event read as a mistake is one still:
\* so that a row merged of two is a row.  No two transactions have claimed the
\* same answer, and none an answer that is settled.
TypeInv ==
  /\ Len(accepted) <= MaxAnswers
  /\ \A q \in QuizIds : WholeRow(mistakes[q])
  /\ SoundTopic(topic)
  /\ \A j \in jobs :
       /\ j \in Job(DOMAIN j.rows) /\ SoundTopic(j.topic)
       /\ j.ids # {} /\ j.ids \cap Settled = {}
       /\ \A q \in DOMAIN j.rows : WholeRow(j.rows[q])
       /\ j.kind = "event" => \A q \in QuizIds : j.rows[q] # NoMistake => mistakes[q] # NoMistake
  /\ \A i, j \in jobs : i # j => i.ids \cap j.ids = {}
  /\ TurnsInv

\* One answer makes a whole row of a whole row and never forgets a mistake.
LEMMA AnswerWhole ==
  ASSUME NEW row, WholeRow(row), NEW answer \in StoredAnswer, NEW day \in Nat
  PROVE  /\ WholeRow(AfterAnswer(row, answer, day))
         /\ row # NoMistake => AfterAnswer(row, answer, day) # NoMistake
<1> DEFINE new == AfterAnswer(row, answer, day)
<1>1. new \in MistakeRow
  BY AnswerTyped DEF WholeRow
<1>2. new = row \/ new = Wrong(row) \/ (new = Success(row, day) /\ row.status \notin {"none", "resolved"})
  BY DEF AfterAnswer, Success
<1>3. Wrong(row).status # "none" /\ Wrong(row).count \in Nat \ {0}
  BY DEF Wrong, WholeRow, MistakeRow
<1>4. ASSUME row.status \notin {"none", "resolved"}
      PROVE  Success(row, day).status # "none" /\ Success(row, day).count \in Nat \ {0}
  <2>1. row.count \in Nat \ {0}
    BY <1>4 DEF WholeRow, NoMistake
  <2>2. Success(row, day).count = row.count
    BY <1>4 DEF Success, WholeRow, MistakeRow
  <2>3. Success(row, day).status \in {"resolved", "improved"}
    BY <1>4 DEF Success, WholeRow, MistakeRow
  <2> QED BY <2>1, <2>2, <2>3
<1>5. NoMistake.status = "none"
  BY DEF NoMistake
<1> HIDE DEF new
<1>6. new = row \/ (new.status # "none" /\ new.count \in Nat \ {0})
  BY <1>2, <1>3, <1>4
<1> QED BY <1>1, <1>5, <1>6 DEF WholeRow, new

\* So do the answers of a batch.
LEMMA ReplayWhole ==
  ASSUME NEW row, WholeRow(row), NEW ids \in SUBSET Nat, IsFiniteSet(ids),
         \A id \in ids : accepted[id] \in StoredAnswer
  PROVE  WholeRow(Replay(row, ids))
<1>1. PICK g : IsReplay(g, row, ids) /\ Replay(row, ids) = g[ids]
  BY ReplayFolds
<1> DEFINE Bad == {s \in SUBSET ids : ~WholeRow(g[s])}
           R   == StrictSubsetOrdering(ids)
<1> SUFFICES ASSUME Bad # {}
             PROVE  FALSE
  BY <1>1
<1>2. PICK s \in Bad : \A r \in Bad : <<r, s>> \notin R
  <2>1. IsWellFoundedOn(R, FiniteSubsetsOf(ids))
    BY FS_StrictSubsetOrderingWellFounded
  <2>2. Bad \subseteq FiniteSubsetsOf(ids)
    BY FS_Subset DEF FiniteSubsetsOf
  <2> HIDE DEF Bad, R
  <2> QED BY <2>1, <2>2, WFMin
<1>3. CASE s = {}
  BY <1>1, <1>3 DEF IsReplay
<1>4. CASE s # {}
  <2> DEFINE m == Max(s)
  <2>1. m \in s
    BY <1>4, FS_Subset, LatestAnswer
  <2>2. WholeRow(g[s \ {m}])
    <3>1. <<s \ {m}, s>> \in R
      BY <2>1 DEF StrictSubsetOrdering
    <3> QED BY <1>2, <3>1
  <2>3. g[s] = AfterAnswer(g[s \ {m}], accepted[m], accepted[m].day)
    BY <1>1, <1>4 DEF IsReplay
  <2>4. accepted[m] \in StoredAnswer /\ accepted[m].day \in Nat
    BY <2>1 DEF StoredAnswer
  <2>5. WholeRow(g[s])
    <3> PICK r, a, d : r = g[s \ {m}] /\ a = accepted[m] /\ d = accepted[m].day
      OBVIOUS
    <3>1. WholeRow(AfterAnswer(r, a, d))
      BY <2>2, <2>4, AnswerWhole
    <3> QED BY <2>3, <3>1
  <2> QED BY <2>5
<1> QED BY <1>3, <1>4

\* And so does an event that merges what it made of the row it read into the row
\* of now, since that tells of a mistake if the one it read did.
LEMMA MergedWhole ==
  ASSUME NEW read, WholeRow(read), NEW answer \in StoredAnswer, NEW day \in Nat,
         NEW row, WholeRow(row), read # NoMistake => row # NoMistake
  PROVE  LET new   == AfterAnswer(read, answer, day)
             value == IF new = read THEN row
                      ELSE IF read = NoMistake THEN new ELSE Changed(read, new, row)
         IN WholeRow(value) /\ (row # NoMistake => value # NoMistake)
<1> DEFINE new == AfterAnswer(read, answer, day)
           c   == Changed(read, new, row)
<1>1. WholeRow(new) /\ (read # NoMistake => new # NoMistake)
  BY AnswerWhole
<1>2. CASE new = read
  BY <1>2
<1>3. CASE new # read /\ read = NoMistake
  <2>1. new # NoMistake
    BY <1>3
  <2> QED BY <1>1, <1>3, <2>1
<1>4. CASE new # read /\ read # NoMistake
  <2> HIDE DEF new
  <2>1. c \in MistakeRow
    BY <1>1, ChangedTyped DEF WholeRow
  <2>2. DOMAIN new = {"status", "count", "repeats", "days", "last"}
    BY <1>1 DEF WholeRow, MistakeRow
  <2>3. c.status \in {new.status, row.status} /\ c.count \in {new.count, row.count}
    BY <2>2 DEF Changed
  <2>4. c.status # "none" /\ c.count \in Nat \ {0}
    BY <1>1, <1>4, <2>3 DEF WholeRow
  <2>5. c # NoMistake
    BY <2>4 DEF NoMistake
  <2> HIDE DEF c
  <2>6. WholeRow(c)
    BY <2>1, <2>4 DEF WholeRow
  <2> QED BY <1>4, <2>5, <2>6 DEF c, new
<1> QED BY <1>2, <1>3, <1>4

\* The answers that take effect get turns of their own.
LEMMA TurnsGrow ==
  ASSUME DaysTypes, TurnsInv, NEW ids \in SUBSET DOMAIN accepted, ids \cap Settled = {},
         NEW d \in [ids -> Nat \ {0}], UNCHANGED accepted,
         settled' = [q \in QuizIds |->
           settled[q] \o [i \in 1 .. Cardinality(IdsOf(q, ids)) |->
             [id |-> Nth(IdsOf(q, ids), i), day |-> d[Nth(IdsOf(q, ids), i)]]]]
  PROVE  TurnsInv'
<1> SUFFICES ASSUME NEW q \in QuizIds
             PROVE  \A i, k \in DOMAIN settled'[q] :
                      /\ accepted'[settled'[q][i].id].quiz = q
                      /\ settled'[q][i].id = settled'[q][k].id => i = k
  BY DEF TurnsInv
<1>1. PICK own, n, old : own = IdsOf(q, ids) /\ n = Cardinality(own) /\ old = settled[q]
  OBVIOUS
<1>2. PICK new : new = [x \in 1 .. n |-> [id |-> Nth(own, x), day |-> d[Nth(own, x)]]]
  OBVIOUS
<1>3. settled'[q] = old \o new
  BY <1>1, <1>2
<1>4. own \in SUBSET ids /\ own \in SUBSET Nat /\ IsFiniteSet(own)
  <2>1. own \in SUBSET ids
    BY <1>1 DEF IdsOf
  <2> QED BY <2>1, AcceptedFacts
<1>5. n \in Nat
  BY <1>1, <1>4, FS_CardinalityType
<1>6. \A x \in 1 .. n : new[x].id \in own
  BY <1>1, <1>2, <1>4, NthFacts
<1>7. \A x, y \in 1 .. n : new[x].id = new[y].id => x = y
  BY <1>1, <1>2, <1>4, NthFacts
<1>8. \A x \in 1 .. n : accepted[new[x].id].quiz = q /\ new[x].id \notin Settled
  BY <1>1, <1>4, <1>6 DEF IdsOf
<1>9. /\ old \in Seq(Turn) /\ \A x \in DOMAIN old : old[x].id \in Settled
      /\ \A x, y \in DOMAIN old : accepted[old[x].id].quiz = q /\ (old[x].id = old[y].id => x = y)
  <2>1. old \in Seq(Turn)
    BY <1>1 DEF DaysTypes
  <2>2. \A x \in DOMAIN old : old[x].id \in Settled
    <3>1. \A x \in DOMAIN old : old[x] \in ToSet(old)
      BY DEF ToSet
    <3> QED BY <1>1, <3>1 DEF Settled
  <2> QED BY <1>1, <2>1, <2>2 DEF TurnsInv
<1>10. PICK l : l = Len(old) /\ l \in Nat /\ DOMAIN old = 1 .. l
  BY <1>9
<1>11. PICK s : s = old \o new
  OBVIOUS
<1>12. /\ DOMAIN s = 1 .. (l + n)
       /\ \A x \in 1 .. (l + n) : s[x] = IF x <= l THEN old[x] ELSE new[x - l]
  <2>1. new \in Seq(Turn) /\ Len(new) = n
    <3>1. \A x \in 1 .. n : new[x] \in Turn
      BY <1>1, <1>2, <1>4, NthFacts DEF Turn
    <3>2. new \in [1 .. n -> Turn]
      BY <1>2, <3>1
    <3>3. new \in Seq(Turn)
      BY <1>5, <3>2, SeqDef
    <3> QED BY <1>5, <3>2, <3>3
  <2>2. \A a, b \in Seq(Turn) :
          /\ a \o b \in Seq(Turn) /\ Len(a \o b) = Len(a) + Len(b)
          /\ \A x \in 1 .. Len(a) + Len(b) : (a \o b)[x] = IF x <= Len(a) THEN a[x] ELSE b[x - Len(a)]
    OBVIOUS
  <2>3. /\ s \in Seq(Turn) /\ Len(s) = l + n
        /\ \A x \in 1 .. (l + n) : s[x] = IF x <= l THEN old[x] ELSE new[x - l]
    BY <1>9, <1>10, <1>11, <2>1, <2>2
  <2> QED BY <2>3
<1>13. \A x \in 1 .. (l + n) :
         \/ x \in DOMAIN old /\ s[x] = old[x]
         \/ x > l /\ \E y \in 1 .. n : y = x - l /\ s[x] = new[y]
  <2> TAKE x \in 1 .. (l + n)
  <2>1. CASE x <= l
    <3>1. x \in DOMAIN old
      BY <1>10, <2>1
    <3> QED BY <1>12, <2>1, <3>1
  <2>2. CASE ~(x <= l)
    <3>1. x > l /\ x - l \in 1 .. n
      BY <1>5, <1>10, <2>2
    <3>2. s[x] = new[x - l]
      BY <1>12, <2>2
    <3> QED BY <3>1, <3>2
  <2> QED BY <2>1, <2>2
<1>14. \A x \in 1 .. (l + n) : accepted[s[x].id].quiz = q
  BY <1>8, <1>9, <1>13
<1>15. ASSUME NEW i \in 1 .. (l + n), NEW k \in 1 .. (l + n), s[i].id = s[k].id
       PROVE  i = k
  <2>1. CASE i \in DOMAIN old /\ k \in DOMAIN old /\ s[i] = old[i] /\ s[k] = old[k]
    BY <1>9, <1>15, <2>1
  <2>2. CASE i \in DOMAIN old /\ s[i] = old[i] /\ \E y \in 1 .. n : s[k] = new[y]
    BY <1>8, <1>9, <1>15, <2>2
  <2>3. CASE k \in DOMAIN old /\ s[k] = old[k] /\ \E y \in 1 .. n : s[i] = new[y]
    BY <1>8, <1>9, <1>15, <2>3
  <2>4. ASSUME NEW x \in 1 .. n, x = i - l, s[i] = new[x],
               NEW y \in 1 .. n, y = k - l, s[k] = new[y]
        PROVE  i = k
    <3>1. x = y
      BY <1>7, <1>15, <2>4
    <3> QED BY <1>5, <1>10, <2>4, <3>1
  <2> QED BY <1>13, <2>1, <2>2, <2>3, <2>4
<1>16. settled'[q] = s /\ accepted' = accepted
  BY <1>3, <1>11
<1> QED BY <1>12, <1>14, <1>15, <1>16

LEMMA TypeStart == LearningInit => TypeInv
<1> SUFFICES ASSUME LearningInit
             PROVE  TypeInv
  OBVIOUS
<1>1. Len(accepted) <= MaxAnswers
  BY LearningAssumption DEF LearningInit
<1>2. WholeRow(NoMistake)
  BY DEF WholeRow, NoMistake, MistakeRow
<1>3. SoundTopic(topic)
  <2>1. NoSignals \in SignalType
    BY DEF NoSignals, SignalType
  <2>2. 0 \in Percent /\ -1 \in PercentOrNone
    BY DEF Percent, PercentOrNone
  <2>3. [coverage |-> -1, stability |-> 0, weakness |-> 0, status |-> "new"] \in ScoreType
    BY <2>2 DEF ScoreType
  <2>4. NoTopic \in TopicRow
    BY <2>1, <2>2, <2>3, TopicRowIs DEF NoTopic
  <2>5. NoTopic.correct + NoTopic.wrong <= NoTopic.answered
    BY DEF NoTopic
  <2> QED BY <2>4, <2>5 DEF LearningInit, SoundTopic
<1>4. TurnsInv
  BY DEF LearningInit, TurnsInv
<1> QED BY <1>1, <1>2, <1>3, <1>4 DEF LearningInit, TypeInv

\* An answer is added, a day passes or a transaction is rolled back.
LEMMA TypeFrame ==
  ASSUME DaysTypes, TypeInv, jobs' \subseteq jobs, Len(accepted') <= MaxAnswers,
         \A id \in DOMAIN accepted : accepted'[id] = accepted[id],
         UNCHANGED <<settled, mistakes, topic>>
  PROVE  TypeInv'
<1>1. Settled' = Settled
  BY DEF Settled
<1>2. TurnsInv'
  <2>1. \A q \in QuizIds : \A i \in DOMAIN settled[q] : settled[q][i].id \in DOMAIN accepted
    BY SettledTurns
  <2> QED BY <2>1 DEF TypeInv, TurnsInv
<1>3. SoundTopic(topic)'
  BY DEF TypeInv, SoundTopic
<1> QED BY <1>1, <1>2, <1>3 DEF TypeInv

\* A transaction starts with rows and a progress row that are sound.
LEMMA TypeBegins ==
  ASSUME DaysTypes, TypeInv, NEW job, jobs' = jobs \cup {job},
         UNCHANGED <<accepted, settled, mistakes, topic>>,
         job \in Job(DOMAIN job.rows), job.topic = topic,
         job.ids # {}, job.ids \subseteq Outstanding,
         \A q \in DOMAIN job.rows : WholeRow(job.rows[q]),
         job.kind = "event" => job.rows = mistakes
  PROVE  TypeInv'
<1>1. Settled' = Settled
  BY DEF Settled
<1>2. TurnsInv' /\ SoundTopic(topic)'
  BY DEF TypeInv, TurnsInv, SoundTopic
<1>3. job.ids \cap Settled = {} /\ \A j \in jobs : job.ids \cap j.ids = {}
  BY DEF Outstanding
<1>4. SoundTopic(job.topic)
  BY DEF TypeInv
<1>5. \A i, j \in jobs' : i # j => i.ids \cap j.ids = {}
  BY <1>3 DEF TypeInv
<1>6. \A j \in jobs' :
        /\ j \in Job(DOMAIN j.rows) /\ SoundTopic(j.topic)
        /\ j.ids # {} /\ j.ids \cap Settled = {}
        /\ \A q \in DOMAIN j.rows : WholeRow(j.rows[q])
        /\ j.kind = "event" => \A q \in QuizIds : j.rows[q] # NoMistake => mistakes[q] # NoMistake
  BY <1>3, <1>4 DEF TypeInv
<1> QED BY <1>1, <1>2, <1>5, <1>6 DEF TypeInv

\* A transaction ends: its answers are settled and no mistake is forgotten.
LEMMA TypeEnds ==
  ASSUME DaysTypes, TypeInv, NEW job \in jobs, jobs' = jobs \ {job}, UNCHANGED accepted,
         Settled' = Settled \cup job.ids, TurnsInv', SoundTopic(topic'),
         \A q \in QuizIds : /\ WholeRow(mistakes'[q])
                            /\ mistakes[q] # NoMistake => mistakes'[q] # NoMistake
  PROVE  TypeInv'
<1>1. \A j \in jobs' : j.ids \cap Settled' = {}
  BY DEF TypeInv
<1>2. SoundTopic(topic)'
  BY DEF SoundTopic
<1>3. \A j \in jobs' : j.kind = "event" =>
        \A q \in QuizIds : j.rows[q] # NoMistake => mistakes'[q] # NoMistake
  BY DEF TypeInv
<1> QED BY <1>1, <1>2, <1>3 DEF TypeInv

LEMMA TypeBatchBegin ==
  ASSUME DaysTypes, TypeInv, NEW ids \in (SUBSET Outstanding) \ {{}}, BatchBegin(ids)
  PROVE  TypeInv'
<1>1. PICK rows, job : /\ rows = [q \in TouchedBy(ids) |-> Replay(mistakes[q], IdsOf(q, ids))]
                       /\ job = [kind |-> "batch", ids |-> ids, rows |-> rows, topic |-> topic]
  OBVIOUS
<1>2. jobs' = jobs \cup {job} /\ UNCHANGED <<accepted, settled, mistakes, topic>>
  BY <1>1 DEF BatchBegin
<1>3. ids \in SUBSET DOMAIN accepted
  BY DEF Outstanding
<1>4. DOMAIN rows = TouchedBy(ids) /\ TouchedBy(ids) \subseteq QuizIds
  BY <1>1, <1>3, AcceptedFacts DEF TouchedBy, Relevant, StoredAnswer
<1>5. \A q \in DOMAIN rows : WholeRow(rows[q])
  <2> TAKE q \in DOMAIN rows
  <2>1. PICK row, own : row = mistakes[q] /\ own = IdsOf(q, ids)
    OBVIOUS
  <2>2. WholeRow(row)
    BY <1>4, <2>1 DEF TypeInv
  <2>3. own \in SUBSET Nat /\ IsFiniteSet(own) /\ \A id \in own : accepted[id] \in StoredAnswer
    BY <1>3, <2>1, AcceptedFacts DEF IdsOf
  <2>4. WholeRow(Replay(row, own))
    BY <2>2, <2>3, ReplayWhole
  <2>5. rows[q] = Replay(row, own)
    BY <1>1, <1>4, <2>1
  <2> QED BY <2>4, <2>5
<1>6. ids \in SUBSET (1 .. MaxAnswers)
  BY <1>3, AcceptedFacts, LearningAssumption DEF TypeInv
<1>7. rows \in [DOMAIN rows -> MistakeRow]
  <2>1. rows = [q \in DOMAIN rows |-> rows[q]]
    BY <1>1
  <2> QED BY <1>5, <2>1 DEF WholeRow
<1>8. job.rows = rows /\ job.ids = ids /\ job.kind = "batch" /\ job.topic = topic
  BY <1>1
<1>9. job \in Job(DOMAIN rows)
  BY <1>1, <1>6, <1>7 DEF Job, TypeInv, SoundTopic
<1>10. job \in Job(DOMAIN job.rows)
  BY <1>8, <1>9
<1>11. job.kind # "event" /\ job.ids # {} /\ job.ids \subseteq Outstanding
  BY <1>8
<1>12. \A q \in DOMAIN job.rows : WholeRow(job.rows[q])
  BY <1>5, <1>8
<1> QED BY <1>2, <1>8, <1>10, <1>11, <1>12, TypeBegins

LEMMA TypeEventBegin ==
  ASSUME DaysTypes, TypeInv, NEW id \in Outstanding, EventBegin(id)
  PROVE  TypeInv'
<1>1. PICK rows, job : /\ rows = mistakes
                       /\ job = [kind |-> "event", ids |-> {id}, rows |-> rows, topic |-> topic]
  OBVIOUS
<1>2. jobs' = jobs \cup {job} /\ UNCHANGED <<accepted, settled, mistakes, topic>>
  BY <1>1 DEF EventBegin
<1>3. rows \in [QuizIds -> MistakeRow] /\ DOMAIN rows = QuizIds
  BY <1>1 DEF DaysTypes
<1>4. \A q \in DOMAIN rows : WholeRow(rows[q])
  BY <1>1, <1>3 DEF TypeInv
<1>5. id \in 1 .. MaxAnswers
  BY AcceptedFacts, LearningAssumption DEF TypeInv, Outstanding
<1>6. job.rows = rows /\ job.ids = {id} /\ job.kind = "event" /\ job.topic = topic
  BY <1>1
<1>7. job \in Job(DOMAIN rows)
  BY <1>1, <1>3, <1>5 DEF Job, TypeInv, SoundTopic
<1> QED BY <1>1, <1>2, <1>4, <1>6, <1>7, TypeBegins

LEMMA TypeBatchFinish ==
  ASSUME DaysTypes, TypeInv, NEW job \in jobs, BatchFinish(job)
  PROVE  TypeInv'
<1>1. PICK written, signals : written = WrittenBy(job) /\ signals = Signals(WrittenBy(job))
  OBVIOUS
<1>2. /\ jobs' = jobs \ {job} /\ mistakes' = written /\ UNCHANGED accepted
      /\ \E behind \in BOOLEAN : topic' = BatchTopic(topic, job, behind, signals)
  BY <1>1 DEF BatchFinish, BatchFinishWith
<1>3. /\ job.ids \in SUBSET DOMAIN accepted /\ job.ids # {} /\ job.ids \cap Settled = {}
      /\ DOMAIN job.rows \subseteq QuizIds /\ \A q \in DOMAIN job.rows : WholeRow(job.rows[q])
  BY DEF DaysTypes, TypeInv
<1>4. Settled' = Settled \cup job.ids
  BY <1>3, BatchSettles, SettledGrows
<1>5. TurnsInv
  BY DEF TypeInv
<1>7. TurnsInv'
  BY <1>2, <1>3, <1>5, BatchSettles, TurnsGrow
<1>8. /\ DOMAIN written = QuizIds
      /\ \A q \in QuizIds : \/ written[q] = mistakes[q]
                            \/ written[q] # NoMistake /\ q \in DOMAIN job.rows /\ written[q] = job.rows[q]
  BY <1>1 DEF WrittenBy
<1>9. \A q \in QuizIds : /\ WholeRow(written[q])
                         /\ mistakes[q] # NoMistake => written[q] # NoMistake
  BY <1>3, <1>8 DEF TypeInv
<1>10. signals \in SignalType
  <2>1. \A q \in Unresolved(written) : q \in QuizIds /\ written[q].status # "none"
    BY <1>8 DEF Unresolved
  <2>2. \A q \in Unresolved(written) : written[q].count \in Nat \ {0}
    BY <1>9, <2>1 DEF WholeRow, NoMistake
  <2>3. DOMAIN written \subseteq QuizIds
    BY <1>8
  <2> QED BY <1>1, <2>2, <2>3, SignalsTyped
<1>11. SoundTopic(topic')
  <2>1. SoundTopic(topic)
    BY DEF TypeInv
  <2>2. PICK behind \in BOOLEAN : topic' = BatchTopic(topic, job, behind, signals)
    BY <1>2
  <2>3. SoundTopic(BatchTopic(topic, job, behind, signals))
    BY <1>3, <1>10, <2>1, BatchTopicSound
  <2> QED BY <2>2, <2>3
<1> QED BY <1>2, <1>4, <1>7, <1>9, <1>11, TypeEnds

LEMMA TypeEventFinish ==
  ASSUME DaysTypes, TypeInv, NEW job \in jobs, EventFinish(job)
  PROVE  TypeInv'
<1>1. PICK id \in job.ids :
        LET answer == accepted[id]
            r      == answer.quiz
            old    == job.rows[r]
            new    == AfterAnswer(old, answer, today)
            row    == EventTopic(job.topic, answer, id, [job.rows EXCEPT ![r] = new])
        IN /\ job.kind = "event"
           /\ mistakes' = [mistakes EXCEPT ![r] =
                IF new = old THEN @ ELSE IF old = NoMistake THEN new ELSE Changed(old, new, @)]
           /\ topic' = [Changed(job.topic, row, topic) EXCEPT !.signals = row.signals,
                !.scores = Changed(job.topic.scores, row.scores, topic.scores)]
           /\ topic'.correct + topic'.wrong <= topic'.answered
           /\ jobs' = jobs \ {job} /\ UNCHANGED accepted
  BY DEF EventFinish
<1>2. PICK answer, day, q, read, row :
        /\ answer = accepted[id] /\ day = today /\ q = answer.quiz
        /\ read = job.rows[q] /\ row = mistakes[q]
  OBVIOUS
<1>3. PICK new, value :
        /\ new = AfterAnswer(read, answer, day)
        /\ value = IF new = read THEN row ELSE IF read = NoMistake THEN new ELSE Changed(read, new, row)
  OBVIOUS
<1>4. PICK seen : seen = [job.rows EXCEPT ![q] = new]
  OBVIOUS
<1>5. PICK base, made : base = job.topic /\ made = EventTopic(base, answer, id, seen)
  OBVIOUS
<1>6. /\ mistakes' = [mistakes EXCEPT ![q] = value]
      /\ topic' = [Changed(base, made, topic) EXCEPT !.signals = made.signals,
                     !.scores = Changed(base.scores, made.scores, topic.scores)]
  BY <1>1, <1>2, <1>3, <1>4, <1>5
<1>7. /\ job.ids \in SUBSET DOMAIN accepted /\ job.ids # {} /\ job.ids \cap Settled = {}
      /\ DOMAIN job.rows = QuizIds /\ \A p \in DOMAIN job.rows : WholeRow(job.rows[p])
      /\ \A p \in QuizIds : job.rows[p] # NoMistake => mistakes[p] # NoMistake
      /\ SoundTopic(base)
  BY <1>1, <1>5 DEF DaysTypes, TypeInv
<1>8. answer \in StoredAnswer /\ day \in Nat /\ q \in QuizIds
  <2>1. answer \in StoredAnswer
    BY <1>2, <1>7, AcceptedFacts
  <2> QED BY <1>2, <2>1 DEF StoredAnswer, DaysTypes
<1>9. WholeRow(read) /\ WholeRow(row) /\ (read # NoMistake => row # NoMistake)
  BY <1>2, <1>7, <1>8 DEF TypeInv
<1>10. WholeRow(new)
  BY <1>3, <1>8, <1>9, AnswerWhole
<1>11. WholeRow(value) /\ (row # NoMistake => value # NoMistake)
  BY <1>3, <1>8, <1>9, MergedWhole
<1>12. \A p \in QuizIds : /\ WholeRow(mistakes'[p])
                          /\ mistakes[p] # NoMistake => mistakes'[p] # NoMistake
  <2>1. \A p \in QuizIds : mistakes'[p] = IF p = q THEN value ELSE mistakes[p]
    BY <1>6 DEF DaysTypes
  <2> QED BY <1>2, <1>11, <2>1 DEF TypeInv
<1>13. Signals(seen) \in SignalType
  <2>1. DOMAIN seen = QuizIds /\ \A p \in QuizIds : seen[p] = IF p = q THEN new ELSE job.rows[p]
    BY <1>4, <1>7
  <2>2. \A p \in Unresolved(seen) : p \in QuizIds /\ seen[p].status # "none" /\ WholeRow(seen[p])
    BY <1>7, <1>10, <2>1 DEF Unresolved
  <2>3. \A p \in Unresolved(seen) : seen[p].count \in Nat \ {0}
    BY <2>2 DEF WholeRow, NoMistake
  <2>4. DOMAIN seen \subseteq QuizIds
    BY <2>1
  <2> QED BY <2>3, <2>4, SignalsTyped
<1>14. SoundTopic(topic')
  <2>1. made \in TopicRow
    BY <1>5, <1>7, <1>13, EventTopicTyped
  <2>2. base \in TopicRow /\ topic \in TopicRow
    BY <1>7 DEF TypeInv, SoundTopic
  <2>3. PICK now : now = topic
    OBVIOUS
  <2>4. [Changed(base, made, now) EXCEPT !.signals = made.signals,
           !.scores = Changed(base.scores, made.scores, now.scores)] \in TopicRow
    BY <2>1, <2>2, <2>3, ChangedTopic
  <2>5. topic' \in TopicRow
    BY <1>6, <2>3, <2>4
  <2> QED BY <1>1, <2>5 DEF SoundTopic
<1>15. Settled' = Settled \cup job.ids
  BY <1>7, EventSettles, SettledGrows
<1>16. TurnsInv
  BY DEF TypeInv
<1>17. TurnsInv'
  BY <1>1, <1>7, <1>16, EventSettles, TurnsGrow
<1> QED BY <1>1, <1>12, <1>14, <1>15, <1>17, TypeEnds

LEMMA TypeStep == DaysTypes /\ TypeInv /\ [LearningNext]_learningVars => TypeInv'
<1> SUFFICES ASSUME DaysTypes, TypeInv, [LearningNext]_learningVars
             PROVE  TypeInv'
  OBVIOUS
<1>1. ASSUME NEW q \in QuizIds,
             Accept(q, FALSE, FALSE) \/ Accept(q, TRUE, TRUE) \/ Accept(q, TRUE, FALSE)
      PROVE  TypeInv'
  <2>1. PICK answer : accepted' = Append(accepted, answer) /\ Len(accepted) < MaxAnswers
    BY <1>1 DEF Accept
  <2>2. UNCHANGED <<settled, mistakes, topic, jobs>>
    BY <1>1 DEF Accept
  <2>3. \A id \in DOMAIN accepted : accepted'[id] = accepted[id]
    BY <2>1 DEF DaysTypes
  <2>4. Len(accepted') <= MaxAnswers
    BY <2>1, LearningAssumption DEF DaysTypes
  <2> QED BY <2>2, <2>3, <2>4, TypeFrame
<1>2. CASE /\ jobs' \subseteq jobs
           /\ UNCHANGED <<accepted, settled, mistakes, topic>>
  BY <1>2, TypeFrame DEF TypeInv
<1>3. ASSUME NEW ids \in (SUBSET Outstanding) \ {{}}, BatchBegin(ids)
      PROVE  TypeInv'
  BY <1>3, TypeBatchBegin
<1>4. ASSUME NEW id \in Outstanding, EventBegin(id)
      PROVE  TypeInv'
  BY <1>4, TypeEventBegin
<1>5. ASSUME NEW job \in jobs, BatchFinish(job)
      PROVE  TypeInv'
  BY <1>5, TypeBatchFinish
<1>6. ASSUME NEW job \in jobs, EventFinish(job)
      PROVE  TypeInv'
  BY <1>6, TypeEventFinish
<1>7. ASSUME NEW job \in jobs, Fail(job)
      PROVE  TypeInv'
  BY <1>2, <1>7 DEF Fail
<1>8. CASE NextDay
  BY <1>2, <1>8 DEF NextDay
<1>9. CASE UNCHANGED learningVars
  BY <1>2, <1>9 DEF learningVars
<1> QED BY <1>1, <1>3, <1>4, <1>5, <1>6, <1>7, <1>8, <1>9 DEF LearningNext

\* An answer has one turn among all histories, so that there are as many settled
\* answers as turns.
LEMMA SettledCounted ==
  ASSUME DaysTypes, TurnsInv
  PROVE  Cardinality(Settled) = MapThenSumSet(LAMBDA q : Len(settled[q]), QuizIds)
<1> DEFINE f == [q \in QuizIds |-> Len(settled[q])]
           IsTotal(g) == g = [s \in SUBSET QuizIds |->
             IF s = {} THEN 0
             ELSE LET x == CHOOSE x \in s : TRUE IN Len(settled[x]) + g[s \ {x}]]
           total == MapThenSumSet(LAMBDA q : Len(settled[q]), QuizIds)
           T == Tokens(f, QuizIds)
           b == [t \in T |-> settled[t[1]][t[2]].id]
<1>1. IsFiniteSet(QuizIds)
  BY LearningAssumption
<1>2. \A q \in QuizIds : /\ settled[q] \in Seq(Turn) /\ Len(settled[q]) \in Nat
                         /\ DOMAIN settled[q] = 1 .. Len(settled[q])
  <2> TAKE q \in QuizIds
  <2>1. settled[q] \in Seq(Turn)
    BY DEF DaysTypes
  <2> QED BY <2>1
<1>3. \A q \in QuizIds : f[q] \in Nat /\ f[q] = Len(settled[q])
  BY <1>2
<1>4. total = Cardinality(T)
  <2>1. \A g : IsTally(g, f, QuizIds) <=> IsTotal(g)
    BY DEF IsTally
  <2>2. total = (CHOOSE g : IsTotal(g))[QuizIds]
    BY DEF MapThenSumSet, MapThenFoldSet
  <2> HIDE DEF IsTotal, total, f
  <2>3. \E g : IsTally(g, f, QuizIds)
    BY <1>1, <1>3, TallyExists
  <2>4. IsTotal(CHOOSE g : IsTotal(g))
    BY <2>1, <2>3
  <2>5. PICK g : IsTally(g, f, QuizIds) /\ total = g[QuizIds]
    BY <2>1, <2>2, <2>4
  <2> QED BY <1>1, <1>3, <2>5, TallyCounts
<1>5. IsFiniteSet(T)
  <2> HIDE DEF f
  <2> QED BY <1>1, <1>3, TokensFinite
<1>6. \A t : t \in T <=> \E q \in QuizIds : \E i \in DOMAIN settled[q] : t = <<q, i>>
  <2>1. \A t : t \in T <=> \E q \in QuizIds : \E i \in 1 .. f[q] : t = <<q, i>>
    BY DEF Tokens, Column
  <2> HIDE DEF T, f
  <2> QED BY <1>2, <1>3, <2>1
<1>7. \A id : id \in Settled <=> \E q \in QuizIds : \E i \in DOMAIN settled[q] : id = settled[q][i].id
  <2>1. \A q \in QuizIds : ToSet(settled[q]) = {settled[q][i] : i \in DOMAIN settled[q]}
    BY DEF ToSet
  <2>2. \A id : id \in Settled <=> \E q \in QuizIds : \E turn \in ToSet(settled[q]) : id = turn.id
    BY DEF Settled
  <2> QED BY <2>1, <2>2
<1>8. \A q \in QuizIds : \A i \in DOMAIN settled[q] :
        <<q, i>> \in T /\ b[<<q, i>>] = settled[q][i].id
  <2> HIDE DEF T
  <2> QED BY <1>6
<1>9. b \in [T -> Settled] /\ DOMAIN b = T
  <2> HIDE DEF T
  <2>1. \A t \in T : b[t] \in Settled
    BY <1>6, <1>7
  <2> QED BY <2>1
<1>10. \A id \in Settled : \E t \in T : b[t] = id
  <2> HIDE DEF T, b
  <2> TAKE id \in Settled
  <2>1. PICK q \in QuizIds : \E i \in DOMAIN settled[q] : id = settled[q][i].id
    BY <1>7
  <2>2. PICK i \in DOMAIN settled[q] : id = settled[q][i].id
    BY <2>1
  <2>3. <<q, i>> \in T /\ b[<<q, i>>] = id
    BY <1>8, <2>2
  <2> QED BY <2>3
<1>11. \A t, u \in T : b[t] = b[u] => t = u
  <2> SUFFICES ASSUME NEW t \in T, NEW u \in T, b[t] = b[u]
               PROVE  t = u
    OBVIOUS
  <2> HIDE DEF T, b
  <2>1. PICK q \in QuizIds : \E i \in DOMAIN settled[q] : t = <<q, i>>
    BY <1>6
  <2> PICK i \in DOMAIN settled[q] : t = <<q, i>>
    BY <2>1
  <2>2. PICK p \in QuizIds : \E k \in DOMAIN settled[p] : u = <<p, k>>
    BY <1>6
  <2> PICK k \in DOMAIN settled[p] : u = <<p, k>>
    BY <2>2
  <2>3. settled[q][i].id = settled[p][k].id
    BY <1>8
  <2>4. q = p
    BY <2>3 DEF TurnsInv
  <2>5. i = k
    BY <2>3, <2>4 DEF TurnsInv
  <2> QED BY <2>4, <2>5
<1> HIDE DEF T, b
<1>12. b \in Bijection(T, Settled)
  BY <1>9, <1>10, <1>11 DEF Bijection, Injection, Surjection, IsInjective
<1>13. Cardinality(Settled) = Cardinality(T)
  <2>1. ExistsBijection(T, Settled)
    BY <1>12 DEF ExistsBijection
  <2> QED BY <1>5, <2>1, FS_Bijection
<1> QED BY <1>4, <1>13 DEF total

LEMMA LearningTyped == DaysTypes /\ TypeInv => LearningTypeOK
<1> SUFFICES ASSUME DaysTypes, TypeInv
             PROVE  LearningTypeOK
  OBVIOUS
<1>1. \A id \in DOMAIN accepted : accepted[id] \in AnswerEvent(today)
  BY AcceptedFacts DEF DaysTypes, StoredAnswer, AnswerEvent
<1>2. topic \in TopicRow /\ topic.correct + topic.wrong <= topic.answered
  BY DEF TypeInv, SoundTopic
<1>3. Cardinality(Settled) = MapThenSumSet(LAMBDA q : Len(settled[q]), QuizIds)
  BY SettledCounted DEF TypeInv
<1>4. mistakes \in [QuizIds -> MistakeRow] /\ Settled \subseteq DOMAIN accepted
  BY DEF DaysTypes
<1>5. \A j \in jobs : DOMAIN j.rows \subseteq QuizIds /\ j \in Job(DOMAIN j.rows)
  BY DEF DaysTypes, TypeInv
<1>6. \A j \in jobs : j.ids \subseteq DOMAIN accepted \ Settled
  BY DEF DaysTypes, TypeInv
<1> QED BY <1>1, <1>2, <1>3, <1>4, <1>5, <1>6 DEF LearningTypeOK

\* The answers, the mistakes, the progress row and the transactions hold values
\* that their tables take: every share is between nothing and everything, also
\* when an event writes the columns it changed into a row that was changed under
\* it, and every answer is settled once and by no transaction under way.
THEOREM LearningTypeCorrect == LearningSpec => []LearningTypeOK
<1>1. LearningInit => DaysInv /\ TypeInv
  BY DaysInit, TypeStart
<1>2. DaysInv /\ TypeInv /\ [LearningNext]_learningVars => DaysInv' /\ TypeInv'
  BY DaysStep, TypeStep DEF DaysInv
<1>3. DaysInv /\ TypeInv => LearningTypeOK
  BY LearningTyped DEF DaysInv
<1> QED BY <1>1, <1>2, <1>3, PTL DEF LearningSpec
=============================================================================
