--------------------------- MODULE LearnerProfile ---------------------------
(* What one learner has chosen: the level and theme columns of the users row, *)
(* written by /start, the level and theme buttons, "continue" and "new        *)
(* training" (bot/handlers/start.py, level.py, theme.py, menu.py,             *)
(* training.py; repositories/users.py).                                       *)
(*                                                                            *)
(* A press is a transaction at READ COMMITTED that reads the row, inserts it  *)
(* when there is none, and at its flush writes only the columns whose value   *)
(* it changed from the one it read.  Keyboards stay in the chat for ever.     *)
(* Sessions are here only as the pair of the active one; TrainingSessions has *)
(* their races.  What the catalog offers does not change.                     *)
EXTENDS Naturals, FiniteSets

CONSTANTS
  Levels, Themes,  \* LEVELS, THEME_IDS
  Groups,          \* THEME_GROUPS
  GroupOf,         \* [Themes -> Groups]
  SlugOf,          \* [Themes -> theme_slug], what questions and mistakes call them
  Offered,         \* [Levels -> themes the catalog has items of]
  NoChoice,        \* NULL
  MaxPresses       \* bound: presses under way at once

ASSUME ProfileAssumption ==
  /\ GroupOf \in [Themes -> Groups] /\ Offered \in [Levels -> SUBSET Themes]
  /\ DOMAIN SlugOf = Themes
  /\ \A t \in Themes : SlugOf[t] \in Themes => SlugOf[t] = t
  /\ NoChoice \notin Levels \cup Themes \cup {SlugOf[t] : t \in Themes}
  /\ MaxPresses \in Nat

VARIABLES
  learner,     \* the users row, exists = FALSE before its insert
  round,       \* level and theme of the active session, and whether its
               \* "new training" button was sent
  missed,      \* level and theme of open mistakes
  shown,       \* keyboards in the chat
  presses,     \* handlers under way
  overlapped,  \* history: two of them were
  levelAlone   \* history: the level was saved after the theme

profileVars == <<learner, round, missed, shown, presses, overlapped, levelAlone>>

\* selected_theme and the theme of a session: an id or a slug.
ThemeNames == Themes \cup {SlugOf[t] : t \in Themes}

Choice == [level : Levels, theme : ThemeNames]

User == [exists : BOOLEAN, level : Levels \cup {NoChoice}, theme : ThemeNames \cup {NoChoice}]

\* is_known_theme_id: the saved theme is an id.
KnownTheme == learner.theme \in Themes

\* A question, and a mistake made in it, calls its theme by the slug.
MistakeIn(l, t) == [level |-> l, theme |-> SlugOf[t]]

\* The catalog finds questions by the id or by the slug of a theme.
Playable(l, name) == \E t \in Offered[l] : name \in {t, SlugOf[t]}

NoRound == [active |-> FALSE, level |-> NoChoice, theme |-> NoChoice, asked |-> FALSE]

ProfileInit ==
  /\ learner = [exists |-> FALSE, level |-> NoChoice, theme |-> NoChoice]
  /\ round = NoRound /\ missed = {}
  /\ shown = [levels |-> FALSE, groups |-> {}, themes |-> {}]
  /\ presses = {}
  /\ overlapped = FALSE /\ levelAlone = FALSE

-----------------------------------------------------------------------------
(* Keyboards. *)

ShowLevels == shown' = [shown EXCEPT !.levels = TRUE]

\* The group keyboard of a level, or the levels again when it has no themes.
ShowGroups(l) ==
  shown' = IF Offered[l] = {} THEN [shown EXCEPT !.levels = TRUE]
           ELSE [shown EXCEPT !.groups = @ \cup {l}]

\* Theme buttons of a group: only themes the level has items of.
Buttons(l, g) == {t \in Offered[l] : GroupOf[t] = g}

OnlyShown == UNCHANGED <<learner, round, missed, presses, overlapped, levelAlone>>

\* open_level_selection, the button of the group and theme keyboards.
ChangeLevel ==
  /\ shown.groups # {}
  /\ ShowLevels /\ OnlyShown

\* open_theme_selection, a button of the main menu that /menu always gives.
ChooseTheme ==
  /\ IF learner.level = NoChoice THEN ShowLevels ELSE ShowGroups(learner.level)
  /\ OnlyShown

\* open_theme_group; the keyboards of a level lead to one another.
OpenGroup(l, g) ==
  /\ l \in shown.groups /\ Buttons(l, g) # {}
  /\ shown' = [shown EXCEPT !.themes = @ \cup {[level |-> l, group |-> g]}]
  /\ OnlyShown

-----------------------------------------------------------------------------
(* Presses that open a transaction. *)

Press(kind, l, t) ==
  [kind |-> kind, n |-> CHOOSE n \in 0 .. MaxPresses : \A p \in presses : p.n # n,
   level |-> l, theme |-> t, loaded |-> kind = "continue", seen |-> learner]

BeginPress(p) ==
  /\ Cardinality(presses) < MaxPresses
  /\ presses' = presses \cup {p}
  /\ overlapped' = (overlapped \/ presses # {})
  /\ UNCHANGED <<learner, round, missed, shown, levelAlone>>

\* handle_start.
Start == BeginPress(Press("start", NoChoice, NoChoice))

\* level_selected.
SelectLevel(l) == shown.levels /\ BeginPress(Press("level", l, NoChoice))

\* handle_theme_selected; the button carries its level.
SelectTheme(l, t) ==
  /\ [level |-> l, group |-> GroupOf[t]] \in shown.themes /\ t \in Buttons(l, GroupOf[t])
  /\ BeginPress(Press("theme", l, t))

\* handle_start_new_training: the level and theme of the active session.
StartNewRound ==
  /\ round.active /\ round.asked
  /\ BeginPress(Press("new", round.level, round.theme))

\* continue_training without an active session: the saved pair is loaded in a
\* transaction of its own.
LoadSaved ==
  /\ ~round.active /\ learner.level # NoChoice /\ KnownTheme
  /\ BeginPress(Press("continue", learner.level, learner.theme))

\* continue_training without a level or without a theme id.
ContinueWithout ==
  /\ ~round.active /\ (learner.level = NoChoice \/ ~KnownTheme)
  /\ IF learner.level = NoChoice THEN ShowLevels ELSE ShowGroups(learner.level)
  /\ OnlyShown

\* start_saved_theme_training_from_message: the transaction of the pair loaded.
OpenSaved(p) ==
  /\ p.loaded
  /\ presses' = (presses \ {p}) \cup {[p EXCEPT !.loaded = FALSE, !.seen = learner]}
  /\ UNCHANGED <<learner, round, missed, shown, overlapped, levelAlone>>

\* create_if_missing: two inserts of one telegram_user_id do not both succeed.
InsertFits(p) == p.seen.exists \/ ~learner.exists

\* Mutant of Saved: the level of a theme button is not written to a row that
\* is there already.
SavedThemeOnly(p) ==
  [exists |-> TRUE,
   level  |-> IF p.seen.exists /\ p.kind # "level" THEN learner.level ELSE p.level,
   theme  |-> IF p.theme \in {NoChoice, p.seen.theme} THEN learner.theme ELSE p.theme]

\* set_training_preferences, create_or_update_from_telegram: None leaves a
\* column alone, and so does the value it had when it was read.
Saved(p) ==
  [exists |-> TRUE,
   level  |-> IF p.level \in {NoChoice, p.seen.level} THEN learner.level ELSE p.level,
   theme  |-> IF p.theme \in {NoChoice, p.seen.theme} THEN learner.theme ELSE p.theme]

\* The press starts a session: with one active, only "new training" does.
Starts(p) == p.kind = "new" \/ (p.kind \in {"theme", "continue"} /\ ~round.active)

\* A session of a pair; its first question is found before the commit.
RoundOf(l, name) == [active |-> TRUE, level |-> l, theme |-> name, asked |-> FALSE]

\* The session after a commit; the learner is asked about one that was active.
RoundAfter(p) ==
  IF Starts(p) THEN RoundOf(p.level, p.theme)
  ELSE IF p.kind \in {"theme", "continue"} THEN [round EXCEPT !.asked = TRUE] ELSE round

\* The commit of a press and what is shown after it.
CommitPress(p) ==
  /\ ~p.loaded /\ InsertFits(p) /\ (Starts(p) => Playable(p.level, p.theme))
  /\ learner' = Saved(p)
  /\ round' = RoundAfter(p)
  /\ levelAlone' = CASE p.kind = "start" -> levelAlone
                     [] p.kind = "level" -> levelAlone \/ p.level # learner.level
                     [] OTHER            -> FALSE
  /\ CASE p.kind = "start" -> IF p.seen.level = NoChoice THEN ShowLevels ELSE UNCHANGED shown
       [] p.kind = "level" -> ShowGroups(p.level)
       [] OTHER            -> UNCHANGED shown
  /\ presses' = presses \ {p}
  /\ UNCHANGED <<missed, overlapped>>

\* The database, the daily limit or the catalog refuses, or the insert finds
\* the row: rolled back.  /start and the level button go on all the same.
FailPress(p) ==
  /\ ~p.loaded
  /\ CASE p.kind = "start" -> ShowLevels
       [] p.kind = "level" -> ShowGroups(p.level)
       [] OTHER            -> UNCHANGED shown
  /\ presses' = presses \ {p}
  /\ UNCHANGED <<learner, round, missed, overlapped, levelAlone>>

\* handle_review_start: a session of the first open mistake, under its slug.
StartReviewRound(c) ==
  /\ ~round.active
  /\ round' = RoundOf(c.level, c.theme)
  /\ overlapped' = (overlapped \/ presses # {})
  /\ UNCHANGED <<learner, missed, shown, presses, levelAlone>>

\* The active session is completed or cancelled, perhaps with a mistake.
EndRound ==
  /\ round.active
  /\ round' = NoRound
  /\ \/ UNCHANGED missed
     \/ \E t \in Offered[round.level] :
          /\ round.theme \in {t, SlugOf[t]}
          /\ missed' = missed \cup {MistakeIn(round.level, t)}
  /\ UNCHANGED <<learner, shown, presses, overlapped, levelAlone>>

ProfileNext ==
  \/ ChangeLevel \/ ChooseTheme \/ ContinueWithout
  \/ Start \/ StartNewRound \/ LoadSaved \/ EndRound
  \/ \E l \in Levels : \/ SelectLevel(l)
                       \/ \E g \in Groups : OpenGroup(l, g)
                       \/ \E t \in Themes : SelectTheme(l, t)
  \/ \E c \in missed : StartReviewRound(c)
  \/ \E p \in presses : OpenSaved(p) \/ CommitPress(p) \/ FailPress(p)

ProfileSpec == ProfileInit /\ [][ProfileNext]_profileVars

-----------------------------------------------------------------------------
ProfileTypeOK ==
  /\ learner \in User
  /\ round = NoRound
     \/ round \in [active : {TRUE}, level : Levels, theme : ThemeNames, asked : BOOLEAN]
  /\ missed \subseteq Choice
  /\ shown \in [levels : BOOLEAN, groups : SUBSET Levels,
                themes : SUBSET [level : Levels, group : Groups]]
  /\ \A p \in presses : p.seen \in User /\ (p.kind \in {"theme", "new", "continue"} =>
                                           [level |-> p.level, theme |-> p.theme] \in Choice)
  /\ {overlapped, levelAlone} \subseteq BOOLEAN

\* "Continue" opens the saved pair without looking whether the level has the
\* theme.  Through keyboards that outlive a change of level, refused presses,
\* "new training" of an older session and a second /start, a theme is never
\* saved without a level, and the level offers it unless the level was changed
\* after it or two presses overlapped (each writes only the columns it changed).
SavedPairIsPlayable ==
  learner.theme # NoChoice =>
    /\ learner.level # NoChoice
    /\ overlapped \/ levelAlone \/ Playable(learner.level, learner.theme)
=============================================================================
