----------------------------- MODULE MCServices -----------------------------
(* Eight services that share no state, on small instances in one model: the   *)
(* initial state chooses which of them a behaviour is about, and the others   *)
(* stay as they start.                                                        *)
EXTENDS MCLearning, TrainingSessions, WebhookAck, UpdateAdmission, Catalog,
        QuizBankClient, QuizBankCache, LearnerProfile

CONSTANTS malformed, third, v1, v2

\* Two levels with a theme each: a theme of one is no theme of the other.
ThemeIn(q)       == <<"theme", q>>
TwoThemes        == {ThemeIn(q) : q \in QuizIds}
OneGroup         == [t \in TwoThemes |-> "group"]
TwoSlugs         == [t \in TwoThemes |-> <<"slug", t[2]>>]
OneThemeOfALevel == [q \in QuizIds |-> {ThemeIn(q)}]

VARIABLE focus

servicesVars ==
  <<focus, sessionVars, learningVars, ackVars, admissionVars, catalogVars, bankVars,
    cacheVars, profileVars>>

ServicesInit ==
  /\ focus \in {"sessions", "learning", "ack", "admission", "catalog", "bank", "bankCache",
               "profile"}
  /\ SessionInit /\ LearningInit /\ AdmissionInit /\ AckInit
  /\ CatalogInit /\ BankInit /\ CacheInit /\ ProfileInit
  /\ focus = "ack" \/ (batched /\ ~early)

SessionStep ==
  /\ focus = "sessions" /\ SessionNext
  /\ UNCHANGED <<focus, learningVars, ackVars, admissionVars, catalogVars, bankVars,
                 cacheVars, profileVars>>

LearningStep ==
  /\ focus = "learning" /\ LearningNext
  /\ UNCHANGED <<focus, sessionVars, ackVars, admissionVars, catalogVars, bankVars,
                 cacheVars, profileVars>>

AckStep ==
  /\ focus = "ack" /\ AckNext
  /\ UNCHANGED <<focus, sessionVars, learningVars, admissionVars, catalogVars, bankVars,
                 cacheVars, profileVars>>

AdmissionStep ==
  /\ focus = "admission" /\ AdmissionNext
  /\ UNCHANGED <<focus, sessionVars, learningVars, ackVars, catalogVars, bankVars,
                 cacheVars, profileVars>>

CatalogStep ==
  /\ focus = "catalog" /\ CatalogNext
  /\ UNCHANGED <<focus, sessionVars, learningVars, ackVars, admissionVars, bankVars,
                 cacheVars, profileVars>>

BankStep ==
  /\ focus = "bank" /\ BankNext
  /\ UNCHANGED <<focus, sessionVars, learningVars, ackVars, admissionVars, catalogVars,
                 cacheVars, profileVars>>

BankCacheStep ==
  /\ focus = "bankCache" /\ CacheNext
  /\ UNCHANGED <<focus, sessionVars, learningVars, ackVars, admissionVars, catalogVars,
                 bankVars, profileVars>>

ProfileStep ==
  /\ focus = "profile" /\ ProfileNext
  /\ UNCHANGED <<focus, sessionVars, learningVars, ackVars, admissionVars, catalogVars,
                 bankVars, cacheVars>>

ServicesNext ==
  SessionStep \/ LearningStep \/ AckStep \/ AdmissionStep \/ CatalogStep \/ BankStep
  \/ BankCacheStep \/ ProfileStep

ServicesSpec == ServicesInit /\ [][ServicesNext]_servicesVars

\* Bound: one answer lock that expires, one handler that dies, or one session
\* that is asked for a question by two handlers at once.
OneSetback == aborts + expiries + Cardinality(asksCrossed) <= 1

\* Bound: open mistakes of one theme.
OneMistake == Cardinality(missed) <= 1

ServicesSymmetry == QuizSymmetry \cup Permutations({v1, v2})

\* Every service keeps the types of its tables, caches and handlers.
ServicesTypeOK ==
  CASE focus = "sessions"  -> SessionTypeOK
    [] focus = "learning"  -> LearningTypeOK
    [] focus = "ack"       -> AckTypeOK
    [] focus = "admission" -> AdmissionTypeOK
    [] focus = "catalog"   -> CatalogTypeOK
    [] focus = "bank"      -> BankTypeOK
    [] focus = "bankCache" -> CacheTypeOK
    [] focus = "profile"   -> ProfileTypeOK
=============================================================================
