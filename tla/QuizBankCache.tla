---------------------------- MODULE QuizBankCache ----------------------------
(***************************************************************************)
(* What bot processes remember of the external quiz bank                   *)
(* (quiz_bank/service.py): themes and availability, each in the process    *)
(* and in Redis for the same TTL.                                          *)
(*                                                                         *)
(*      bank --> local and Redis          Redis --> local, for a new TTL   *)
(*                                                                         *)
(* The bank has no availability endpoint for every theme; then the answer  *)
(* is built from the themes, cached ones included, and cached in turn.     *)
(*                                                                         *)
(* A cached value has an age and the ticks that are left of its TTL.       *)
(* Fetching is one step: QuizBankClient shows what a call goes through.    *)
(* Levels and metadata are cached like the themes.                         *)
(***************************************************************************)
EXTENDS Integers

CONSTANTS
  Processes,     \* processes with a QuizBankService
  CacheTtl,      \* CACHE_TTL_SECONDS
  Missing        \* nothing cached, or no longer

ASSUME CacheAssumption == CacheTtl \in Nat \ {0}

VARIABLES
  localThemes, localCounts,     \* _cache of each process
  sharedThemes, sharedCounts    \* the keys in Redis

cacheVars == <<localThemes, localCounts, sharedThemes, sharedCounts>>

Cached == [age : Nat, left : 1 .. CacheTtl]

CacheInit ==
  /\ localThemes = [p \in Processes |-> Missing] /\ localCounts = [p \in Processes |-> Missing]
  /\ sharedThemes = Missing /\ sharedCounts = Missing

\* A value of this age, cached now.
Entry(age) == [age |-> age, left |-> CacheTtl]

\* Mutant of ReadShared: a value read from Redis is cached again in Redis.
ReadAndRefresh(shared) == Entry(shared.age)

\* _read_shared_cache: only the process caches the value anew.
ReadShared(shared) == shared

\* _get_cached finds the themes in Redis.
ReadThemes(p) ==
  /\ localThemes[p] = Missing /\ sharedThemes # Missing
  /\ localThemes' = [localThemes EXCEPT ![p] = Entry(sharedThemes.age)]
  /\ sharedThemes' = ReadShared(sharedThemes)
  /\ UNCHANGED <<localCounts, sharedCounts>>

ReadCounts(p) ==
  /\ localCounts[p] = Missing /\ sharedCounts # Missing
  /\ localCounts' = [localCounts EXCEPT ![p] = Entry(sharedCounts.age)]
  /\ sharedCounts' = ReadShared(sharedCounts)
  /\ UNCHANGED <<localThemes, sharedThemes>>

\* _set_cached: in the process, and in Redis unless it refuses.
RememberThemes(p) ==
  /\ localThemes' = [localThemes EXCEPT ![p] = Entry(0)]
  /\ sharedThemes' \in {sharedThemes, Entry(0)}

RememberCounts(p, age) ==
  /\ localCounts' = [localCounts EXCEPT ![p] = Entry(age)]
  /\ sharedCounts' \in {sharedCounts, Entry(age)}

\* get_themes without a cached value, or when Redis could not be read.
FetchThemes(p) ==
  /\ localThemes[p] = Missing
  /\ RememberThemes(p)
  /\ UNCHANGED <<localCounts, sharedCounts>>

\* get_availability, answered by the bank.
FetchCounts(p) ==
  /\ localCounts[p] = Missing
  /\ RememberCounts(p, 0)
  /\ UNCHANGED <<localThemes, sharedThemes>>

\* The bank answers 404: _availability_from_theme_catalog asks get_themes.
CountsFromThemes(p) ==
  /\ localCounts[p] = Missing
  /\ \/ /\ localThemes[p] # Missing
        /\ RememberCounts(p, localThemes[p].age)
        /\ UNCHANGED <<localThemes, sharedThemes>>
     \/ /\ localThemes[p] = Missing /\ sharedThemes # Missing
        /\ localThemes' = [localThemes EXCEPT ![p] = Entry(sharedThemes.age)]
        /\ sharedThemes' = ReadShared(sharedThemes)
        /\ RememberCounts(p, sharedThemes.age)
     \/ /\ localThemes[p] = Missing
        /\ RememberThemes(p)
        /\ RememberCounts(p, 0)

\* Time passes: a value grows older and is gone at the end of its TTL.
Older(e) ==
  IF e = Missing THEN Missing
  ELSE IF e.left = 1 THEN Missing ELSE [age |-> e.age + 1, left |-> e.left - 1]

CacheTick ==
  /\ localThemes' = [p \in Processes |-> Older(localThemes[p])]
  /\ localCounts' = [p \in Processes |-> Older(localCounts[p])]
  /\ sharedThemes' = Older(sharedThemes) /\ sharedCounts' = Older(sharedCounts)

CacheNext ==
  \/ \E p \in Processes : \/ ReadThemes(p) \/ ReadCounts(p) \/ FetchThemes(p) \/ FetchCounts(p)
                          \/ CountsFromThemes(p)
  \/ CacheTick

CacheSpec == CacheInit /\ [][CacheNext]_cacheVars

-----------------------------------------------------------------------------
CacheTypeOK ==
  /\ localThemes \in [Processes -> Cached \cup {Missing}]
  /\ localCounts \in [Processes -> Cached \cup {Missing}]
  /\ sharedThemes \in Cached \cup {Missing} /\ sharedCounts \in Cached \cup {Missing}

\* How old a value can be when it is used: it was cached k times, each time in
\* the last tick of the entry it was read from.
Oldest(k) == k * (CacheTtl - 1)

\* Redis and a process each keep the themes for a TTL, so a menu can show them
\* two TTLs after the bank said so; an availability built from cached themes
\* four, although it says it was generated now.  However processes read from
\* each other, nothing is handed on for longer.
ValuesWearOut ==
  \A p \in Processes :
    /\ localThemes[p] # Missing => localThemes[p].age <= Oldest(2)
    /\ localCounts[p] # Missing => localCounts[p].age <= Oldest(4)
=============================================================================
