------------------------------ MODULE Catalog ------------------------------
(***************************************************************************)
(* The local quiz catalog: imports of snapshots (catalog/importer.py), the *)
(* selection of the next question (catalog/selection.py) and the counts    *)
(* kept in Redis for the menus (catalog/service.py).                       *)
(*                                                                         *)
(* An import is one transaction of a script, any number of which can run:  *)
(*                                                                         *)
(*          Load --> CheckVersion --> Upsert --> Flush --> Commit          *)
(*                                                                         *)
(* Each of its reads sees what was committed when it ran.  A flush waits   *)
(* for an import that holds the row of the same catalog version, and fails *)
(* on a row that has appeared since the import looked.  The script creates *)
(* no Redis client, so invalidate_local_catalog_cache returns at once and  *)
(* cached counts stay for their TTL.                                       *)
(*                                                                         *)
(* One catalog_id, language, level and theme.  An item is its id with its  *)
(* item version; its content is its checksum, which determines whether its *)
(* status may be shown and its selection_key.  Import run rows and the     *)
(* totals of quiz_catalogs are written and never read: left out.           *)
(***************************************************************************)
EXTENDS Integers, FiniteSets

CONSTANTS
  CatalogItems,  \* (item_id, item_version)
  Versions,      \* values of --catalog-version
  Checksums,     \* contents of an item, numbered by selection_key
  Showable,      \* contents whose status is active, published or reviewed
  NoCount,       \* nothing cached
  CountTtl,      \* local_catalog_cache_ttl_seconds, in ticks
  MaxImports,    \* bound: imports ever started
  MaxReaders     \* bound: searches and counts under way at once

ASSUME CatalogAssumption ==
  /\ IsFiniteSet(CatalogItems) /\ Showable \subseteq Checksums /\ Checksums \subseteq Nat
  /\ CountTtl \in Nat \ {0} /\ MaxImports \in Nat /\ MaxReaders \in Nat

VARIABLES
  catalogs,      \* versions with a row in quiz_catalogs
  catalogItems,  \* quiz_catalog_items
  imports,       \* import transactions under way
  importsBegun,  \* number of imports so far
  searches,      \* selections of a question under way
  countReaders,  \* requests between counting and caching
  cachedCount,   \* the count in Redis
  sinceCommit,   \* history: ticks since an import was committed, up to CountTtl
  versionsCrossed \* history: imports of two versions ran at once

catalogVars ==
  <<catalogs, catalogItems, imports, importsBegun, searches, countReaders, cachedCount,
    sinceCommit, versionsCrossed>>

counts == <<countReaders, cachedCount, sinceCommit>>

Row == [version : Versions, item : CatalogItems, checksum : Checksums, shown : BOOLEAN]

\* A snapshot holds some of the items, each with a content.
Snapshots == UNION {[S -> Checksums] : S \in (SUBSET CatalogItems) \ {{}}}

\* A request for a question between its two queries, and the count in Redis.
Search ==
  [excluded : SUBSET CatalogItems, threshold : Checksums, empty : BOOLEAN, crossed : BOOLEAN]
CachedCount == [count : Nat, crossed : BOOLEAN, left : 1 .. CountTtl]

ImportStages == {"loaded", "checked", "applied", "flushed"}
Import ==
  [n : 1 .. MaxImports, version : Versions, snapshot : Snapshots,
   existing : SUBSET Row,                \* the items it found
   known : BOOLEAN,                      \* it found the row of its catalog
   stage : ImportStages]

CatalogInit ==
  /\ catalogs = {} /\ catalogItems = {}
  /\ imports = {} /\ importsBegun = 0
  /\ searches = {} /\ countReaders = {} /\ cachedCount = NoCount
  /\ sinceCommit = CountTtl /\ versionsCrossed = FALSE

-----------------------------------------------------------------------------
(* Imports. *)

Advance(m, stage) == imports' = (imports \ {m}) \cup {[m EXCEPT !.stage = stage]}

\* load_catalog_snapshot and _existing_items.
Load(v, snap) ==
  /\ importsBegun < MaxImports
  /\ importsBegun' = importsBegun + 1
  /\ imports' = imports \cup
       {[n |-> importsBegun + 1, version |-> v, snapshot |-> snap, existing |-> catalogItems,
         known |-> FALSE, stage |-> "loaded"]}
  /\ versionsCrossed' = (versionsCrossed \/ \E m \in imports : m.version # v)
  /\ UNCHANGED <<catalogs, catalogItems, searches, counts>>

\* Mutant of SameVersion: versions are imported side by side.
SameVersionOrNot(m) == TRUE

\* _catalog_version_conflict: the catalog is new or has this version.
SameVersion(m) == catalogs \subseteq {m.version}

CheckVersion(m) ==
  /\ m.stage = "loaded" /\ SameVersion(m)
  /\ Advance(m, "checked")
  /\ UNCHANGED <<catalogs, catalogItems, importsBegun, searches, counts, versionsCrossed>>

\* _upsert_catalog looks again, for the row to insert or to update; with the
\* row of another version the items have no catalog to refer to.
Upsert(m) ==
  /\ m.stage = "checked" /\ SameVersion(m)
  /\ imports' = (imports \ {m}) \cup
                {[m EXCEPT !.stage = "applied", !.known = m.version \in catalogs]}
  /\ UNCHANGED <<catalogs, catalogItems, importsBegun, searches, counts, versionsCrossed>>

\* _apply_items: an item that was not there is added, one with another checksum
\* is changed, and the others, also those the snapshot lacks, are left alone.
Existing(m, i) == {r \in m.existing : r.item = i}
Added(m)   == {i \in DOMAIN m.snapshot : Existing(m, i) = {}}
Revised(m) == {r \in m.existing :
                 r.item \in DOMAIN m.snapshot /\ r.checksum # m.snapshot[r.item]}

NewRows(m) ==
  {[version |-> m.version, item |-> i, checksum |-> m.snapshot[i],
    shown |-> m.snapshot[i] \in Showable] : i \in Added(m)}

\* Only columns that differ from the ones the import read are written.
Rewritten(r, m) ==
  LET old == CHOOSE o \in Revised(m) : o.version = r.version /\ o.item = r.item
      new == m.snapshot[r.item]
  IN [r EXCEPT !.checksum = new,
               !.shown = IF old.shown = (new \in Showable) THEN r.shown ELSE new \in Showable]

Writes(m) ==
  NewRows(m) \cup
  {IF \E o \in Revised(m) : o.version = r.version /\ o.item = r.item
   THEN Rewritten(r, m) ELSE r : r \in catalogItems}

\* The keys of the rows it inserts are still free.
KeysFree(m) ==
  /\ m.known \/ m.version \notin catalogs
  /\ \A i \in Added(m) : \A r \in catalogItems : ~(r.version = m.version /\ r.item = i)

\* db.flush, which waits for a transaction that wrote the same catalog row,
\* and invalidate_local_catalog_cache without a Redis client.
Flush(m) ==
  /\ m.stage = "applied" /\ KeysFree(m)
  /\ \A o \in imports : o.stage = "flushed" => o.version # m.version
  /\ Advance(m, "flushed")
  /\ UNCHANGED <<catalogs, catalogItems, importsBegun, searches, counts, versionsCrossed>>

Commit(m) ==
  /\ m.stage = "flushed"
  /\ catalogs' = catalogs \cup {m.version}
  /\ catalogItems' = Writes(m)
  /\ imports' = imports \ {m}
  /\ searches' = {[s EXCEPT !.crossed = TRUE] : s \in searches}
  /\ countReaders' = {[r EXCEPT !.crossed = TRUE] : r \in countReaders}
  /\ sinceCommit' = 0
  /\ UNCHANGED <<importsBegun, cachedCount, versionsCrossed>>

\* A version conflict, a dry run, a key that is taken, a database error or the
\* end of the script: nothing of the import stays.
GiveUp(m) ==
  /\ imports' = imports \ {m}
  /\ UNCHANGED <<catalogs, catalogItems, importsBegun, searches, counts, versionsCrossed>>

-----------------------------------------------------------------------------
(* Selecting a question. *)

\* _base_query: of any version of the catalog.
Selectable(excluded) == {r \in catalogItems : r.shown /\ r.item \notin excluded}

\* Mutant of Seek: the threshold itself is in neither half.
SeekBeyond(excluded, threshold) == {r \in Selectable(excluded) : r.checksum > threshold}

\* _seek_query, from the threshold of the seed upwards and, wrapped, below it.
Seek(excluded, threshold) == {r \in Selectable(excluded) : r.checksum >= threshold}
SeekWrapped(excluded, threshold) == {r \in Selectable(excluded) : r.checksum < threshold}

\* Bound: searches and counts under way.
ReaderRoom == Cardinality(searches) + Cardinality(countReaders) < MaxReaders

\* next_question finds nothing in its first query.
SeekFails(excluded, threshold) ==
  /\ ReaderRoom
  /\ Seek(excluded, threshold) = {}
  /\ searches' = searches \cup
       {[excluded |-> excluded, threshold |-> threshold, empty |-> FALSE, crossed |-> FALSE]}
  /\ UNCHANGED <<catalogs, catalogItems, imports, importsBegun, counts, versionsCrossed>>

\* Its second query; without a row the learner is told there are no questions.
WrapAround(s) ==
  /\ ~s.empty
  /\ IF SeekWrapped(s.excluded, s.threshold) = {}
     THEN searches' = (searches \ {s}) \cup {[s EXCEPT !.empty = TRUE]}
     ELSE searches' = searches \ {s}
  /\ UNCHANGED <<catalogs, catalogItems, imports, importsBegun, counts, versionsCrossed>>

NoMoreQuestions(s) ==
  /\ s.empty
  /\ searches' = searches \ {s}
  /\ UNCHANGED <<catalogs, catalogItems, imports, importsBegun, counts, versionsCrossed>>

-----------------------------------------------------------------------------
(* Cached counts. *)

AvailableCount == Cardinality(Selectable({}))

\* get_availability, get_themes without a cached value (or with a Redis error).
CountItems ==
  /\ ReaderRoom
  /\ countReaders' = countReaders \cup {[count |-> AvailableCount, crossed |-> FALSE]}
  /\ UNCHANGED <<catalogs, catalogItems, imports, importsBegun, searches, cachedCount,
                 sinceCommit, versionsCrossed>>

\* _write_model_cache, unless Redis refuses.
CacheCount(r) ==
  /\ cachedCount' \in {[count |-> r.count, crossed |-> r.crossed, left |-> CountTtl], cachedCount}
  /\ countReaders' = countReaders \ {r}
  /\ UNCHANGED <<catalogs, catalogItems, imports, importsBegun, searches, sinceCommit,
                 versionsCrossed>>

\* Mutant of CountAfterTick: the key is set without ex.
CountForGood(c) == c

\* The key in Redis is gone at the end of its TTL.
CountAfterTick(c) ==
  IF c = NoCount \/ c.left = 1 THEN NoCount ELSE [c EXCEPT !.left = @ - 1]

\* Time passes.
CountTick ==
  /\ cachedCount' = CountAfterTick(cachedCount)
  /\ sinceCommit' = IF sinceCommit < CountTtl THEN sinceCommit + 1 ELSE sinceCommit
  /\ UNCHANGED <<catalogs, catalogItems, imports, importsBegun, searches, countReaders,
                 versionsCrossed>>

CatalogNext ==
  \/ \E v \in Versions, snap \in Snapshots : Load(v, snap)
  \/ \E m \in imports : \/ CheckVersion(m) \/ Upsert(m) \/ Flush(m) \/ Commit(m)
                        \/ GiveUp(m)
  \/ \E excluded \in SUBSET CatalogItems, k \in Checksums : SeekFails(excluded, k)
  \/ \E s \in searches : WrapAround(s) \/ NoMoreQuestions(s)
  \/ CountItems \/ CountTick
  \/ \E r \in countReaders : CacheCount(r)

CatalogSpec == CatalogInit /\ [][CatalogNext]_catalogVars

-----------------------------------------------------------------------------
CatalogTypeOK ==
  /\ catalogs \subseteq Versions /\ catalogItems \subseteq Row
  /\ imports \subseteq Import /\ importsBegun \in 0 .. MaxImports
  /\ searches \subseteq Search
  /\ countReaders \subseteq [count : Nat, crossed : BOOLEAN]
  /\ cachedCount \in CachedCount \cup {NoCount}
  /\ sinceCommit \in 0 .. CountTtl
  /\ versionsCrossed \in BOOLEAN

\* A catalog_id keeps the version it was first imported with, whatever imports
\* overlap, except that two first imports of different versions can both pass
\* the check; an item has one row of a version.
OneCatalogVersion ==
  /\ ~versionsCrossed => Cardinality(catalogs) <= 1
  /\ \A r, t \in catalogItems : r.version = t.version /\ r.item = t.item => r = t

\* A learner is told that no question is left only when none is, although the
\* search takes two queries: a commit between them is the one exception.
NoMoreOnlyWhenNoneLeft ==
  \A s \in searches : s.empty => s.crossed \/ Selectable(s.excluded) = {}

\* No import drops a cached count, so menus show what is no longer true; but
\* only for a TTL after the commit, unless a reader that had counted before the
\* commit stored its count after it.
WrongCountForOneTtl ==
  cachedCount # NoCount /\ cachedCount.count # AvailableCount
    => sinceCommit < CountTtl \/ cachedCount.crossed
=============================================================================
