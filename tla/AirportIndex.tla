---------------------------- MODULE AirportIndex ----------------------------
(***************************************************************************)
(* The airports a visitor chooses from: the table, the search index that a *)
(* starting process fills from it when it finds the index empty, and the   *)
(* answers kept in the cache.  The index is filled without being awaited,  *)
(* so it is searched while it is being filled; an error there ends the     *)
(* process, as does an operator, and it is started again.                  *)
(*                                                                         *)
(* Words of a search are abstracted to an airport and the language of its  *)
(* name, or its code.  Ranking is left out, as is the search in the table  *)
(* that replaces the index in development.                                 *)
(***************************************************************************)
EXTENDS Integers, FiniteSets, Functions

CONSTANTS
  Airports,
  SameName, \* airports with one name in both languages, hence with one row
  Http,     \* searches in progress at the same time
  Limit     \* bound on the events, see Spend

Row(a, l) == [of |-> a, language |-> l]
English == {Row(a, "en") : a \in Airports}
Table == English \cup {Row(a, "ru") : a \in Airports \ SameName}
Queries == {[of |-> a, by |-> w] : a \in Airports, w \in {"code", "en", "ru"}}
None == [kept |-> FALSE, found |-> {}]

VARIABLES
  table,      \* the rows of airports
  index,      \* the index, whether it is there and has the mapping, and its documents
  sync,       \* where the process is, and the rows it holds
  late,       \* rows of a bulk request whose process has ended
  cache,      \* the answers that are kept, by query
  search,     \* the searches in progress
  partial,    \* history: the last bulk request had errors
  reloaded,   \* history: the table was loaded again
  miscounted, \* history: the documents could not be counted
  overtaken,  \* history: a bulk request outlived its process
  emptied,    \* history: an index with documents was deleted
  early,      \* history: queries whose answer is from an index that was not whole
  spent       \* events so far

vars == <<table, index, sync, late, cache, search, partial, reloaded, miscounted,
          overtaken, emptied, early, spent>>
history == <<partial, reloaded, miscounted, overtaken, emptied, early>>

Absent == [there |-> FALSE, mapped |-> FALSE, docs |-> {}]
Down == [at |-> "down", rows |-> {}]
Rest == [at |-> "rest", query |-> CHOOSE q \in Queries : TRUE, found |-> {}, whole |-> TRUE]
Whole == index.mapped /\ index.docs = Table

Spend == spent < Limit /\ spent' = spent + 1

Init ==
  /\ table = Table
  /\ index \in {Absent, [there |-> TRUE, mapped |-> TRUE, docs |-> Table]}
  /\ sync = Down /\ late = {}
  /\ cache = [q \in Queries |-> None]
  /\ search = [h \in Http |-> Rest]
  /\ partial = FALSE /\ reloaded = FALSE /\ miscounted = FALSE
  /\ overtaken = FALSE /\ emptied = FALSE /\ early = {} /\ spent = 0

-----------------------------------------------------------------------------
(* Filling the index.                                                      *)

Step(from, to) == sync.at = from /\ sync' = [sync EXCEPT !.at = to]

Start ==
  /\ Step("down", "count")
  /\ UNCHANGED <<table, index, late, cache, search, history, spent>>

\* onModuleInit
Counts ==
  /\ Step("count", IF index.docs = {} THEN "exists" ELSE "done")
  /\ UNCHANGED <<table, index, late, cache, search, history, spent>>

\* What cannot be counted counts as nothing.
CountFails ==
  /\ Spend
  /\ Step("count", "exists")
  /\ miscounted' = TRUE
  /\ UNCHANGED <<table, index, late, cache, search, partial, reloaded, overtaken,
                 emptied, early>>

\* prepareIndex
Looks ==
  /\ Step("exists", IF index.there THEN "delete" ELSE "create")
  /\ UNCHANGED <<table, index, late, cache, search, history, spent>>
Deletes ==
  /\ Step("delete", "create") /\ index.there
  /\ emptied' = (emptied \/ index.docs # {})
  /\ index' = Absent
  /\ UNCHANGED <<table, late, cache, search, partial, reloaded, miscounted,
                 overtaken, early, spent>>
Creates ==
  /\ Step("create", "query") /\ ~index.there
  /\ index' = [there |-> TRUE, mapped |-> TRUE, docs |-> {}]
  /\ UNCHANGED <<table, late, cache, search, history, spent>>

\* syncTable: a table without rows leaves the index empty.
ReadsTable ==
  /\ sync.at = "query"
  /\ sync' = IF table = {} THEN [at |-> "done", rows |-> {}]
                           ELSE [at |-> "bulk", rows |-> table]
  /\ UNCHANGED <<table, index, late, cache, search, history, spent>>

\* Rows of one id would replace each other.
Key(r) == <<r.of, r.language>>

\* What is in the index after the rows were sent and some met an error, which
\* is logged.  An index that is not there is made without the mapping.
Fill(rows, failed) ==
  \E docs \in SUBSET (rows \ failed) :
    /\ IsInjective([r \in docs |-> Key(r)])
    /\ {Key(r) : r \in docs} = {Key(r) : r \in rows \ failed}
    /\ index' = [there |-> TRUE, mapped |-> index.mapped,
                 docs |-> docs \cup {r \in index.docs : \A d \in docs : Key(d) # Key(r)}]
    /\ partial' = (failed # {})

FillsIndex ==
  /\ sync.at = "bulk"
  /\ \E failed \in {{}} \cup {{r} : r \in sync.rows} \cup {sync.rows} :
       /\ Fill(sync.rows, failed)
       /\ IF failed = {} THEN spent' = spent ELSE Spend
  /\ sync' = [at |-> "done", rows |-> {}]
  /\ UNCHANGED <<table, late, cache, search, reloaded, miscounted, overtaken,
                 emptied, early>>

\* The process ends, by an error of the filling or otherwise; a bulk request
\* that was sent goes on.
Stop ==
  /\ sync.at # "down"
  /\ Spend
  /\ sync' = Down
  /\ search' = [h \in Http |-> Rest]
  /\ late' \in {late, IF late = {} THEN sync.rows ELSE late}
  /\ UNCHANGED <<table, index, cache, history>>
Arrives ==
  /\ late # {}
  /\ Fill(late, {})
  /\ late' = {}
  /\ overtaken' = TRUE
  /\ UNCHANGED <<table, sync, cache, search, reloaded, miscounted, emptied, early,
                 spent>>

\* update.sql, statement by statement.
Truncate ==
  /\ table = Table /\ Spend
  /\ table' = {}
  /\ reloaded' = TRUE
  /\ UNCHANGED <<index, sync, late, cache, search, partial, miscounted, overtaken,
                 emptied, early>>
Copy ==
  /\ table # Table
  /\ table' = IF table = {} THEN English ELSE Table
  /\ UNCHANGED <<index, sync, late, cache, search, history, spent>>

-----------------------------------------------------------------------------
(* Searching.                                                              *)

\* getAirportsByName: a code is looked for as a whole, which takes the mapping,
\* and among the English names only; words, in the names.
Hits(q) ==
  {r \in index.docs : /\ r.of = q.of
                      /\ IF q.by = "code" THEN index.mapped /\ r.language = "en"
                                          ELSE r.language = q.by}

\* handleLookupAirportCode, which answers from the cache if it can.
Ask(h, q) ==
  /\ search[h].at = "rest" /\ sync.at \notin {"down", "count"}
  /\ ~cache[q].kept
  /\ Spend
  /\ search' = [search EXCEPT ![h] = [Rest EXCEPT !.at = "search", !.query = q]]
  /\ UNCHANGED <<table, index, sync, late, cache, history>>

\* Without an index the search throws, and nothing is kept.
Searches(h) ==
  /\ search[h].at = "search"
  /\ search' = [search EXCEPT ![h] =
       IF index.there THEN [at |-> "keep", query |-> search[h].query,
                            found |-> Hits(search[h].query), whole |-> Whole]
                      ELSE Rest]
  /\ UNCHANGED <<table, index, sync, late, cache, history, spent>>

\* The answer does not wait for redis to keep it; an empty one is kept as well.
Keeps(h) ==
  /\ search[h].at = "keep"
  /\ LET q == search[h].query IN
     /\ cache' = [cache EXCEPT ![q] = [kept |-> TRUE, found |-> search[h].found]]
     /\ early' = IF search[h].whole THEN early \ {q} ELSE early \cup {q}
  /\ search' = [search EXCEPT ![h] = Rest]
  /\ UNCHANGED <<table, index, sync, late, partial, reloaded, miscounted, overtaken,
                 emptied, spent>>

\* CACHE_TTL is over.
Expires(q) ==
  /\ cache[q].kept
  /\ cache' = [cache EXCEPT ![q] = None]
  /\ early' = early \ {q}
  /\ UNCHANGED <<table, index, sync, late, search, partial, reloaded, miscounted,
                 overtaken, emptied, spent>>

Next ==
  \/ Start \/ Counts \/ CountFails \/ Looks \/ Deletes \/ Creates \/ ReadsTable
  \/ FillsIndex \/ Stop \/ Arrives \/ Truncate \/ Copy
  \/ \E h \in Http : Searches(h) \/ Keeps(h) \/ \E q \in Queries : Ask(h, q)
  \/ \E q \in Queries : Expires(q)

Spec == Init /\ [][Next]_vars

-----------------------------------------------------------------------------
TypeOK ==
  /\ table \in {{}, English, Table}
  /\ index \in [there : BOOLEAN, mapped : BOOLEAN, docs : SUBSET Table]
  /\ sync \in [at : {"down", "count", "exists", "delete", "create", "query", "bulk",
                     "done"}, rows : SUBSET Table]
  /\ late \subseteq Table
  /\ cache \in [Queries -> [kept : BOOLEAN, found : SUBSET Table]]
  /\ search \in [Http -> [at : {"rest", "search", "keep"}, query : Queries,
                          found : SUBSET Table, whole : BOOLEAN]]
  /\ \A flag \in {partial, reloaded, miscounted, overtaken, emptied} : flag \in BOOLEAN
  /\ early \subseteq Queries /\ spent \in 0..Limit

\* An index with documents has every row and the mapping, and a process that is
\* done has one, but for rows that met errors, a table loaded in between and a
\* bulk request that outlived its process (runFullSync).
IndexWhole ==
  ~partial /\ ~reloaded /\ ~overtaken /\ (index.docs # {} \/ sync.at = "done") => Whole

\* An index with documents is not deleted by a start that could count them
\* (onModuleInit).
NotEmptied == emptied => miscounted \/ overtaken

\* The answers kept are those a whole index gives, the English row of a code and
\* the rows of a name, unless it was not whole when it was searched
\* (handleLookupAirportCode).
AnswersWhole ==
  \A q \in Queries : cache[q].kept /\ q \notin early =>
    cache[q].found = Table \cap {Row(q.of, IF q.by = "code" THEN "en" ELSE q.by)}

IndexConsistent == IndexWhole /\ NotEmptied /\ AnswersWhole
=============================================================================
