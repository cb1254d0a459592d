------------------------------- MODULE Search -------------------------------
(***************************************************************************)
(* Search over published Nanos (app/modules/search/service.py): the        *)
(* Meilisearch index, which only rebuild_search_index writes, and the      *)
(* answers to one query cached in Redis for SEARCH_CACHE_TTL_SECONDS.      *)
(* Every change of a Nano commits and then invalidates the cache; the      *)
(* index is rebuilt by a script, in a process of its own.                  *)
(*                                                                         *)
(* Errors of Redis are swallowed.  The query to the index does not give    *)
(* way to other requests: it is one step with the lookup that missed.      *)
(***************************************************************************)
EXTENDS Integers

CONSTANTS
    SearchNanos,    \* Nanos that may be published
    Searchers,      \* slots for searches in progress
    Editors,        \* slots for changes of Nanos in progress
    ChangeBound,    \* bound: changes of Nanos
    RebuildBound    \* bound: rebuilds of the index

ASSUME SearchBoundsAssumption == ChangeBound \in Nat /\ RebuildBound \in Nat

VARIABLES
    nanoStatus,     \* nanoStatus[n]: the status committed in PostgreSQL
    index,          \* the index: its stage and its documents
    cache,          \* the cached answer, or NoEntry
    search,         \* search[s]: the search in slot s
    change,         \* change[e]: the change in slot e, after its commit
    rebuild,        \* the rebuild in progress
    missed,         \* an invalidation failed, or never came, since the last
    undisturbed,    \* the last rebuild did not fail, and no change was
                    \* committed since it read the Nanos
    changes,        \* changes so far
    rebuilds        \* rebuilds so far

searchVars == <<nanoStatus, index, cache, search, change, rebuild, missed,
                undisturbed, changes, rebuilds>>

Published == {n \in SearchNanos : nanoStatus[n] = "published"}

\* "missing": deleted; "bare": created, no attribute can be filtered on;
\* "ready": the settings are made.
Index == [stage : {"missing", "bare", "ready"}, docs : SUBSET SearchNanos]

\* MeilisearchClient.search filters on the status the document was given.
Hits == index.docs

NoEntry == [hits |-> "none"]

\* late: the answer was out of date when it was stored.
Entry(hits) == [hits |-> hits, late |-> hits # Hits]

Idling == [step |-> "idle"]

-----------------------------------------------------------------------------
(* A search *)

\* What the public should not find: hidden, by changes that are answered.
Hidden == {n \in SearchNanos \ Published :
             \A e \in Editors : change[e] # Idling => change[e].nano # n}

SearchUnchanged == UNCHANGED <<nanoStatus, index, change, rebuild, missed,
                               undisturbed, changes, rebuilds>>

\* The cache answers.
SearchHit(s) ==
    /\ search[s] = Idling
    /\ cache # NoEntry
    /\ search' = [search EXCEPT ![s] = [step |-> "answered",
                                        hits |-> cache.hits, hidden |-> Hidden]]
    /\ UNCHANGED cache
    /\ SearchUnchanged

\* There is no entry, or Redis fails: the index answers.  It refuses while it
\* is missing (503) or bare (500); a refusal changes nothing.
SearchMiss(s) ==
    /\ search[s] = Idling
    /\ index.stage = "ready"
    /\ search' = [search EXCEPT ![s] = [step |-> "queried", hits |-> Hits,
                                        hidden |-> Hidden]]
    /\ UNCHANGED cache
    /\ SearchUnchanged

\* _set_cached_search_response; the answer follows whether Redis took it.
SearchFill(s) ==
    /\ search[s].step = "queried"
    /\ cache' \in {cache, Entry(search[s].hits)}
    /\ search' = [search EXCEPT ![s].step = "answered"]
    /\ SearchUnchanged

SearchLeave(s) ==
    /\ search[s].step = "answered"
    /\ search' = [search EXCEPT ![s] = Idling]
    /\ UNCHANGED cache
    /\ SearchUnchanged

\* Variant: the entry is stored without an expiry.
CacheExpires_Never == FALSE /\ UNCHANGED searchVars

CacheExpires ==
    /\ cache # NoEntry
    /\ cache' = NoEntry
    /\ UNCHANGED search
    /\ SearchUnchanged

-----------------------------------------------------------------------------
(* Invalidation: the keys are scanned, those found are deleted *)

\* What the scan sees
Found == cache # NoEntry

Delete(found) == cache' = IF found THEN NoEntry ELSE cache

-----------------------------------------------------------------------------
(* A change of a Nano: a status update, a takedown, a review, a deletion *)

Statuses == {"draft", "published", "archived"}

CommitChange(e, n, new) ==
    /\ change[e] = Idling
    /\ changes < ChangeBound
    /\ nanoStatus[n] # new
    /\ nanoStatus' = [nanoStatus EXCEPT ![n] = new]
    /\ changes' = changes + 1
    /\ undisturbed' = FALSE
    /\ change' = [change EXCEPT ![e] = [step |-> "scan", nano |-> n]]
    /\ UNCHANGED <<index, cache, search, rebuild, missed, rebuilds>>

ChangeScan(e) ==
    /\ change[e].step = "scan"
    /\ change' = [change EXCEPT ![e] = [step |-> "delete", nano |-> @.nano,
                                        found |-> Found]]
    /\ UNCHANGED <<nanoStatus, index, cache, search, rebuild, missed,
                   undisturbed, changes, rebuilds>>

ChangeDelete(e) ==
    /\ change[e].step = "delete"
    /\ Delete(change[e].found)
    /\ change' = [change EXCEPT ![e] = Idling]
    /\ UNCHANGED <<nanoStatus, index, search, rebuild, missed, undisturbed,
                   changes, rebuilds>>

\* Redis fails in either call: the change is answered all the same.
ChangeNotInvalidated(e) ==
    /\ change[e] # Idling
    /\ change' = [change EXCEPT ![e] = Idling]
    /\ UNCHANGED <<nanoStatus, index, cache, search, rebuild, missed,
                   undisturbed, changes, rebuilds>>

-----------------------------------------------------------------------------
(* The rebuild *)

\* Variant: every Nano is read.
SearchDocuments_All == SearchNanos

\* _build_search_documents
SearchDocuments == Published

RebuildUnchanged ==
    UNCHANGED <<nanoStatus, search, change, undisturbed, changes, rebuilds>>

RebuildRead ==
    /\ rebuild = Idling
    /\ rebuilds < RebuildBound
    /\ rebuilds' = rebuilds + 1
    /\ undisturbed' = TRUE
    /\ rebuild' = [step |-> "drop", docs |-> SearchDocuments]
    /\ UNCHANGED <<nanoStatus, index, cache, search, change, missed, changes>>

GoOn(step) == rebuild' = [rebuild EXCEPT !.step = step]

\* DELETE of the index, and its task
RebuildDrop ==
    /\ rebuild.step = "drop"
    /\ index' = [stage |-> "missing", docs |-> {}]
    /\ GoOn("create")
    /\ UNCHANGED <<cache, missed>>
    /\ RebuildUnchanged

RebuildCreate ==
    /\ rebuild.step = "create"
    /\ index' = [index EXCEPT !.stage = "bare"]
    /\ GoOn("configure")
    /\ UNCHANGED <<cache, missed>>
    /\ RebuildUnchanged

\* The filterable, then the sortable attributes
RebuildConfigure ==
    /\ rebuild.step = "configure"
    /\ index' = [index EXCEPT !.stage = "ready"]
    /\ GoOn("upload")
    /\ UNCHANGED <<cache, missed>>
    /\ RebuildUnchanged

\* Variant: the cache is not invalidated.
RebuildUpload_KeepsCache ==
    /\ rebuild.step = "upload"
    /\ index' = [index EXCEPT !.docs = rebuild.docs]
    /\ rebuild' = Idling
    /\ UNCHANGED <<cache, missed>>
    /\ RebuildUnchanged

RebuildUpload ==
    /\ rebuild.step = "upload"
    /\ index' = [index EXCEPT !.docs = rebuild.docs]
    /\ GoOn("scan")
    /\ UNCHANGED <<cache, missed>>
    /\ RebuildUnchanged

RebuildScan ==
    /\ rebuild.step = "scan"
    /\ rebuild' = [step |-> "delete", found |-> Found]
    /\ UNCHANGED <<index, cache, missed>>
    /\ RebuildUnchanged

RebuildDelete ==
    /\ rebuild.step = "delete"
    /\ Delete(rebuild.found)
    /\ rebuild' = Idling
    /\ missed' = FALSE
    /\ UNCHANGED index
    /\ RebuildUnchanged

\* A request to the index or to Redis fails, a task fails or takes too long,
\* or the script is killed.  A task that timed out may still be carried out,
\* which is the state before the failure reached the script.
RebuildFail ==
    /\ rebuild # Idling
    /\ rebuild' = Idling
    /\ missed' = TRUE
    /\ undisturbed' = FALSE
    /\ UNCHANGED <<nanoStatus, index, cache, search, change, changes, rebuilds>>

-----------------------------------------------------------------------------
SearchInit ==
    /\ nanoStatus = [n \in SearchNanos |-> "draft"]
    /\ index = [stage |-> "missing", docs |-> {}]
    /\ cache = NoEntry
    /\ search = [s \in Searchers |-> Idling]
    /\ change = [e \in Editors |-> Idling]
    /\ rebuild = Idling
    /\ missed = FALSE
    /\ undisturbed = FALSE
    /\ changes = 0
    /\ rebuilds = 0

SearchNext ==
    \/ \E s \in Searchers : \/ SearchHit(s)
                            \/ SearchMiss(s)
                            \/ SearchFill(s)
                            \/ SearchLeave(s)
    \/ CacheExpires
    \/ \E e \in Editors :
          \/ \E n \in SearchNanos, new \in Statuses : CommitChange(e, n, new)
          \/ ChangeScan(e)
          \/ ChangeDelete(e)
          \/ ChangeNotInvalidated(e)
    \/ RebuildRead
    \/ RebuildDrop
    \/ RebuildCreate
    \/ RebuildConfigure
    \/ RebuildUpload
    \/ RebuildScan
    \/ RebuildDelete
    \/ RebuildFail

\* Redis expires what it stores.
SearchSpec ==
    /\ SearchInit
    /\ [][SearchNext]_searchVars
    /\ WF_searchVars(CacheExpires)

-----------------------------------------------------------------------------
(* Properties *)

\* The index, the cache and what is under way are well formed.
SearchTypeOK ==
    /\ nanoStatus \in [SearchNanos -> Statuses]
    /\ index \in Index
    /\ cache \in {NoEntry} \cup [hits : SUBSET SearchNanos, late : BOOLEAN]
    /\ search \in [Searchers -> {Idling} \cup
          [step : {"queried", "answered"}, hits : SUBSET SearchNanos,
           hidden : SUBSET SearchNanos]]
    /\ change \in [Editors -> {Idling}
          \cup [step : {"scan"}, nano : SearchNanos]
          \cup [step : {"delete"}, nano : SearchNanos, found : BOOLEAN]]
    /\ rebuild \in {Idling}
          \cup [step : {"drop", "create", "configure", "upload", "scan"},
                docs : SUBSET SearchNanos]
          \cup [step : {"delete"}, found : BOOLEAN]
    /\ missed \in BOOLEAN /\ undisturbed \in BOOLEAN
    /\ changes \in 0 .. ChangeBound
    /\ rebuilds \in 0 .. RebuildBound

\* The index a rebuild leaves holds the published Nanos, unless a change was
\* committed since the rebuild read them.
RebuiltIndexIsPublished ==
    undisturbed /\ rebuild.step \in {"scan", "delete", "idle"} =>
        index.docs = Published

\* A cached answer differs from the index's only while a rebuild is under way
\* or when its invalidation failed, or when the answer was out of date
\* already as it was stored.  What the last two leave behind is gone in the
\* end by SearchEventuallyCurrent.
CacheAgreesWithIndex ==
    cache # NoEntry /\ ~cache.late /\ ~missed /\ rebuild = Idling =>
        cache.hits = Hits

\* Once the index is left alone, no answer stays out of date: also an answer
\* stored too late, or one whose invalidation failed, is gone in the end.
SearchEventuallyCurrent == <>[](cache = NoEntry \/ cache.hits = Hits)

\* What was hidden before a search began is not among its hits.
SearchShowsPublishedOnly ==
    \A s \in Searchers : search[s].step = "answered" =>
        search[s].hits \cap search[s].hidden = {}
=============================================================================
