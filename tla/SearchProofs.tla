---------------------------- MODULE SearchProofs ----------------------------
(***************************************************************************)
(* What a rebuild leaves in the index and in the cache, for any number of  *)
(* searches and changes at the same time.                                  *)
(***************************************************************************)
EXTENDS Search, TLAPS

\* A rebuild has read the Nanos once it began, and has looked for the cached
\* answer when it comes to delete it.
RebuildShape ==
    \/ rebuild = Idling
    \/ /\ DOMAIN rebuild = {"step", "docs"}
       /\ rebuild.step \in {"drop", "create", "configure", "upload", "scan"}
    \/ /\ DOMAIN rebuild = {"step", "found"}
       /\ rebuild.step = "delete"

BeforeUpload == rebuild.step \in {"drop", "create", "configure", "upload"}

\* What RebuiltIndexIsPublished rests on: until the upload the documents are
\* in the hands of the rebuild.
DocumentsCurrent ==
    undisturbed =>
        (IF BeforeUpload THEN rebuild.docs ELSE index.docs) = Published

\* What CacheAgreesWithIndex rests on: an entry that the rebuild's scan did
\* not see was stored after it, with the index as it stays.
EntryAgrees == cache # NoEntry => cache.late \/ cache.hits = index.docs

EntryChecked ==
    \/ rebuild = Idling /\ ~missed
    \/ rebuild.step = "delete" /\ ~rebuild.found
    => EntryAgrees

SearchInv ==
    /\ RebuildShape
    /\ DOMAIN index = {"stage", "docs"}
    /\ DocumentsCurrent
    /\ EntryChecked

-----------------------------------------------------------------------------
\* Initially there is no entry and nothing is rebuilt.
LEMMA SearchInitInv == SearchInit => SearchInv
  BY DEF SearchInit, SearchInv, RebuildShape, DocumentsCurrent, EntryChecked,
         EntryAgrees

\* A step that leaves the Nanos, the index and the rebuild alone, and stores
\* no entry but one that says whether it is late.
LEMMA ReadersKeepInv ==
    ASSUME SearchInv, NEW hits,
           UNCHANGED <<nanoStatus, index, rebuild, missed, undisturbed>>,
           cache' \in {cache, NoEntry, Entry(hits)}
    PROVE  SearchInv'
<1>1. EntryAgrees => EntryAgrees'
  <2>1. Entry(hits).late \/ Entry(hits).hits = index.docs
    BY DEF Entry, Hits
  <2>q. QED BY <2>1 DEF EntryAgrees
<1>2. EntryChecked'
  BY <1>1 DEF SearchInv, EntryChecked
<1>3. DocumentsCurrent'
  BY DEF SearchInv, DocumentsCurrent, BeforeUpload, Published
<1>4. RebuildShape' /\ DOMAIN index' = {"stage", "docs"}
  BY DEF SearchInv, RebuildShape
<1>q. QED BY <1>2, <1>3, <1>4 DEF SearchInv

\* The first steps of a rebuild: the documents are kept, and the index is not
\* looked at.
LEMMA RebuildGoesOn ==
    ASSUME SearchInv, BeforeUpload, rebuild # Idling,
           NEW step \in {"create", "configure", "upload"}, GoOn(step),
           DOMAIN index' = {"stage", "docs"},
           nanoStatus' = nanoStatus, undisturbed' = undisturbed
    PROVE  SearchInv'
<1>1. DOMAIN rebuild = {"step", "docs"}
  BY DEF SearchInv, RebuildShape, BeforeUpload
<1>2. /\ DOMAIN rebuild' = {"step", "docs"}
      /\ rebuild'.step = step
      /\ rebuild'.docs = rebuild.docs
  BY <1>1 DEF GoOn
<1>3. RebuildShape' /\ BeforeUpload'
  BY <1>2 DEF RebuildShape, BeforeUpload
<1>4. DocumentsCurrent'
  BY <1>2, <1>3 DEF SearchInv, DocumentsCurrent, Published
<1>5. rebuild' # Idling /\ rebuild'.step # "delete"
  BY <1>2 DEF Idling
<1>6. EntryChecked'
  BY <1>5 DEF EntryChecked
<1>q. QED BY <1>3, <1>4, <1>6 DEF SearchInv

LEMMA SearchStep ==
    ASSUME SearchInv, [SearchNext]_searchVars
    PROVE  SearchInv'
<1>0. /\ Idling.step = "idle"
      /\ DOMAIN Idling = {"step"}
  BY DEF Idling
<1>1. ASSUME NEW s \in Searchers,
             SearchHit(s) \/ SearchMiss(s) \/ SearchFill(s) \/ SearchLeave(s)
      PROVE  SearchInv'
  BY <1>1, ReadersKeepInv
     DEF SearchHit, SearchMiss, SearchFill, SearchLeave, SearchUnchanged
<1>2. CASE CacheExpires
  BY <1>2, ReadersKeepInv DEF CacheExpires, SearchUnchanged
<1>3. ASSUME NEW e \in Editors, NEW n \in SearchNanos, NEW new \in Statuses,
             CommitChange(e, n, new)
      PROVE  SearchInv'
  <2>1. /\ ~undisturbed'
        /\ UNCHANGED <<index, cache, rebuild, missed>>
    BY <1>3 DEF CommitChange
  <2>q. QED BY <2>1 DEF SearchInv, RebuildShape, DocumentsCurrent,
                        EntryChecked, EntryAgrees
<1>4. ASSUME NEW e \in Editors,
             ChangeScan(e) \/ ChangeDelete(e) \/ ChangeNotInvalidated(e)
      PROVE  SearchInv'
  BY <1>4, ReadersKeepInv
     DEF ChangeScan, ChangeDelete, ChangeNotInvalidated, Delete
<1>5. CASE RebuildRead
  <2>1. /\ rebuild' = [step |-> "drop", docs |-> Published]
        /\ index' = index /\ nanoStatus' = nanoStatus
    BY <1>5 DEF RebuildRead, SearchDocuments
  <2>2. RebuildShape' /\ BeforeUpload' /\ rebuild'.step = "drop"
    BY <2>1 DEF RebuildShape, BeforeUpload
  <2>3. DocumentsCurrent'
    BY <2>1, <2>2 DEF DocumentsCurrent, Published
  <2>4. EntryChecked'
    BY <2>2, <1>0 DEF EntryChecked
  <2>q. QED BY <2>1, <2>2, <2>3, <2>4 DEF SearchInv
<1>6. CASE RebuildDrop \/ RebuildCreate \/ RebuildConfigure
  <2>1. DOMAIN index' = {"stage", "docs"}
    BY <1>6 DEF RebuildDrop, RebuildCreate, RebuildConfigure, SearchInv
  <2>2. BeforeUpload /\ rebuild # Idling
    BY <1>6, <1>0
       DEF RebuildDrop, RebuildCreate, RebuildConfigure, BeforeUpload
  <2>3. nanoStatus' = nanoStatus /\ undisturbed' = undisturbed
    BY <1>6 DEF RebuildDrop, RebuildCreate, RebuildConfigure, RebuildUnchanged
  <2>4. GoOn("create") \/ GoOn("configure") \/ GoOn("upload")
    BY <1>6 DEF RebuildDrop, RebuildCreate, RebuildConfigure
  <2>q. QED BY <2>1, <2>2, <2>3, <2>4, RebuildGoesOn
<1>7. CASE RebuildUpload
  <2>1. /\ rebuild.step = "upload"
        /\ index' = [index EXCEPT !.docs = rebuild.docs]
        /\ rebuild' = [rebuild EXCEPT !.step = "scan"]
        /\ nanoStatus' = nanoStatus /\ undisturbed' = undisturbed
    BY <1>7 DEF RebuildUpload, RebuildUnchanged, GoOn
  <2>2. DOMAIN rebuild = {"step", "docs"}
    BY <2>1, <1>0 DEF SearchInv, RebuildShape
  <2>3. /\ DOMAIN rebuild' = {"step", "docs"}
        /\ rebuild'.step = "scan"
    BY <2>1, <2>2
  <2>4. /\ DOMAIN index' = {"stage", "docs"}
        /\ index'.docs = rebuild.docs
    BY <2>1 DEF SearchInv
  <2>5. DocumentsCurrent'
    <3>1. undisturbed => rebuild.docs = Published
      BY <2>1 DEF SearchInv, DocumentsCurrent, BeforeUpload
    <3>2. ~BeforeUpload'
      BY <2>3 DEF BeforeUpload
    <3>q. QED BY <2>1, <2>4, <3>1, <3>2 DEF DocumentsCurrent, Published
  <2>6. EntryChecked'
    BY <2>3, <1>0 DEF EntryChecked
  <2>q. QED BY <2>3, <2>4, <2>5, <2>6 DEF SearchInv, RebuildShape
<1>8. CASE RebuildScan
  <2>1. /\ rebuild.step = "scan"
        /\ rebuild' = [step |-> "delete", found |-> Found]
        /\ UNCHANGED <<index, cache, nanoStatus, undisturbed>>
    BY <1>8 DEF RebuildScan, RebuildUnchanged
  <2>2. /\ DOMAIN rebuild' = {"step", "found"}
        /\ rebuild'.step = "delete"
        /\ rebuild'.found = (cache # NoEntry)
    BY <2>1 DEF Found
  <2>3. DocumentsCurrent'
    BY <2>1, <2>2 DEF SearchInv, DocumentsCurrent, BeforeUpload, Published
  <2>4. EntryChecked'
    BY <2>1, <2>2, <1>0 DEF EntryChecked, EntryAgrees
  <2>q. QED BY <2>1, <2>2, <2>3, <2>4 DEF SearchInv, RebuildShape
<1>9. CASE RebuildDelete
  <2>1. /\ rebuild.step = "delete"
        /\ cache' = IF rebuild.found THEN NoEntry ELSE cache
        /\ rebuild' = Idling
        /\ UNCHANGED <<index, nanoStatus, undisturbed>>
    BY <1>9 DEF RebuildDelete, RebuildUnchanged, Delete
  <2>2. DocumentsCurrent'
    BY <2>1, <1>0 DEF SearchInv, DocumentsCurrent, BeforeUpload, Published
  <2>3. EntryAgrees'
    <3>1. CASE rebuild.found
      BY <2>1, <3>1 DEF EntryAgrees
    <3>2. CASE ~rebuild.found
      BY <2>1, <3>2 DEF SearchInv, EntryChecked, EntryAgrees
    <3>q. QED BY <3>1, <3>2
  <2>4. EntryChecked'
    BY <2>3 DEF EntryChecked
  <2>q. QED BY <2>1, <2>2, <2>4 DEF SearchInv, RebuildShape
<1>10. CASE RebuildFail
  <2>1. /\ rebuild' = Idling /\ missed' /\ ~undisturbed' /\ index' = index
    BY <1>10 DEF RebuildFail
  <2>q. QED BY <2>1, <1>0 DEF SearchInv, RebuildShape, DocumentsCurrent,
                              EntryChecked
<1>11. CASE UNCHANGED searchVars
  BY <1>11, ReadersKeepInv DEF searchVars
<1>q. QED
  BY <1>1, <1>2, <1>3, <1>4, <1>5, <1>6, <1>7, <1>8, <1>9, <1>10, <1>11
     DEF SearchNext

LEMMA SearchInvHolds == SearchSpec => []SearchInv
  BY SearchInitInv, SearchStep, PTL DEF SearchSpec

\* What a rebuild leaves is what was published when it read the Nanos, and
\* still is if no change was committed since.
THEOREM RebuiltIndexHolds == SearchSpec => []RebuiltIndexIsPublished
<1>1. SearchInv => RebuiltIndexIsPublished
  BY DEF SearchInv, DocumentsCurrent, BeforeUpload, RebuiltIndexIsPublished
<1>q. QED BY SearchInvHolds, <1>1, PTL

\* An answer that was right when it was stored does not outlive the rebuild that
\* made it wrong, if the rebuild's invalidation succeeds.  What a search stores
\* late, out of date already, is left out; it goes away by expiry.
THEOREM CacheAgreesHolds == SearchSpec => []CacheAgreesWithIndex
<1>1. SearchInv => CacheAgreesWithIndex
  BY DEF SearchInv, EntryChecked, EntryAgrees, CacheAgreesWithIndex, Hits
<1>q. QED BY SearchInvHolds, <1>1, PTL

-----------------------------------------------------------------------------
(* The types *)

LEMMA SearchTypeInit == SearchInit => SearchTypeOK
<1> SUFFICES ASSUME SearchInit PROVE SearchTypeOK
  OBVIOUS
<1>1. 0 \in 0 .. ChangeBound /\ 0 \in 0 .. RebuildBound
  BY SearchBoundsAssumption
<1>q. QED BY <1>1 DEF SearchInit, SearchTypeOK, Statuses, Index

\* The documents published, and those of an answer
LEMMA SearchSets == /\ Published \in SUBSET SearchNanos
                    /\ Hidden \in SUBSET SearchNanos
  BY DEF Published, Hidden

\* A search, or an entry that expires
LEMMA ReadersTyped ==
    ASSUME SearchTypeOK,
           CacheExpires \/ \E s \in Searchers : \/ SearchHit(s)
                                               \/ SearchMiss(s)
                                               \/ SearchFill(s)
                                               \/ SearchLeave(s)
    PROVE  SearchTypeOK'
<1> DEFINE Answer == [step : {"queried", "answered"}, hits : SUBSET SearchNanos,
                      hidden : SUBSET SearchNanos]
           Stored == {NoEntry} \cup [hits : SUBSET SearchNanos, late : BOOLEAN]
<1>1. /\ search \in [Searchers -> {Idling} \cup Answer] /\ cache \in Stored
      /\ index.docs \in SUBSET SearchNanos
  BY DEF SearchTypeOK, Index
<1>2. /\ SearchUnchanged
      /\ cache' \in Stored /\ search' \in [Searchers -> {Idling} \cup Answer]
  <2>1. CASE CacheExpires
    BY <1>1, <2>1 DEF CacheExpires
  <2>2. ASSUME NEW s \in Searchers, SearchHit(s)
        PROVE  /\ SearchUnchanged /\ cache' = cache
               /\ search' \in [Searchers -> {Idling} \cup Answer]
    <3> DEFINE new == [step |-> "answered", hits |-> cache.hits, hidden |-> Hidden]
    <3>1. new \in Answer
      BY <1>1, <2>2, SearchSets DEF SearchHit
    <3> HIDE DEF new, Answer
    <3>2. search' = [search EXCEPT ![s] = new]
      BY <2>2 DEF SearchHit, new
    <3>q. QED BY <1>1, <2>2, <3>1, <3>2 DEF SearchHit
  <2>3. ASSUME NEW s \in Searchers, SearchMiss(s)
        PROVE  /\ SearchUnchanged /\ cache' = cache
               /\ search' \in [Searchers -> {Idling} \cup Answer]
    <3> DEFINE new == [step |-> "queried", hits |-> Hits, hidden |-> Hidden]
    <3>1. new \in Answer
      BY <1>1, SearchSets DEF Hits
    <3> HIDE DEF new, Answer
    <3>2. search' = [search EXCEPT ![s] = new]
      BY <2>3 DEF SearchMiss, new
    <3>q. QED BY <1>1, <2>3, <3>1, <3>2 DEF SearchMiss
  <2>4. ASSUME NEW s \in Searchers, SearchFill(s)
        PROVE  /\ SearchUnchanged /\ cache' \in Stored
               /\ search' \in [Searchers -> {Idling} \cup Answer]
    <3> DEFINE new == [search[s] EXCEPT !.step = "answered"]
    <3>1. search[s] \in Answer
      BY <1>1, <2>4 DEF SearchFill, Idling
    <3>2. new \in Answer
      BY <3>1
    <3>3. Entry(search[s].hits) \in Stored
      BY <3>1 DEF Entry
    <3>4. search' = [search EXCEPT ![s] = new]
      BY <2>4 DEF SearchFill
    <3> HIDE DEF new, Answer, Stored
    <3>q. QED BY <1>1, <2>4, <3>2, <3>3, <3>4 DEF SearchFill
  <2>5. ASSUME NEW s \in Searchers, SearchLeave(s)
        PROVE  /\ SearchUnchanged /\ cache' = cache
               /\ search' \in [Searchers -> {Idling} \cup Answer]
    <3> HIDE DEF Answer
    <3>q. QED BY <1>1, <2>5 DEF SearchLeave
  <2> HIDE DEF Answer, Stored
  <2>q. QED BY <1>1, <2>1, <2>2, <2>3, <2>4, <2>5
<1>q. QED BY <1>2 DEF SearchTypeOK, SearchUnchanged

\* A change, from its commit to its invalidation
LEMMA ChangesTyped ==
    ASSUME SearchTypeOK, NEW e \in Editors,
           \/ \E n \in SearchNanos, new \in Statuses : CommitChange(e, n, new)
           \/ ChangeScan(e)
           \/ ChangeDelete(e)
           \/ ChangeNotInvalidated(e)
    PROVE  SearchTypeOK'
<1> DEFINE Scan == [step : {"scan"}, nano : SearchNanos]
           Purge == [step : {"delete"}, nano : SearchNanos, found : BOOLEAN]
           States == {Idling} \cup Scan \cup Purge
<1>1. change \in [Editors -> States]
  BY DEF SearchTypeOK
<1>2. ASSUME NEW n \in SearchNanos, NEW new \in Statuses, CommitChange(e, n, new)
      PROVE  SearchTypeOK'
  <2>1. /\ nanoStatus' \in [SearchNanos -> Statuses]
        /\ UNCHANGED <<index, cache, search, rebuild, missed, rebuilds>>
        /\ undisturbed' = FALSE
    BY <1>2 DEF CommitChange, SearchTypeOK
  <2>2. changes' \in 0 .. ChangeBound
    BY <1>2, SearchBoundsAssumption DEF CommitChange, SearchTypeOK
  <2>3. change' \in [Editors -> States]
    <3>1. [step |-> "scan", nano |-> n] \in States
      OBVIOUS
    <3> HIDE DEF States
    <3>q. QED BY <1>1, <1>2, <3>1 DEF CommitChange
  <2>q. QED BY <2>1, <2>2, <2>3 DEF SearchTypeOK
<1>3. CASE ChangeScan(e)
  <2> DEFINE new == [step |-> "delete", nano |-> change[e].nano, found |-> Found]
  <2>1. new \in States
    <3>1. change[e] \in Scan
      BY <1>1, <1>3 DEF ChangeScan, Idling
    <3>2. Found \in BOOLEAN
      BY DEF Found
    <3>q. QED BY <3>1, <3>2
  <2>2. change' = [change EXCEPT ![e] = new]
    BY <1>3 DEF ChangeScan
  <2>3. change' \in [Editors -> States]
    <3> HIDE DEF States, new
    <3>q. QED BY <1>1, <2>1, <2>2
  <2>q. QED BY <1>3, <2>3 DEF ChangeScan, SearchTypeOK
<1>4. CASE ChangeDelete(e) \/ ChangeNotInvalidated(e)
  <2>1. change' \in [Editors -> States]
    <3>1. Idling \in States
      OBVIOUS
    <3>2. change' = [change EXCEPT ![e] = Idling]
      BY <1>4 DEF ChangeDelete, ChangeNotInvalidated
    <3> HIDE DEF States
    <3>q. QED BY <1>1, <3>1, <3>2
  <2>2. cache' \in {cache, NoEntry}
    BY <1>4 DEF ChangeDelete, ChangeNotInvalidated, Delete
  <2>3. UNCHANGED <<nanoStatus, index, search, rebuild, missed, undisturbed,
                    changes, rebuilds>>
    BY <1>4 DEF ChangeDelete, ChangeNotInvalidated
  <2>q. QED BY <2>1, <2>2, <2>3 DEF SearchTypeOK
<1>q. QED BY <1>2, <1>3, <1>4

\* The script, up to its end or failure
LEMMA RebuildTyped ==
    ASSUME SearchTypeOK,
           \/ RebuildRead \/ RebuildDrop \/ RebuildCreate \/ RebuildConfigure
           \/ RebuildUpload \/ RebuildScan \/ RebuildDelete \/ RebuildFail
    PROVE  SearchTypeOK'
<1> DEFINE Steps == {"drop", "create", "configure", "upload", "scan"}
           Working == [step : Steps, docs : SUBSET SearchNanos]
           Purge == [step : {"delete"}, found : BOOLEAN]
<1>1. rebuild \in {Idling} \cup Working \cup Purge /\ index \in Index
  BY DEF SearchTypeOK
<1>2. CASE RebuildRead
  <2>1. rebuild' \in Working
    BY <1>2, SearchSets DEF RebuildRead, SearchDocuments
  <2>2. rebuilds' \in 0 .. RebuildBound
    BY <1>2, SearchBoundsAssumption DEF RebuildRead, SearchTypeOK
  <2>q. QED BY <1>2, <2>1, <2>2 DEF RebuildRead, SearchTypeOK
<1>3. ASSUME NEW step \in Steps, GoOn(step), index' \in Index, rebuild \in Working,
             UNCHANGED <<cache, missed>>, RebuildUnchanged
      PROVE  SearchTypeOK'
  <2>1. rebuild' \in Working
    BY <1>3 DEF GoOn
  <2>q. QED BY <1>3, <2>1 DEF RebuildUnchanged, SearchTypeOK
<1>4. rebuild.step \in Steps => rebuild \in Working
  BY <1>1 DEF Idling
<1>5. CASE RebuildDrop
  BY <1>3, <1>4, <1>5 DEF RebuildDrop, Index
<1>6. CASE RebuildCreate
  BY <1>1, <1>3, <1>4, <1>6 DEF RebuildCreate, Index
<1>7. CASE RebuildConfigure
  BY <1>1, <1>3, <1>4, <1>7 DEF RebuildConfigure, Index
<1>8. CASE RebuildUpload
  <2>1. rebuild \in Working
    BY <1>4, <1>8 DEF RebuildUpload
  <2>2. index' \in Index
    BY <1>1, <1>8, <2>1 DEF RebuildUpload, Index
  <2>q. QED BY <1>3, <1>8, <2>1, <2>2 DEF RebuildUpload
<1>9. CASE RebuildScan
  <2>1. rebuild' \in Purge
    BY <1>9 DEF RebuildScan, Found
  <2>q. QED BY <1>9, <2>1 DEF RebuildScan, RebuildUnchanged, SearchTypeOK
<1>10. CASE RebuildDelete
  <2>1. cache' \in {cache, NoEntry}
    BY <1>10 DEF RebuildDelete, Delete
  <2>q. QED BY <1>10, <2>1 DEF RebuildDelete, RebuildUnchanged, SearchTypeOK
<1>11. CASE RebuildFail
  BY <1>11 DEF RebuildFail, SearchTypeOK
<1>q. QED BY <1>2, <1>5, <1>6, <1>7, <1>8, <1>9, <1>10, <1>11

\* However searches, changes and rebuilds meet, each goes through its own
\* steps with documents of Nanos there are, and the index and the cache stay
\* well formed.
THEOREM SearchTypeHolds == SearchSpec => []SearchTypeOK
<1>1. SearchTypeOK /\ [SearchNext]_searchVars => SearchTypeOK'
  <2> SUFFICES ASSUME SearchTypeOK, [SearchNext]_searchVars PROVE SearchTypeOK'
    OBVIOUS
  <2>1. CASE UNCHANGED searchVars
    BY <2>1 DEF searchVars, SearchTypeOK
  <2>q. QED BY <2>1, ReadersTyped, ChangesTyped, RebuildTyped DEF SearchNext
<1>q. QED BY <1>1, SearchTypeInit, PTL DEF SearchSpec
=============================================================================
