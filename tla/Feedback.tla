------------------------------ MODULE Feedback ------------------------------
(***************************************************************************)
(* Ratings, comments and flags of Nanos, their moderation cases, and the   *)
(* rating cache in the Nano's row (app/modules/nanos/service.py and        *)
(* app/modules/moderation/service.py).                                     *)
(*                                                                         *)
(* As in NanoWorkflow every request is a transaction that decides on the   *)
(* rows it loaded and writes the columns whose value it changed.  Here a   *)
(* transaction flushes up to three rows, one after the other, and reads    *)
(* between the flushes: each flush waits for, and then holds, the lock of  *)
(* its row.  The flush of the last row is one step with the COMMIT.        *)
(*                                                                         *)
(* Who moderated a row, when and why is never read back and is left out.   *)
(***************************************************************************)
EXTENDS Integers, Sequences, FiniteSets, FiniteSetsExt

CONSTANTS
    Nanos,
    Ratings,      \* the ids of table nano_ratings
    Comments,     \* the ids of table nano_comments
    Flags,        \* the ids of table nano_flags
    NanoOf,       \* NanoOf[i] is nano_id
    AuthorOf,     \* AuthorOf[i] is user_id; unique with nano_id in its table
    Creator,      \* Creator[n] is nanos.creator_id
    Users,
    Moderators,   \* users whose token carries the role moderator or admin
    Contents,     \* scores; for a comment, versions of its text
    Requests,     \* slots for requests in progress
    Endpoints     \* the endpoints in use

Items == Ratings \cup Comments \cup Flags

AllEndpoints == {"create", "update", "moderate", "review", "queue"}

ASSUME ItemsAssumption ==
    /\ Ratings \cap Comments = {}
    /\ (Ratings \cup Comments) \cap Flags = {}
    /\ IsFiniteSet(Ratings)
    /\ NanoOf \in [Items -> Nanos]
    /\ AuthorOf \in [Items -> Users]
    /\ Contents \subseteq Nat \ {0}

ASSUME FeedbackCallersAssumption ==
    /\ Moderators \subseteq Users
    /\ Creator \in [Nanos -> Users]

ASSUME FeedbackEndpointsAssumption == Endpoints \subseteq AllEndpoints

VARIABLES
    item,         \* item[i]: the committed row of a rating, comment or flag
    case,         \* case[i]: its moderation case
    cache,        \* cache[n]: nanos.rating_count and nanos.average_rating
    published,    \* the Nanos with status published
    req           \* req[r]: the transaction of the request in slot r

vars == <<item, case, cache, published, req>>

-----------------------------------------------------------------------------
(* Rows *)

FeedbackStatuses == {"pending", "approved", "hidden"}
FlagStatuses == {"pending", "reviewed", "resolved", "closed"}

ItemRow ==
    [status : FeedbackStatuses \cup FlagStatuses \cup {"absent"},
     content : Contents \cup {0}]

AbsentItem == [status |-> "absent", content |-> 0]
\* Variant: what is new or edited is approved at once.
PendingItem_Approved(c) == [status |-> "approved", content |-> c]

PendingItem(c) == [status |-> "pending", content |-> c]
Exists(i) == item[i] # AbsentItem

CaseRow ==
    [status : {"none", "pending", "approved", "rejected", "deferred",
               "escalated"}]

NoCase == [status |-> "none"]
PendingCase == [status |-> "pending"]

\* average in hundredths.
CacheRow == [count : Nat, average : Nat]

\* Variant: the average is rounded to a whole number.
Aggregate_Whole(n, rows) ==
    LET approved == {i \in Ratings : /\ NanoOf[i] = n
                                     /\ rows[i].status = "approved"}
        count == Cardinality(approved)
        total == MapThenSumSet(LAMBDA i : rows[i].content, approved)
    IN [count |-> count,
        average |-> IF count = 0 THEN 0
                    ELSE 100 * ((2 * total + count) \div (2 * count))]

\* Count and average of the approved ratings of n, the average rounded half
\* up to two decimals.
Aggregate(n, rows) ==
    LET approved == {i \in Ratings : /\ NanoOf[i] = n
                                     /\ rows[i].status = "approved"}
        count == Cardinality(approved)
        total == MapThenSumSet(LAMBDA i : rows[i].content, approved)
    IN [count |-> count,
        average |-> IF count = 0 THEN 0
                    ELSE (200 * total + count) \div (2 * count)]

-----------------------------------------------------------------------------
(* What a flush writes: the columns whose value differs from the loaded one *)

Changes(old, new) ==
    [c \in {d \in DOMAIN old : new[d] # old[d]} |-> new[c]]

Apply(row, write) ==
    [c \in DOMAIN row |-> IF c \in DOMAIN write THEN write[c] ELSE row[c]]

NoChange == << >>

-----------------------------------------------------------------------------
(* Transactions *)

Decisions == {"approve", "reject", "defer", "escalate"}

Txn ==
    [endpoint : AllEndpoints, by : Users, item : Items,
     decision : Decisions \cup {"none"}, step : 1 .. 3,
     seen : Contents \cup {0}, loaded : CacheRow,
     item_write : {Changes(a, b) : a, b \in ItemRow},
     case_write : {Changes(a, b) : a, b \in CaseRow},
     cache_write : {NoChange} \cup [{"count"} -> Nat]
                     \cup [{"average"} -> Nat] \cup CacheRow,
     inserts : SUBSET Items]

NoTxn == [endpoint |-> "idle"]

EmptyCache == [count |-> 0, average |-> 0]

NewTxn(endpoint, u, i) ==
    [endpoint |-> endpoint, by |-> u, item |-> i, decision |-> "none",
     step |-> 1, seen |-> 0, loaded |-> EmptyCache,
     item_write |-> NoChange, case_write |-> NoChange,
     cache_write |-> NoChange, inserts |-> {}]

\* The endpoints under /nanos load the Nano, with its rating cache, first.
NanoTxn(endpoint, u, i) ==
    [NewTxn(endpoint, u, i) EXCEPT
       !.loaded = IF i \in Ratings THEN cache[NanoOf[i]] ELSE EmptyCache]

Begin(r, t) ==
    /\ t.endpoint \in Endpoints
    /\ req[r] = NoTxn
    /\ req' = [req EXCEPT ![r] = t]
    /\ UNCHANGED <<item, case, cache, published>>

Rollback(r) ==
    /\ req' = [req EXCEPT ![r] = NoTxn]
    /\ UNCHANGED <<item, case, cache, published>>

\* The rows a transaction flushes after its content, in their order.
AfterItem(t) == IF t.item \in Ratings THEN <<"cache">> ELSE << >>

\* Variant: an update does not go through upsert_moderation_case.
Order_UpdateNoCase(t) ==
    CASE t.endpoint = "create" -> <<"item">> \o AfterItem(t) \o <<"case">>
      [] t.endpoint \in {"update", "moderate"} -> <<"item">> \o AfterItem(t)
      [] t.endpoint = "review" ->
           IF t.decision \in {"approve", "reject"} \/ t.item \in Flags
           THEN <<"case", "item">> \o AfterItem(t) ELSE <<"case">>
      [] t.endpoint = "queue" -> <<"case">>

Order(t) ==
    CASE t.endpoint \in {"create", "update"} ->
           <<"item">> \o AfterItem(t) \o <<"case">>
      [] t.endpoint = "moderate" -> <<"item">> \o AfterItem(t)
      [] t.endpoint = "review" ->
           IF t.decision \in {"approve", "reject"} \/ t.item \in Flags
           THEN <<"case", "item">> \o AfterItem(t) ELSE <<"case">>
      [] t.endpoint = "queue" -> <<"case">>

NextTable(t) == Order(t)[t.step]

\* A decision stamps the rows it decides on, so it always writes them; any
\* other flush without a changed column issues no UPDATE.
Touches(t, table) ==
    CASE table = "item" -> \/ t.item_write # NoChange
                           \/ t.endpoint \in {"moderate", "review"}
      [] table = "case" -> t.case_write # NoChange \/ t.endpoint = "review"
      [] table = "cache" -> t.cache_write # NoChange

Holds(t, table) ==
    Touches(t, table) /\ \E k \in 1 .. t.step - 1 : Order(t)[k] = table

SameRow(t, s, table) ==
    IF table = "cache" THEN NanoOf[t.item] = NanoOf[s.item]
    ELSE t.item = s.item

WaitsFor(r, q) ==
    /\ r # q /\ req[r] # NoTxn /\ req[q] # NoTxn
    /\ LET table == NextTable(req[r]) IN
          /\ Touches(req[r], table)
          /\ Holds(req[q], table)
          /\ SameRow(req[r], req[q], table)

Blocked(r) == \E q \in Requests : WaitsFor(r, q)

\* A unique constraint refuses the INSERT: (nano_id, user_id) of the content,
\* or (content_type, content_id) of a case.
Duplicate(t) ==
    \/ NextTable(t) = "item" /\ t.endpoint = "create" /\ Exists(t.item)
    \/ NextTable(t) = "case" /\ \E i \in t.inserts : case[i] # NoCase

-----------------------------------------------------------------------------
(* The endpoints: what each loads, checks and decides *)

\* POST rating, comment or flag; nobody flags a Nano of his own.
LoadCreate(r, u, i, c) ==
    /\ NanoOf[i] \in published
    /\ AuthorOf[i] = u
    /\ i \in Flags => Creator[NanoOf[i]] # u
    /\ ~Exists(i)
    /\ Begin(r, [NanoTxn("create", u, i) EXCEPT
                   !.item_write = Changes(AbsentItem, PendingItem(c))])

\* Variant: an edit keeps the status.
LoadUpdate_KeepsStatus(r, u, i, c) ==
    /\ i \notin Flags
    /\ NanoOf[i] \in published
    /\ Exists(i)
    /\ u = AuthorOf[i] \/ (i \in Comments /\ u \in Moderators)
    /\ Begin(r, [NanoTxn("update", u, i) EXCEPT
                   !.item_write = Changes(item[i],
                                          [item[i] EXCEPT !.content = c])])

\* PATCH rating or comment: the author, for a comment also a moderator.
LoadUpdate(r, u, i, c) ==
    /\ i \notin Flags
    /\ NanoOf[i] \in published
    /\ Exists(i)
    /\ u = AuthorOf[i] \/ (i \in Comments /\ u \in Moderators)
    /\ Begin(r, [NanoTxn("update", u, i) EXCEPT
                   !.item_write = Changes(item[i], PendingItem(c))])

\* The moderation endpoints under /nanos, which know nothing of cases.
LoadModerate(r, u, i, status) ==
    /\ i \notin Flags
    /\ NanoOf[i] \in published
    /\ Exists(i)
    /\ u \in Moderators
    /\ Begin(r, [NanoTxn("moderate", u, i) EXCEPT
                   !.seen = item[i].content,
                   !.item_write = Changes(item[i],
                                          [item[i] EXCEPT !.status = status])])

CaseStatusOf ==
    [approve |-> "approved", reject |-> "rejected",
     defer |-> "deferred", escalate |-> "escalated"]

\* POST /moderation/cases/{id}/review, for a case decided before as well.
LoadReview(r, u, i, d) ==
    /\ u \in Moderators
    /\ case[i] # NoCase
    /\ Begin(r, [NewTxn("review", u, i) EXCEPT
                   !.decision = d,
                   !.case_write = Changes(case[i],
                                          [status |-> CaseStatusOf[d]])])

\* GET /moderation/queue gives a case to pending content that has none.
LoadQueue(r, u) ==
    LET missing == {i \in Ratings \cup Comments :
                       item[i].status = "pending" /\ case[i] = NoCase}
    IN /\ u \in Moderators
       /\ missing # {}
       /\ Begin(r, [NewTxn("queue", u, CHOOSE i \in missing : TRUE) EXCEPT
                      !.inserts = missing])

-----------------------------------------------------------------------------
(* What a transaction reads before it writes the next row *)

\* Variant: content takes over the status of its case.
StatusDecided_CaseStatus(i, d) == CaseStatusOf[d]

\* _apply_rating_decision, _apply_comment_decision, _apply_flag_decision
StatusDecided(i, d) ==
    IF i \in Flags
    THEN CASE d = "approve" -> "resolved"
           [] d = "reject" -> "closed"
           [] OTHER -> "reviewed"
    ELSE IF d = "approve" THEN "approved" ELSE "hidden"

ReadItem(t) ==
    [t EXCEPT !.seen = item[t.item].content,
              !.item_write = Changes(item[t.item],
                  [item[t.item] EXCEPT
                      !.status = StatusDecided(t.item, t.decision)])]

\* Variant: the aggregate is queried before the content is flushed.
ReadCache_Unflushed(t) ==
    LET n == NanoOf[t.item]
    IN [t EXCEPT !.loaded = EmptyCache,
                 !.cache_write =
                    Changes(IF t.endpoint = "review" THEN cache[n]
                            ELSE t.loaded, Aggregate(n, item))]

\* _sync_nano_rating_cache sees the committed rows and the one of its own.  A
\* review loads the Nano only now, the other endpoints did at the start.
ReadCache(t) ==
    LET n == NanoOf[t.item]
        rows == [item EXCEPT ![t.item] = Apply(@, t.item_write)]
    IN [t EXCEPT !.loaded = EmptyCache,
                 !.cache_write =
                    Changes(IF t.endpoint = "review" THEN cache[n]
                            ELSE t.loaded, Aggregate(n, rows))]

\* Variant: the upsert leaves a case it finds as it is.
ReadCase_InsertOnly(t) ==
    IF case[t.item] = NoCase
    THEN [t EXCEPT !.case_write = PendingCase, !.inserts = {t.item}]
    ELSE t

\* upsert_moderation_case inserts the case or resets the one it finds.
ReadCase(t) ==
    [t EXCEPT !.case_write = Changes(case[t.item], PendingCase),
              !.inserts = IF case[t.item] = NoCase THEN {t.item} ELSE {}]

Flush(r) ==
    LET t == [req[r] EXCEPT !.step = @ + 1] IN
    /\ req[r] # NoTxn
    /\ req[r].step < Len(Order(req[r]))
    /\ ~Blocked(r)
    /\ ~Duplicate(req[r])
    /\ req' = [req EXCEPT ![r] = CASE NextTable(t) = "item" -> ReadItem(t)
                                   [] NextTable(t) = "cache" -> ReadCache(t)
                                   [] NextTable(t) = "case" -> ReadCase(t)]
    /\ UNCHANGED <<item, case, cache, published>>

Commit(r) ==
    LET t == req[r] IN
    /\ t # NoTxn
    /\ t.step = Len(Order(t))
    /\ ~Blocked(r)
    /\ ~Duplicate(t)
    /\ item' = [item EXCEPT ![t.item] = Apply(@, t.item_write)]
    /\ cache' = [cache EXCEPT ![NanoOf[t.item]] = Apply(@, t.cache_write)]
    /\ case' = [i \in Items |->
                  IF i \in t.inserts THEN PendingCase
                  ELSE IF i = t.item THEN Apply(case[i], t.case_write)
                  ELSE case[i]]
    /\ req' = [req EXCEPT ![r] = NoTxn]
    /\ UNCHANGED published

\* Variant: the request retries until the duplicate is gone.
RefuseDuplicate_Retries(r) ==
    /\ req[r] # NoTxn
    /\ ~Blocked(r)
    /\ Duplicate(req[r])
    /\ UNCHANGED vars

\* Answered with 409 by the endpoints that create, with 500 by the others.
RefuseDuplicate(r) ==
    /\ req[r] # NoTxn
    /\ ~Blocked(r)
    /\ Duplicate(req[r])
    /\ Rollback(r)

-----------------------------------------------------------------------------
(* The environment *)

\* PostgreSQL ends one transaction of a cycle of waiting ones.
DeadlockVictim(r) ==
    /\ \E cycle \in SUBSET Requests :
          /\ r \in cycle
          /\ \A q \in cycle : /\ \E p \in cycle : WaitsFor(q, p)
                              /\ \E p \in cycle : WaitsFor(p, q)
    /\ Rollback(r)

\* The worker dies, or the connection is lost, before COMMIT.
Crash(r) ==
    /\ req[r] # NoTxn
    /\ Rollback(r)

\* NanoWorkflow publishes and withdraws Nanos.
ChangeVisibility(n) ==
    /\ published' = (published \ {n}) \cup ({n} \ published)
    /\ UNCHANGED <<item, case, cache, req>>

-----------------------------------------------------------------------------
\* Ratings and comments from before moderation cases were introduced.
Init ==
    /\ item \in [Items -> {AbsentItem} \cup
                          [status : FeedbackStatuses, content : Contents]]
    /\ \A i \in Flags : item[i] = AbsentItem
    /\ case = [i \in Items |-> NoCase]
    /\ cache = [n \in Nanos |-> Aggregate(n, item)]
    /\ published \in SUBSET Nanos
    /\ req = [r \in Requests |-> NoTxn]

Load(r) ==
    \E u \in Users :
        \/ LoadQueue(r, u)
        \/ \E i \in Items :
            \/ \E c \in Contents : LoadCreate(r, u, i, c)
                                   \/ LoadUpdate(r, u, i, c)
            \/ \E status \in {"approved", "hidden"} :
                   LoadModerate(r, u, i, status)
            \/ \E d \in Decisions : LoadReview(r, u, i, d)

Proceed(r) ==
    \/ Flush(r)
    \/ Commit(r)
    \/ RefuseDuplicate(r)
    \/ DeadlockVictim(r)

Next ==
    \/ \E r \in Requests : Load(r) \/ Proceed(r) \/ Crash(r)
    \/ \E n \in Nanos : ChangeVisibility(n)

Spec == Init /\ [][Next]_vars

\* As in NanoWorkflow: handlers are resumed, row locks are granted in turn.
FairSpec == Spec /\ \A r \in Requests : SF_vars(Proceed(r))

-----------------------------------------------------------------------------
(* Properties that hold however requests interleave *)

\* Rows, the cache and the requests in progress are well formed.
TypeOK ==
    /\ item \in [Items -> ItemRow]
    /\ \A i \in Items :
          item[i].status \in {"absent"} \cup (IF i \in Flags THEN FlagStatuses
                                              ELSE FeedbackStatuses)
    /\ case \in [Items -> CaseRow]
    /\ cache \in [Nanos -> CacheRow]
    /\ published \subseteq Nanos
    /\ req \in [Requests -> Txn \cup {NoTxn}]

\* upsert_moderation_case: whenever a rating or comment enters or re-enters
\* review it has a case afterwards, whatever a crash or another request does.
ReviewHasCase ==
    [][\A i \in Items :
          item[i].status # "pending" /\ item'[i].status = "pending" =>
             case'[i] # NoCase]_vars

\* Feedback becomes visible only when the request of a moderator or admin
\* commits; no update, creation or rollback makes it so.
OnlyModeratorsShow ==
    [][\A i \in Items :
          item[i].status # "approved" /\ item'[i].status = "approved" =>
             \E r \in Requests : /\ req[r] # NoTxn /\ req'[r] = NoTxn
                                 /\ req[r].item = i
                                 /\ req[r].by \in Moderators
                                 /\ req[r].endpoint \in {"moderate", "review"}]_vars

\* Every request is answered, although reviews lock the case before the
\* content and the authors' requests the content before the case.
EveryRequestEnds == \A r \in Requests : req[r] # NoTxn ~> req[r] = NoTxn

-----------------------------------------------------------------------------
(* Properties the code keeps while requests do not overlap *)

\* rating_count and average_rating are those of the approved ratings.
CacheMatches == \A n \in Nanos : cache[n] = Aggregate(n, item)

\* The average readers see is the mean of the approved scores, off by half a
\* hundredth at most, and 0 without one; rounded up where two are as near.
AverageIsNearest ==
    \A n \in Nanos :
        LET approved == {i \in Ratings : /\ NanoOf[i] = n
                                         /\ item[i].status = "approved"}
            count == Cardinality(approved)
            total == MapThenSumSet(LAMBDA i : item[i].content, approved)
            average == cache[n].average
        IN  IF approved = {} THEN average = 0
            ELSE /\ (2 * average - 1) * count <= 200 * total
                 /\ 200 * total < (2 * average + 1) * count

\* What readers see was loaded by the moderator's request that approved it:
\* an edit re-enters review instead of appearing.
VisibleWasReviewed ==
    [][\A i \in Items :
          item'[i].status = "approved" /\ item'[i] # item[i] =>
             \E r \in Requests : /\ req[r] # NoTxn /\ req'[r] = NoTxn
                                 /\ req[r].item = i
                                 /\ req[r].by \in Moderators
                                 /\ req[r].seen = item'[i].content]_vars

\* An open case is that of content still to be decided.
OpenCaseAgrees(i, row, c) == c.status = "pending" => row.status = "pending"

\* A case approved or rejected is that of content decided in the same way.
DecidedCaseAgrees(i, row, c) ==
    /\ c.status = "approved" => row.status = StatusDecided(i, "approve")
    /\ c.status = "rejected" => row.status = StatusDecided(i, "reject")

\* Whatever changes content or its case leaves the two in agreement, also if
\* they were not before: creations and edits reset the case, reviews decide
\* both, the queue inserts cases for pending content.  Only the moderation
\* endpoints under /nanos take them apart.
OnlyModerateSplits ==
    [][\A i \in Items :
          \/ item'[i] = item[i] /\ case'[i] = case[i]
          \/ /\ OpenCaseAgrees(i, item'[i], case'[i])
             /\ DecidedCaseAgrees(i, item'[i], case'[i])
          \/ \E r \in Requests : /\ req[r] # NoTxn /\ req'[r] = NoTxn
                                 /\ req[r].item = i
                                 /\ req[r].endpoint = "moderate"]_vars
=============================================================================
