---------------------------- MODULE NanoWorkflow ----------------------------
(***************************************************************************)
(* The publishing workflow of a Nano: the rows of tables nanos and         *)
(* moderation_cases, and the HTTP handlers that read and write them        *)
(* (app/modules/nanos/service.py and app/modules/moderation/service.py).   *)
(*                                                                         *)
(* Every request has its own database session.  It SELECTs rows, decides   *)
(* on what it read, and later flushes an UPDATE that names only the        *)
(* columns whose value differs from the one it loaded, then commits.  The  *)
(* database runs READ COMMITTED and nothing takes SELECT ... FOR UPDATE, so *)
(* other requests may commit between a request's read and its write.  An   *)
(* UPDATE locks its row until the transaction ends.                        *)
(*                                                                         *)
(* A request is therefore a transaction record in req: "loaded" after its  *)
(* first SELECTs, "flushed" once it has issued an UPDATE and goes on to    *)
(* read, and gone when it has committed or rolled back.  A request the     *)
(* code answers with 4xx changes nothing and is not a step.                *)
(***************************************************************************)
EXTENDS FiniteSets

CONSTANTS
    Nanos,        \* Nano ids
    Users,        \* authenticated callers
    Moderators,   \* callers whose token carries the role moderator or admin
    Admins,       \* callers whose token carries the role admin
    Creator,      \* Creator[n] is nanos.creator_id
    Fields,       \* the nullable columns publication needs (description, ...)
    Requests,     \* slots for requests in progress: the degree of concurrency
    Endpoints     \* the endpoints in use

AllEndpoints ==
    {"upload", "status", "metadata", "delete", "takedown", "review", "queue"}

ASSUME CallersAssumption ==
    /\ Moderators \subseteq Users
    /\ Admins \subseteq Moderators
    /\ Creator \in [Nanos -> Users]

ASSUME EndpointsAssumption == Endpoints \subseteq AllEndpoints

VARIABLES
    nano,         \* nano[n]: the committed row of table nanos
    case,         \* case[n]: the committed moderation case of Nano n
    req           \* req[r]: the transaction of the request in slot r

vars == <<nano, case, req>>

-----------------------------------------------------------------------------
(* Rows *)

\* "absent" is a Nano that has not been uploaded.
Statuses ==
    {"absent", "draft", "pending_review", "published", "archived", "deleted"}

\* published_at only matters through its age: NULL, within 24 hours, older.
NanoRow ==
    [status : Statuses, filled : SUBSET Fields,
     publishedAt : {"null", "recent", "old"}, archivedAt : {"null", "set"}]

CaseStatuses == {"pending", "approved", "rejected", "deferred", "escalated"}

\* "none": no row.  decidedAt stands for decided_at, decided_by_user_id,
\* reason, deferred_until and escalation_note, which are set together.
CaseRow ==
    [status : CaseStatuses \cup {"none"}, decidedAt : {"null", "set"}]

NoCase == [status |-> "none", decidedAt |-> "null"]
HasCase(n) == case[n].status # "none"
FreshCase == [status |-> "pending", decidedAt |-> "null"]

-----------------------------------------------------------------------------
(* What a flush writes: "keep" is a column the session did not change. *)

NanoWrite ==
    [status : Statuses \cup {"keep"}, publishedAt : {"keep", "recent"},
     archivedAt : {"keep", "set"}, fill : SUBSET Fields, clear : SUBSET Fields]

NoWrite ==
    [status |-> "keep", publishedAt |-> "keep", archivedAt |-> "keep",
     fill |-> {}, clear |-> {}]

CaseWrite ==
    [status : CaseStatuses \cup {"keep"}, decidedAt : {"keep", "null", "set"}]

NoCaseWrite == [status |-> "keep", decidedAt |-> "keep"]

Column(old, new) == IF new = "keep" THEN old ELSE new

UpdateNano(row, w) ==
    [status |-> Column(row.status, w.status),
     filled |-> (row.filled \cup w.fill) \ w.clear,
     publishedAt |-> Column(row.publishedAt, w.publishedAt),
     archivedAt |-> Column(row.archivedAt, w.archivedAt)]

UpdateCase(row, w) ==
    [status |-> Column(row.status, w.status),
     decidedAt |-> Column(row.decidedAt, w.decidedAt)]

\* The timestamps a handler sets only where the row it loaded has none.
StampPublished(row) == IF row.publishedAt = "null" THEN "recent" ELSE "keep"
StampArchived(row) == IF row.archivedAt = "null" THEN "set" ELSE "keep"

-----------------------------------------------------------------------------
(* Transactions *)

Decisions == {"approve", "reject", "defer", "escalate"}

Txn ==
    [phase : {"loaded", "flushed"}, endpoint : AllEndpoints, by : Users,
     nano : Nanos, decision : Decisions \cup {"none"},
     write : NanoWrite, caseWrite : CaseWrite, inserts : SUBSET Nanos]

NoTxn == [phase |-> "idle"]

NewTxn(endpoint, u, n, w) ==
    [phase |-> "loaded", endpoint |-> endpoint, by |-> u, nano |-> n,
     decision |-> "none", write |-> w, caseWrite |-> NoCaseWrite,
     inserts |-> {}]

Begin(r, t) ==
    /\ t.endpoint \in Endpoints
    /\ req[r] = NoTxn
    /\ req' = [req EXCEPT ![r] = t]
    /\ UNCHANGED <<nano, case>>

End(r) == req' = [req EXCEPT ![r] = NoTxn]

Rollback(r) == End(r) /\ UNCHANGED <<nano, case>>

At(r, phase, endpoint) == req[r].phase = phase /\ req[r].endpoint = endpoint

\* A submission flushes its Nano before it looks for the case; a review
\* flushes its case before it looks for the Nano.
HoldsNano(q, n) == At(q, "flushed", "status") /\ req[q].nano = n
HoldsCase(q, n) == At(q, "flushed", "review") /\ req[q].nano = n

NeedsNano(r) ==
    /\ req[r] # NoTxn
    /\ req[r].write # NoWrite
    /\ \/ req[r].phase = "loaded"
       \/ At(r, "flushed", "review")

NeedsCase(r) ==
    \/ At(r, "loaded", "review")
    \/ At(r, "flushed", "status") /\ req[r].caseWrite # NoCaseWrite

WaitsFor(r, q) ==
    /\ q # r
    /\ \/ NeedsNano(r) /\ HoldsNano(q, req[r].nano)
       \/ NeedsCase(r) /\ HoldsCase(q, req[r].nano)

Blocked(r) == \E q \in Requests : WaitsFor(r, q)

\* COMMIT of a transaction whose only write is the UPDATE of its Nano.
CommitNano(r) ==
    /\ ~Blocked(r)
    /\ nano' = [nano EXCEPT ![req[r].nano] = UpdateNano(@, req[r].write)]
    /\ case' = case
    /\ End(r)

-----------------------------------------------------------------------------
(* Upload: create_draft_nano inserts the row, with no description and no    *)
(* duration, in one statement.                                              *)

DraftRow ==
    [status |-> "draft", filled |-> {}, publishedAt |-> "null",
     archivedAt |-> "null"]

AbsentRow == [DraftRow EXCEPT !.status = "absent"]

CreateDraft(n) ==
    /\ "upload" \in Endpoints
    /\ nano[n] = AbsentRow
    /\ nano' = [nano EXCEPT ![n] = DraftRow]
    /\ UNCHANGED <<case, req>>

-----------------------------------------------------------------------------
(* PATCH /nanos/{id}/status: update_nano_status *)

\* Variant: an archived Nano may be reactivated.
AllowedTransition_Reactivate(row, target) ==
    \/ row.status \in {"draft", "archived"}
          /\ target \in {"pending_review", "published", "archived", "deleted"}
    \/ row.status = "pending_review"
          /\ target \in {"draft", "published", "archived"}
    \/ row.status = "published" /\ target \in {"archived", "draft"}

AllowedTransition(row, target) ==
    \/ row.status = "draft"
          /\ target \in {"pending_review", "published", "archived", "deleted"}
    \/ row.status = "pending_review"
          /\ target \in {"draft", "published", "archived"}
    \/ row.status = "published" /\ target = "archived"
    \/ row.status = "published" /\ target = "draft"
          /\ row.publishedAt = "recent"
    \/ row.status = "archived" /\ target = "deleted"

Complete(row) == row.filled = Fields

\* Variant: a creator may publish without being a moderator.
MayUpdateStatus_AnyCreator(u, n, target) ==
    \/ u = Creator[n]
    \/ /\ u \in Moderators
       /\ nano[n].status = "pending_review"
       /\ target \in {"published", "draft"}

MayUpdateStatus(u, n, target) ==
    IF u = Creator[n]
    THEN target = "published" => u \in Moderators
    ELSE /\ u \in Moderators
         /\ nano[n].status = "pending_review"
         /\ target \in {"published", "draft"}

LoadStatusUpdate(r, u, n, target) ==
    LET row == nano[n] IN
    /\ MayUpdateStatus(u, n, target)
    /\ AllowedTransition(row, target)
    /\ target = "published" => Complete(row)
    /\ Begin(r, NewTxn("status", u, n,
         [NoWrite EXCEPT
            !.status = target,
            !.publishedAt = IF target = "published"
                            THEN StampPublished(row) ELSE "keep",
            !.archivedAt = IF target = "archived"
                           THEN StampArchived(row) ELSE "keep"]))

\* Variant: a submission commits the status and leaves the case for later.
CommitStatusUpdate_StatusFirst(r) ==
    /\ At(r, "loaded", "status")
    /\ CommitNano(r)

CommitStatusUpdate(r) ==
    /\ At(r, "loaded", "status")
    /\ req[r].write.status # "pending_review"
    /\ CommitNano(r)

\* Variant: resubmission reopens the case and leaves the old decision in it.
CaseReset_KeepsDecision(row) ==
    [status |-> IF row.status = "pending" THEN "keep" ELSE "pending",
     decidedAt |-> "keep"]

\* upsert_moderation_case on a case it found: what resetting it changes.
CaseReset(row) ==
    [status |-> IF row.status = "pending" THEN "keep" ELSE "pending",
     decidedAt |-> IF row.decidedAt = "set" THEN "null" ELSE "keep"]

\* Variant: the upsert updates the case it finds and inserts none.
FlushSubmission_NoInsert(r) ==
    LET n == req[r].nano IN
    /\ At(r, "loaded", "status")
    /\ req[r].write.status = "pending_review"
    /\ ~Blocked(r)
    /\ req' = [req EXCEPT
                 ![r].phase = "flushed",
                 ![r].caseWrite = IF HasCase(n) THEN CaseReset(case[n])
                                  ELSE NoCaseWrite]
    /\ UNCHANGED <<nano, case>>

\* The SELECT in upsert_moderation_case first flushes the Nano's status.
FlushSubmission(r) ==
    LET n == req[r].nano IN
    /\ At(r, "loaded", "status")
    /\ req[r].write.status = "pending_review"
    /\ ~Blocked(r)
    /\ req' = [req EXCEPT
                 ![r].phase = "flushed",
                 ![r].inserts = IF HasCase(n) THEN {} ELSE {n},
                 ![r].caseWrite = IF HasCase(n) THEN CaseReset(case[n])
                                  ELSE NoCaseWrite]
    /\ UNCHANGED <<nano, case>>

CommitSubmission(r) ==
    LET n == req[r].nano IN
    /\ At(r, "flushed", "status")
    /\ ~Blocked(r)
    /\ req[r].inserts # {} => ~HasCase(n)
    /\ nano' = [nano EXCEPT ![n] = UpdateNano(@, req[r].write)]
    /\ case' = [case EXCEPT ![n] = IF req[r].inserts # {} THEN FreshCase
                                   ELSE UpdateCase(@, req[r].caseWrite)]
    /\ End(r)

-----------------------------------------------------------------------------
(* PATCH metadata, DELETE, and the admin takedown *)

\* Variant: metadata may be edited whatever the status.
LoadMetadataUpdate_AnyStatus(r, u, n, fill, clear) ==
    /\ u = Creator[n]
    /\ nano[n].status # "absent"
    /\ fill \cap clear = {}
    /\ Begin(r, NewTxn("metadata", u, n,
         [NoWrite EXCEPT !.fill = fill,
                         !.clear = clear \cap nano[n].filled]))

\* update_nano_metadata sets the columns in fill and sets those in clear to
\* NULL; a column already NULL is not written again.
LoadMetadataUpdate(r, u, n, fill, clear) ==
    /\ u = Creator[n]
    /\ nano[n].status = "draft"
    /\ fill \cap clear = {}
    /\ Begin(r, NewTxn("metadata", u, n,
         [NoWrite EXCEPT !.fill = fill,
                         !.clear = clear \cap nano[n].filled]))

CommitMetadataUpdate(r) == At(r, "loaded", "metadata") /\ CommitNano(r)

LoadDelete(r, u, n) ==
    /\ u = Creator[n]
    /\ nano[n].status \in {"draft", "archived"}
    /\ Begin(r, NewTxn("delete", u, n, [NoWrite EXCEPT !.status = "deleted"]))

CommitDelete(r) == At(r, "loaded", "delete") /\ CommitNano(r)

\* Variant: the takedown forgets archived_at.
LoadTakedown_NoStamp(r, u, n) ==
    /\ u \in Admins
    /\ nano[n].status # "absent"
    /\ Begin(r, NewTxn("takedown", u, n,
         [NoWrite EXCEPT !.status = IF nano[n].status = "published"
                                    THEN "archived" ELSE "keep"]))

\* Variant: the takedown records archived_at and leaves the status.
LoadTakedown_StampOnly(r, u, n) ==
    /\ u \in Admins
    /\ nano[n].status # "absent"
    /\ Begin(r, NewTxn("takedown", u, n,
         [NoWrite EXCEPT !.archivedAt = StampArchived(nano[n])]))

\* admin_takedown_nano archives a published Nano; for any other it only
\* records archived_at and answers already_removed.
LoadTakedown(r, u, n) ==
    /\ u \in Admins
    /\ nano[n].status # "absent"
    /\ Begin(r, NewTxn("takedown", u, n,
         [NoWrite EXCEPT
            !.status = IF nano[n].status = "published"
                       THEN "archived" ELSE "keep",
            !.archivedAt = StampArchived(nano[n])]))

CommitTakedown(r) == At(r, "loaded", "takedown") /\ CommitNano(r)

-----------------------------------------------------------------------------
(* POST /moderation/cases/{id}/review: review_moderation_case *)

CaseStatusOf ==
    [approve |-> "approved", reject |-> "rejected",
     defer |-> "deferred", escalate |-> "escalated"]

LoadReview(r, u, n, d) ==
    /\ u \in Moderators
    /\ HasCase(n)
    /\ Begin(r, [NewTxn("review", u, n, NoWrite) EXCEPT
         !.decision = d,
         !.caseWrite = [status |-> IF case[n].status = CaseStatusOf[d]
                                   THEN "keep" ELSE CaseStatusOf[d],
                        decidedAt |-> "set"]])

\* Variant: the Nano is given the status of its case.
ReviewWrite_CaseStatus(row, d) ==
    CASE d = "approve" ->
           [NoWrite EXCEPT !.status = "approved",
                           !.publishedAt = StampPublished(row)]
      [] d = "reject" -> [NoWrite EXCEPT !.status = "draft"]
      [] OTHER -> NoWrite

\* Variant: approval forgets published_at.
ReviewWrite_NoStamp(row, d) ==
    CASE d = "approve" -> [NoWrite EXCEPT !.status = "published"]
      [] d = "reject" -> [NoWrite EXCEPT !.status = "draft"]
      [] OTHER -> NoWrite

\* Variant: rejection leaves the Nano in review.
ReviewWrite_RejectKeeps(row, d) ==
    IF d = "approve"
    THEN [NoWrite EXCEPT !.status = "published",
                         !.publishedAt = StampPublished(row)]
    ELSE NoWrite

\* _apply_nano_decision, whatever the status of the Nano it finds.
ReviewWrite(row, d) ==
    CASE d = "approve" ->
           [NoWrite EXCEPT
              !.status = IF row.status = "published" THEN "keep"
                         ELSE "published",
              !.publishedAt = StampPublished(row)]
      [] d = "reject" ->
           [NoWrite EXCEPT
              !.status = IF row.status = "draft" THEN "keep" ELSE "draft"]
      [] OTHER -> NoWrite

\* Variant: approval does not look at the required metadata.
FlushReview_Unchecked(r) ==
    /\ At(r, "loaded", "review")
    /\ ~Blocked(r)
    /\ req' = [req EXCEPT ![r].phase = "flushed",
                          ![r].write = ReviewWrite(nano[req[r].nano],
                                                   req[r].decision)]
    /\ UNCHANGED <<nano, case>>

\* The SELECT of the Nano first flushes the case.
FlushReview(r) ==
    LET row == nano[req[r].nano] IN
    /\ At(r, "loaded", "review")
    /\ ~Blocked(r)
    /\ req[r].decision = "approve" => Complete(row)
    /\ req' = [req EXCEPT ![r].phase = "flushed",
                          ![r].write = ReviewWrite(row, req[r].decision)]
    /\ UNCHANGED <<nano, case>>

\* Variant: a refused approval waits until the Nano is complete.
RefuseReview_Waits(r) ==
    /\ At(r, "loaded", "review")
    /\ req[r].decision = "approve"
    /\ ~Complete(nano[req[r].nano])
    /\ UNCHANGED vars

\* _validate_nano_publishable refuses: the flushed case is rolled back.
RefuseReview(r) ==
    /\ At(r, "loaded", "review")
    /\ ~Blocked(r)
    /\ req[r].decision = "approve"
    /\ ~Complete(nano[req[r].nano])
    /\ Rollback(r)

CommitReview(r) ==
    LET n == req[r].nano IN
    /\ At(r, "flushed", "review")
    /\ ~Blocked(r)
    /\ nano' = [nano EXCEPT ![n] = UpdateNano(@, req[r].write)]
    /\ case' = [case EXCEPT ![n] = UpdateCase(@, req[r].caseWrite)]
    /\ End(r)

-----------------------------------------------------------------------------
(* GET /moderation/queue: _backfill_missing_pending_cases gives a case to   *)
(* every Nano in review that has none.                                      *)

LoadQueue(r, u) ==
    LET missing == {m \in Nanos : /\ nano[m].status = "pending_review"
                                  /\ ~HasCase(m)} IN
    /\ u \in Moderators
    /\ missing # {}
    /\ Begin(r, [NewTxn("queue", u, CHOOSE m \in missing : TRUE, NoWrite)
                   EXCEPT !.inserts = missing])

CommitQueue(r) ==
    /\ At(r, "loaded", "queue")
    /\ \A m \in req[r].inserts : ~HasCase(m)
    /\ case' = [m \in Nanos |-> IF m \in req[r].inserts THEN FreshCase
                                ELSE case[m]]
    /\ nano' = nano
    /\ End(r)

\* The unique constraint (content_type, content_id) refuses the INSERT: the
\* handler does not catch IntegrityError, the transaction is rolled back.
InsertConflict(r) ==
    /\ \/ At(r, "flushed", "status")
       \/ At(r, "loaded", "queue")
    /\ \E m \in req[r].inserts : HasCase(m)
    /\ Rollback(r)

-----------------------------------------------------------------------------
(* The environment *)

\* PostgreSQL ends one transaction of a cycle of waiting ones.
DeadlockVictim(r) ==
    /\ \E q \in Requests : WaitsFor(r, q) /\ WaitsFor(q, r)
    /\ Rollback(r)

\* The worker dies, or the connection is lost, before COMMIT.
Crash(r) ==
    /\ req[r] # NoTxn
    /\ Rollback(r)

\* 24 hours have passed since published_at.
AgePublication(n) ==
    /\ nano[n].publishedAt = "recent"
    /\ nano' = [nano EXCEPT ![n].publishedAt = "old"]
    /\ UNCHANGED <<case, req>>

-----------------------------------------------------------------------------
\* A Nano that entered review before moderation cases were introduced.
LegacyRows ==
    {[DraftRow EXCEPT !.status = "pending_review", !.filled = f] :
        f \in SUBSET Fields}

Init ==
    /\ nano \in [Nanos -> {AbsentRow} \cup LegacyRows]
    /\ case = [n \in Nanos |-> NoCase]
    /\ req = [r \in Requests |-> NoTxn]

Load(r) ==
    \E u \in Users :
        \/ LoadQueue(r, u)
        \/ \E n \in Nanos :
            \/ \E target \in Statuses \ {"absent"} :
                   LoadStatusUpdate(r, u, n, target)
            \/ \E fill, clear \in SUBSET Fields :
                   LoadMetadataUpdate(r, u, n, fill, clear)
            \/ LoadDelete(r, u, n)
            \/ LoadTakedown(r, u, n)
            \/ \E d \in Decisions : LoadReview(r, u, n, d)

Proceed(r) ==
    \/ CommitStatusUpdate(r)
    \/ FlushSubmission(r)
    \/ CommitSubmission(r)
    \/ CommitMetadataUpdate(r)
    \/ CommitDelete(r)
    \/ CommitTakedown(r)
    \/ FlushReview(r)
    \/ RefuseReview(r)
    \/ CommitReview(r)
    \/ CommitQueue(r)
    \/ InsertConflict(r)
    \/ DeadlockVictim(r)

Next ==
    \/ \E r \in Requests : Load(r) \/ Proceed(r) \/ Crash(r)
    \/ \E n \in Nanos : CreateDraft(n) \/ AgePublication(n)

Spec == Init /\ [][Next]_vars

\* The event loop resumes every handler, and PostgreSQL grants a row lock to
\* its waiters in turn: a step that is possible again and again is taken.
FairSpec == Spec /\ \A r \in Requests : SF_vars(Proceed(r))

-----------------------------------------------------------------------------
(* Properties that hold however requests interleave *)

\* The committed rows, and every request in progress, are well formed.
TypeOK ==
    /\ nano \in [Nanos -> NanoRow]
    /\ case \in [Nanos -> CaseRow]
    /\ req \in [Requests -> Txn \cup {NoTxn}]

\* A published Nano has a publication time and an archived one an archiving
\* time, although handlers set a timestamp only where the row they loaded had
\* none and leave it out of the UPDATE otherwise.
TimestampsMatchStatus ==
    \A n \in Nanos :
        /\ nano[n].status = "published" => nano[n].publishedAt # "null"
        /\ nano[n].status = "archived" => nano[n].archivedAt # "null"

\* What a request still in progress is about to write stays right however
\* old its reads are: a publication or archiving either brings its timestamp
\* or finds one, only a moderator's request reviews or publishes, only a
\* submission puts a Nano in review, and one that found a case still has it.
SoundTxn(t, row, hasCase) ==
    /\ t.write.status = "published" =>
          /\ t.write.publishedAt = "recent" \/ row.publishedAt # "null"
          /\ t.by \in Moderators
    /\ t.endpoint = "review" => t.by \in Moderators
    /\ t.write.status = "archived" =>
          t.write.archivedAt = "set" \/ row.archivedAt # "null"
    /\ t.write.publishedAt = "recent" => t.write.status = "published"
    /\ t.write.status = "pending_review" => t.endpoint = "status"
    /\ t.phase = "flushed" /\ t.endpoint = "status" /\ t.inserts = {} => hasCase

PendingWritesAreSound ==
    \A r \in Requests : req[r] # NoTxn =>
        SoundTxn(req[r], nano[req[r].nano], HasCase(req[r].nano))

Publishes(r, n) ==
    req[r] # NoTxn /\ req[r].nano = n /\ req[r].write.status = "published"

\* A Nano becomes public only through the request of a moderator or admin,
\* on the status endpoint or on the review endpoint.
OnlyModeratorsPublish ==
    [][\A n \in Nanos :
          nano[n].status # "published" /\ nano'[n].status = "published" =>
             \E r \in Requests : /\ Publishes(r, n)
                                 /\ req[r].by \in Moderators
                                 /\ req'[r] = NoTxn]_vars

\* A Nano enters review in the same transaction that gives it a case row, so
\* that a crash between the two cannot hide it from the moderators.
SubmittedHasCase ==
    [][\A n \in Nanos :
          nano[n].status # "pending_review" /\ nano'[n].status = "pending_review"
             => HasCase(n)']_vars

\* Every request is answered: row locks, the conflicting INSERTs of two
\* requests and the opposite lock orders of submission and review leave none
\* waiting for ever.
EveryRequestEnds == \A r \in Requests : req[r] # NoTxn ~> req[r] = NoTxn

\* The abstract record of publications: a public Nano always carries a
\* publication time, and no request, however stale its reads, loses it.
Publication == INSTANCE PublicationRecord
                   WITH visible <- [n \in Nanos |-> nano[n].status = "published"],
                        stamp <- [n \in Nanos |-> nano[n].publishedAt]
PublicationRecorded == Publication!Spec

-----------------------------------------------------------------------------
(* Properties the code promises and keeps when requests do not overlap *)

\* _validate_metadata_completeness and _validate_nano_publishable: no
\* published Nano lacks required metadata.
PublishedIsComplete ==
    \A n \in Nanos : nano[n].status = "published" => Complete(nano[n])

\* A Nano in review is found in the moderation queue: its case is still to be
\* decided, or it has none yet and the queue will add one.
PendingHasOpenCase ==
    \A n \in Nanos : nano[n].status = "pending_review" =>
        case[n].status \notin {"approved", "rejected"}

\* upsert_moderation_case resets a case "clearing all prior decision
\* metadata": a pending case carries no decision.
PendingCaseIsReset ==
    \A n \in Nanos :
        case[n].status = "pending" => case[n].decidedAt = "null"

\* admin_takedown_nano: "a takedown guarantees that the Nano is not publicly
\* visible afterwards".
TakedownHides ==
    [][\A r \in Requests : At(r, "loaded", "takedown") /\ CommitTakedown(r)
          => nano'[req[r].nano].status # "published"]_vars

\* update_nano_metadata: "metadata can only be edited for draft Nanos".
MetadataOnlyInDraft ==
    [][\A n \in Nanos : nano'[n].filled # nano[n].filled =>
          nano[n].status \in {"absent", "draft"}]_vars

\* The state machine of _validate_status_transition.
Lifecycle == INSTANCE NanoLifecycle
                 WITH status <- [n \in Nanos |-> nano[n].status]
LifecycleRespected == Lifecycle!Spec

\* The same machine, with the review endpoint's decisions left aside: no
\* other handler, nor a sequence of them, changes a status against it.
LifecycleOutsideReview ==
    [][Lifecycle!Next \/ \E r \in Requests : CommitReview(r)
      ]_[n \in Nanos |-> nano[n].status]
=============================================================================
