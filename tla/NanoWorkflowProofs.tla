-------------------------- MODULE NanoWorkflowProofs ------------------------
(***************************************************************************)
(* Proofs about NanoWorkflow for any Nanos, users and number of concurrent  *)
(* requests.  The inductive invariant is TypeOK, TimestampsMatchStatus and  *)
(* PendingWritesAreSound: the last one says why a write decided on stale    *)
(* reads is harmless for the timestamps, which is that no step clears one.  *)
(***************************************************************************)
EXTENDS NanoWorkflow, TLAPS

IInv == TypeOK /\ TimestampsMatchStatus /\ PendingWritesAreSound

\* What no step takes back.
Keeps(n) ==
    /\ nano[n].publishedAt # "null" => nano'[n].publishedAt # "null"
    /\ nano[n].archivedAt # "null" => nano'[n].archivedAt # "null"
    /\ case[n].status # "none" => case'[n].status # "none"

-----------------------------------------------------------------------------
(* Rows and transactions *)

LEMMA UpdateNanoType ==
    ASSUME NEW row \in NanoRow, NEW w \in NanoWrite
    PROVE  /\ UpdateNano(row, w) \in NanoRow
           /\ row.publishedAt # "null" => UpdateNano(row, w).publishedAt # "null"
           /\ row.archivedAt # "null" => UpdateNano(row, w).archivedAt # "null"
  BY DEF UpdateNano, Column, NanoRow, NanoWrite, Statuses

LEMMA UpdateNanoFields ==
    ASSUME NEW row, NEW w
    PROVE  LET new == UpdateNano(row, w) IN
           /\ new.status = Column(row.status, w.status)
           /\ new.publishedAt = Column(row.publishedAt, w.publishedAt)
  BY DEF UpdateNano

LEMMA UpdateCaseType ==
    ASSUME NEW row \in CaseRow, NEW w \in CaseWrite
    PROVE  /\ UpdateCase(row, w) \in CaseRow
           /\ row.status # "none" => UpdateCase(row, w).status # "none"
  BY DEF UpdateCase, Column, CaseRow, CaseWrite, CaseStatuses

LEMMA NewTxnType ==
    ASSUME NEW e \in AllEndpoints, NEW u \in Users, NEW n \in Nanos,
           NEW w \in NanoWrite
    PROVE  NewTxn(e, u, n, w) \in Txn
  BY DEF NewTxn, Txn, NoCaseWrite, CaseWrite, Decisions

LEMMA NoTxnIsNotATxn ==
    \A t \in Txn : t # NoTxn /\ t.phase \in {"loaded", "flushed"}
  BY DEF Txn, NoTxn

\* A sound transaction stays sound while timestamps and cases stay.
LEMMA SoundTxnStable ==
    ASSUME NEW t \in Txn, NEW old \in NanoRow, NEW new \in NanoRow,
           NEW c1 \in BOOLEAN, NEW c2 \in BOOLEAN, SoundTxn(t, old, c1),
           old.publishedAt # "null" => new.publishedAt # "null",
           old.archivedAt # "null" => new.archivedAt # "null",
           c1 => c2
    PROVE  SoundTxn(t, new, c2)
  BY DEF SoundTxn

\* A write that is sound for its Nano stays so when the Nano keeps what it has.
LEMMA SoundTxnKept ==
    ASSUME NEW t \in Txn, NEW n \in Nanos, Keeps(n),
           nano[n] \in NanoRow, nano'[n] \in NanoRow,
           SoundTxn(t, nano[n], case[n].status # "none")
    PROVE  SoundTxn(t, nano'[n], case'[n].status # "none")
  BY SoundTxnStable DEF Keeps

\* Applying a sound write gives a row whose timestamps match its status.
LEMMA SoundWriteStamps ==
    ASSUME NEW t \in Txn, NEW row \in NanoRow, NEW c \in BOOLEAN,
           SoundTxn(t, row, c),
           row.status = "published" => row.publishedAt # "null",
           row.status = "archived" => row.archivedAt # "null"
    PROVE  LET new == UpdateNano(row, t.write) IN
           /\ new.status = "published" => new.publishedAt # "null"
           /\ new.status = "archived" => new.archivedAt # "null"
  BY DEF SoundTxn, UpdateNano, Column, NanoRow, NanoWrite, Txn, Statuses

-----------------------------------------------------------------------------
(* The shapes of a step *)

\* A request reads and decides: only its transaction record changes.
LEMMA ReadStep ==
    ASSUME IInv, NEW r \in Requests, NEW t \in Txn,
           req' = [req EXCEPT ![r] = t], UNCHANGED <<nano, case>>,
           SoundTxn(t, nano[t.nano], case[t.nano].status # "none")
    PROVE  IInv' /\ \A n \in Nanos : Keeps(n)
  <1>1. TypeOK'
    BY DEF IInv, TypeOK
  <1>2. TimestampsMatchStatus'
    BY DEF IInv, TimestampsMatchStatus
  <1>3. PendingWritesAreSound'
    BY DEF IInv, TypeOK, PendingWritesAreSound, HasCase
  <1>4. QED
    BY <1>1, <1>2, <1>3 DEF IInv, Keeps

LEMMA RollbackStep ==
    ASSUME IInv, NEW r \in Requests, Rollback(r)
    PROVE  IInv' /\ \A n \in Nanos : Keeps(n)
  <1>1. TypeOK'
    BY DEF IInv, TypeOK, Rollback, End
  <1>2. TimestampsMatchStatus'
    BY DEF IInv, TimestampsMatchStatus, Rollback
  <1>3. PendingWritesAreSound'
    BY DEF IInv, TypeOK, PendingWritesAreSound, Rollback, End, HasCase
  <1>4. QED
    BY <1>1, <1>2, <1>3 DEF IInv, Keeps, Rollback, HasCase

\* COMMIT: the transaction's Nano is updated, cases only appear or change.
LEMMA CommitStep ==
    ASSUME IInv, NEW r \in Requests, req[r] # NoTxn, End(r),
           nano' = [nano EXCEPT ![req[r].nano] = UpdateNano(@, req[r].write)],
           case' \in [Nanos -> CaseRow],
           \A n \in Nanos : case[n].status # "none" => case'[n].status # "none"
    PROVE  IInv' /\ \A n \in Nanos : Keeps(n)
  <1> DEFINE t == req[r]
  <1>1. /\ t \in Txn /\ t.nano \in Nanos /\ t.write \in NanoWrite
        /\ nano[t.nano] \in NanoRow
    BY DEF IInv, TypeOK, Txn
  <1>2. UpdateNano(nano[t.nano], t.write) \in NanoRow
    BY <1>1, UpdateNanoType
  <1>3. TypeOK'
    BY <1>1, <1>2 DEF IInv, TypeOK, End
  <1>4. \A n \in Nanos : Keeps(n)
    BY <1>1, UpdateNanoType DEF IInv, TypeOK, Keeps
  <1>5. TimestampsMatchStatus'
    <2>1. SoundTxn(t, nano[t.nano], HasCase(t.nano)) /\ HasCase(t.nano) \in BOOLEAN
      BY <1>1 DEF IInv, PendingWritesAreSound, HasCase
    <2>2. /\ nano[t.nano].status = "published" => nano[t.nano].publishedAt # "null"
          /\ nano[t.nano].status = "archived" => nano[t.nano].archivedAt # "null"
      BY <1>1 DEF IInv, TimestampsMatchStatus
    <2>3. /\ nano'[t.nano].status = "published" => nano'[t.nano].publishedAt # "null"
          /\ nano'[t.nano].status = "archived" => nano'[t.nano].archivedAt # "null"
      BY <1>1, <2>1, <2>2, SoundWriteStamps DEF IInv, TypeOK
    <2>4. QED
      BY <1>1, <2>3 DEF IInv, TypeOK, TimestampsMatchStatus
  <1>6. PendingWritesAreSound'
    <2> SUFFICES ASSUME NEW q \in Requests, req'[q] # NoTxn
                 PROVE  SoundTxn(req'[q], nano'[req'[q].nano],
                                 case'[req'[q].nano].status # "none")
      BY DEF PendingWritesAreSound, HasCase
    <2> DEFINE m == req[q].nano
    <2>1. q # r /\ req'[q] = req[q]
      BY DEF IInv, TypeOK, End
    <2>2. req[q] \in Txn /\ m \in Nanos
      BY <2>1 DEF IInv, TypeOK, Txn
    <2>3. SoundTxn(req[q], nano[m], case[m].status # "none")
      BY <2>1 DEF IInv, PendingWritesAreSound, HasCase
    <2>4. nano[m] \in NanoRow /\ nano'[m] \in NanoRow
      BY <1>3, <2>2 DEF IInv, TypeOK
    <2>5. Keeps(m)
      BY <1>4, <2>2
    <2>6. SoundTxn(req[q], nano'[m], case'[m].status # "none")
      BY <2>2, <2>3, <2>4, <2>5, SoundTxnKept
    <2>7. QED
      BY <2>1, <2>6, Zenon
  <1>7. QED
    BY <1>3, <1>4, <1>5, <1>6 DEF IInv

-----------------------------------------------------------------------------
(* One lemma per group of actions *)

LEMMA NoWriteType == NoWrite \in NanoWrite
  BY DEF NoWrite, NanoWrite

LEMMA NewTxnFields ==
    ASSUME NEW e, NEW u, NEW n, NEW w
    PROVE  LET t == NewTxn(e, u, n, w) IN
           /\ t.endpoint = e /\ t.by = u /\ t.nano = n /\ t.write = w
           /\ t.phase = "loaded"
  BY DEF NewTxn

LEMMA LoadStatusUpdateStep ==
    ASSUME IInv, NEW r \in Requests, NEW u \in Users, NEW n \in Nanos,
           NEW target \in Statuses \ {"absent"},
           LoadStatusUpdate(r, u, n, target)
    PROVE  IInv' /\ \A x \in Nanos : Keeps(x)
  <1> DEFINE row == nano[n]
             w == [NoWrite EXCEPT
                     !.status = target,
                     !.publishedAt = IF target = "published"
                                     THEN StampPublished(row) ELSE "keep",
                     !.archivedAt = IF target = "archived"
                                    THEN StampArchived(row) ELSE "keep"]
             t == NewTxn("status", u, n, w)
  <1>1. w \in NanoWrite
    BY DEF NoWrite, NanoWrite, StampPublished, StampArchived
  <1>2. t \in Txn
    BY <1>1, NewTxnType DEF AllEndpoints
  <1>3. target = "published" => u \in Moderators
    BY DEF LoadStatusUpdate, MayUpdateStatus
  <1>4. SoundTxn(t, nano[t.nano], case[t.nano].status # "none")
    <2>1. /\ w.status = target
          /\ w.publishedAt = IF target = "published"
                             THEN StampPublished(row) ELSE "keep"
          /\ w.archivedAt = IF target = "archived"
                            THEN StampArchived(row) ELSE "keep"
      BY DEF NoWrite
    <2>2. /\ t.endpoint = "status" /\ t.by = u /\ t.nano = n /\ t.write = w
          /\ t.phase = "loaded"
      BY DEF NewTxn
    <2> HIDE DEF w, t
    <2>3. QED
      BY <1>3, <2>1, <2>2 DEF SoundTxn, StampPublished, StampArchived
  <1>5. req' = [req EXCEPT ![r] = t] /\ UNCHANGED <<nano, case>>
    BY DEF LoadStatusUpdate, Begin
  <1>6. QED
    BY <1>2, <1>4, <1>5, ReadStep

LEMMA LoadMetadataUpdateStep ==
    ASSUME IInv, NEW r \in Requests, NEW u \in Users, NEW n \in Nanos,
           NEW fill \in SUBSET Fields, NEW clear \in SUBSET Fields,
           LoadMetadataUpdate(r, u, n, fill, clear)
    PROVE  IInv' /\ \A x \in Nanos : Keeps(x)
  <1> DEFINE w == [NoWrite EXCEPT !.fill = fill,
                                  !.clear = clear \cap nano[n].filled]
             t == NewTxn("metadata", u, n, w)
  <1>1. w \in NanoWrite
    BY DEF NoWrite, NanoWrite
  <1>2. t \in Txn
    BY <1>1, NewTxnType DEF AllEndpoints
  <1>3. SoundTxn(t, nano[t.nano], case[t.nano].status # "none")
    <2>1. /\ w.status = "keep" /\ w.publishedAt = "keep"
          /\ t.write = w /\ t.phase = "loaded" /\ t.endpoint = "metadata"
      BY DEF NoWrite, NewTxn
    <2>2. QED
      BY <2>1 DEF SoundTxn
  <1>4. req' = [req EXCEPT ![r] = t] /\ UNCHANGED <<nano, case>>
    BY DEF LoadMetadataUpdate, Begin
  <1>5. QED
    BY <1>2, <1>3, <1>4, ReadStep

LEMMA LoadDeleteStep ==
    ASSUME IInv, NEW r \in Requests, NEW u \in Users, NEW n \in Nanos,
           LoadDelete(r, u, n)
    PROVE  IInv' /\ \A x \in Nanos : Keeps(x)
  <1> DEFINE w == [NoWrite EXCEPT !.status = "deleted"]
             t == NewTxn("delete", u, n, w)
  <1>1. w \in NanoWrite
    BY DEF NoWrite, NanoWrite, Statuses
  <1>2. t \in Txn
    BY <1>1, NewTxnType DEF AllEndpoints
  <1>3. SoundTxn(t, nano[t.nano], case[t.nano].status # "none")
    BY NewTxnFields DEF SoundTxn, NoWrite
  <1>4. req' = [req EXCEPT ![r] = t] /\ UNCHANGED <<nano, case>>
    BY DEF LoadDelete, Begin
  <1>5. QED
    BY <1>2, <1>3, <1>4, ReadStep

LEMMA LoadTakedownStep ==
    ASSUME IInv, NEW r \in Requests, NEW u \in Users, NEW n \in Nanos,
           LoadTakedown(r, u, n)
    PROVE  IInv' /\ \A x \in Nanos : Keeps(x)
  <1> DEFINE w == [NoWrite EXCEPT
                     !.status = IF nano[n].status = "published"
                                THEN "archived" ELSE "keep",
                     !.archivedAt = StampArchived(nano[n])]
             t == NewTxn("takedown", u, n, w)
  <1>1. w \in NanoWrite
    BY DEF NoWrite, NanoWrite, Statuses, StampArchived
  <1>2. t \in Txn
    BY <1>1, NewTxnType DEF AllEndpoints
  <1>3. SoundTxn(t, nano[t.nano], case[t.nano].status # "none")
    <2>1. /\ w.status = IF nano[n].status = "published"
                        THEN "archived" ELSE "keep"
          /\ w.archivedAt = StampArchived(nano[n])
          /\ w.publishedAt = "keep"
      BY DEF NoWrite
    <2>2. /\ t.nano = n /\ t.write = w /\ t.phase = "loaded"
          /\ t.endpoint = "takedown"
      BY DEF NewTxn
    <2> HIDE DEF w, t
    <2>3. QED
      BY <2>1, <2>2 DEF SoundTxn, StampArchived
  <1>4. req' = [req EXCEPT ![r] = t] /\ UNCHANGED <<nano, case>>
    BY DEF LoadTakedown, Begin
  <1>5. QED
    BY <1>2, <1>3, <1>4, ReadStep

LEMMA LoadReviewStep ==
    ASSUME IInv, NEW r \in Requests, NEW u \in Users, NEW n \in Nanos,
           NEW d \in Decisions, LoadReview(r, u, n, d)
    PROVE  IInv' /\ \A x \in Nanos : Keeps(x)
  <1> DEFINE cw == [status |-> IF case[n].status = CaseStatusOf[d]
                               THEN "keep" ELSE CaseStatusOf[d],
                    decidedAt |-> "set"]
             t0 == NewTxn("review", u, n, NoWrite)
             t == [t0 EXCEPT !.decision = d, !.caseWrite = cw]
  <1>1. cw \in CaseWrite
    BY DEF CaseWrite, CaseStatuses, CaseStatusOf, Decisions
  <1>2. t0 \in Txn
    BY NoWriteType, NewTxnType DEF AllEndpoints
  <1>3. t \in Txn
    BY <1>1, <1>2 DEF Txn
  <1>4. SoundTxn(t, nano[t.nano], case[t.nano].status # "none")
    BY <1>2, NewTxnFields DEF SoundTxn, NoWrite, Txn, LoadReview
  <1>5. req' = [req EXCEPT ![r] = t] /\ UNCHANGED <<nano, case>>
    BY DEF LoadReview, Begin
  <1>6. QED
    BY <1>3, <1>4, <1>5, ReadStep

LEMMA LoadQueueStep ==
    ASSUME IInv, NEW r \in Requests, NEW u \in Users, LoadQueue(r, u)
    PROVE  IInv' /\ \A x \in Nanos : Keeps(x)
  <1> DEFINE missing == {m \in Nanos : /\ nano[m].status = "pending_review"
                                       /\ ~HasCase(m)}
             n == CHOOSE m \in missing : TRUE
             t0 == NewTxn("queue", u, n, NoWrite)
             t == [t0 EXCEPT !.inserts = missing]
  <1>1. missing # {} /\ n \in Nanos
    BY DEF LoadQueue
  <1>2. t0 \in Txn
    BY <1>1, NoWriteType, NewTxnType DEF AllEndpoints
  <1>3. t \in Txn
    BY <1>2 DEF Txn
  <1>4. SoundTxn(t, nano[t.nano], case[t.nano].status # "none")
    BY <1>2, NewTxnFields DEF SoundTxn, NoWrite, Txn
  <1>5. req' = [req EXCEPT ![r] = t] /\ UNCHANGED <<nano, case>>
    BY DEF LoadQueue, Begin
  <1>6. QED
    BY <1>3, <1>4, <1>5, ReadStep

LEMMA LoadStep ==
    ASSUME IInv, NEW r \in Requests, Load(r)
    PROVE  IInv' /\ \A x \in Nanos : Keeps(x)
  <1> PICK u \in Users :
        \/ LoadQueue(r, u)
        \/ \E n \in Nanos :
            \/ \E target \in Statuses \ {"absent"} :
                   LoadStatusUpdate(r, u, n, target)
            \/ \E fill, clear \in SUBSET Fields :
                   LoadMetadataUpdate(r, u, n, fill, clear)
            \/ LoadDelete(r, u, n)
            \/ LoadTakedown(r, u, n)
            \/ \E d \in Decisions : LoadReview(r, u, n, d)
    BY DEF Load
  <1>1. CASE LoadQueue(r, u)
    BY <1>1, LoadQueueStep
  <1>2. ASSUME NEW n \in Nanos, NEW target \in Statuses \ {"absent"},
               LoadStatusUpdate(r, u, n, target)
        PROVE  IInv' /\ \A x \in Nanos : Keeps(x)
    BY <1>2, LoadStatusUpdateStep
  <1>3. ASSUME NEW n \in Nanos, NEW fill \in SUBSET Fields,
               NEW clear \in SUBSET Fields,
               LoadMetadataUpdate(r, u, n, fill, clear)
        PROVE  IInv' /\ \A x \in Nanos : Keeps(x)
    BY <1>3, LoadMetadataUpdateStep
  <1>4. ASSUME NEW n \in Nanos, LoadDelete(r, u, n) \/ LoadTakedown(r, u, n)
        PROVE  IInv' /\ \A x \in Nanos : Keeps(x)
    BY <1>4, LoadDeleteStep, LoadTakedownStep
  <1>5. ASSUME NEW n \in Nanos, NEW d \in Decisions, LoadReview(r, u, n, d)
        PROVE  IInv' /\ \A x \in Nanos : Keeps(x)
    BY <1>5, LoadReviewStep
  <1>6. QED
    BY <1>1, <1>2, <1>3, <1>4, <1>5

\* COMMIT of a transaction that only updates its Nano.
LEMMA CommitNanoStep ==
    ASSUME IInv, NEW r \in Requests, NEW phase, NEW endpoint,
           phase \in {"loaded", "flushed"}, At(r, phase, endpoint),
           CommitNano(r)
    PROVE  IInv' /\ \A x \in Nanos : Keeps(x)
  <1>1. req[r] # NoTxn
    BY DEF At, NoTxn
  <1>2. case' \in [Nanos -> CaseRow]
    BY DEF CommitNano, IInv, TypeOK
  <1>3. QED
    BY <1>1, <1>2, CommitStep DEF CommitNano

LEMMA FlushSubmissionStep ==
    ASSUME IInv, NEW r \in Requests, FlushSubmission(r)
    PROVE  IInv' /\ \A x \in Nanos : Keeps(x)
  <1> DEFINE n == req[r].nano
             ins == IF HasCase(n) THEN {} ELSE {n}
             cw == IF HasCase(n) THEN CaseReset(case[n]) ELSE NoCaseWrite
             t == [req[r] EXCEPT !.phase = "flushed", !.inserts = ins,
                                 !.caseWrite = cw]
  <1>1. req[r] \in Txn /\ n \in Nanos
    BY DEF FlushSubmission, At, IInv, TypeOK, Txn, NoTxn
  <1>2. cw \in CaseWrite /\ ins \in SUBSET Nanos
    BY <1>1 DEF CaseReset, NoCaseWrite, CaseWrite, CaseStatuses
  <1>3. t \in Txn
    <2> HIDE DEF ins, cw
    <2> QED
      BY <1>1, <1>2 DEF Txn
  <1>4. req' = [req EXCEPT ![r] = t] /\ UNCHANGED <<nano, case>>
    BY DEF FlushSubmission, IInv, TypeOK
  <1>5. SoundTxn(req[r], nano[n], HasCase(n))
    BY <1>1, NoTxnIsNotATxn DEF IInv, PendingWritesAreSound
  <1>6. /\ t.write = req[r].write /\ t.by = req[r].by /\ t.nano = n
        /\ t.endpoint = req[r].endpoint /\ t.inserts = ins
    BY <1>1 DEF Txn
  <1>7. SoundTxn(t, nano[t.nano], case[t.nano].status # "none")
    <2>1. ins = {} => case[n].status # "none"
      BY DEF HasCase
    <2> HIDE DEF t, ins
    <2>2. QED
      BY <1>5, <1>6, <2>1 DEF SoundTxn
  <1>8. QED
    <2> HIDE DEF t
    <2> QED
      BY <1>3, <1>4, <1>7, ReadStep

LEMMA CommitSubmissionStep ==
    ASSUME IInv, NEW r \in Requests, CommitSubmission(r)
    PROVE  IInv' /\ \A x \in Nanos : Keeps(x)
  <1> DEFINE n == req[r].nano
             new == IF req[r].inserts # {} THEN FreshCase
                    ELSE UpdateCase(case[n], req[r].caseWrite)
  <1>1. req[r] \in Txn /\ req[r] # NoTxn /\ n \in Nanos
    BY NoTxnIsNotATxn DEF CommitSubmission, At, IInv, TypeOK, Txn, NoTxn
  <1>2. FreshCase \in CaseRow /\ FreshCase.status # "none"
    BY DEF FreshCase, CaseRow, CaseStatuses
  <1>3. /\ UpdateCase(case[n], req[r].caseWrite) \in CaseRow
        /\ case[n].status # "none"
              => UpdateCase(case[n], req[r].caseWrite).status # "none"
    BY <1>1, UpdateCaseType DEF IInv, TypeOK, Txn
  <1>4. new \in CaseRow /\ (case[n].status # "none" => new.status # "none")
    BY <1>2, <1>3
  <1>5. /\ nano' = [nano EXCEPT ![n] = UpdateNano(@, req[r].write)]
        /\ case' = [case EXCEPT ![n] = new]
        /\ End(r)
    BY DEF CommitSubmission
  <1>6. /\ case' \in [Nanos -> CaseRow]
        /\ \A x \in Nanos : case[x].status # "none" => case'[x].status # "none"
    <2> HIDE DEF new
    <2> QED
      BY <1>1, <1>4, <1>5 DEF IInv, TypeOK
  <1>7. QED
    BY <1>1, <1>5, <1>6, CommitStep

LEMMA ReviewWriteSound ==
    ASSUME NEW row \in NanoRow, NEW d \in Decisions
    PROVE  LET w == ReviewWrite(row, d) IN
           /\ w \in NanoWrite
           /\ w.status = "published" =>
                w.publishedAt = "recent" \/ row.publishedAt # "null"
           /\ w.publishedAt = "recent" =>
                w.status = "published" \/ row.status = "published"
           /\ w.status \notin {"archived", "pending_review"}
  BY DEF ReviewWrite, NoWrite, NanoWrite, NanoRow, Statuses, StampPublished,
         Decisions

\* A review writes published_at only together with the status: a Nano it
\* finds published already has one.
LEMMA FlushReviewStep ==
    ASSUME IInv, NEW r \in Requests, FlushReview(r)
    PROVE  IInv' /\ \A x \in Nanos : Keeps(x)
  <1> DEFINE n == req[r].nano
             w == ReviewWrite(nano[n], req[r].decision)
             t == [req[r] EXCEPT !.phase = "flushed", !.write = w]
  <1>1. /\ req[r] \in Txn /\ n \in Nanos /\ nano[n] \in NanoRow
        /\ req[r].endpoint = "review"
    BY DEF FlushReview, At, IInv, TypeOK, Txn, NoTxn
  <1>2. SoundTxn(req[r], nano[n], HasCase(n))
    BY <1>1, NoTxnIsNotATxn DEF IInv, PendingWritesAreSound
  <1>3. nano[n].status = "published" => nano[n].publishedAt # "null"
    BY <1>1 DEF IInv, TimestampsMatchStatus
  <1>4. /\ w \in NanoWrite
        /\ w.status = "published" =>
             w.publishedAt = "recent" \/ nano[n].publishedAt # "null"
        /\ w.publishedAt = "recent" => w.status = "published"
        /\ w.status \notin {"archived", "pending_review"}
    BY <1>1, <1>3 DEF ReviewWrite, NoWrite, NanoWrite, NanoRow, Statuses,
                      StampPublished
  <1> HIDE DEF w
  <1>5. /\ t \in Txn /\ t.write = w /\ t.by = req[r].by /\ t.nano = n
        /\ t.endpoint = "review"
    BY <1>1, <1>4 DEF Txn
  <1>6. req' = [req EXCEPT ![r] = t] /\ UNCHANGED <<nano, case>>
    BY DEF FlushReview, IInv, TypeOK, w
  <1> HIDE DEF t
  <1>7. SoundTxn(t, nano[t.nano], case[t.nano].status # "none")
    BY <1>1, <1>2, <1>4, <1>5 DEF SoundTxn
  <1>8. QED
    BY <1>5, <1>6, <1>7, ReadStep

LEMMA CommitReviewStep ==
    ASSUME IInv, NEW r \in Requests, CommitReview(r)
    PROVE  IInv' /\ \A x \in Nanos : Keeps(x)
  <1> DEFINE n == req[r].nano
             new == UpdateCase(case[n], req[r].caseWrite)
  <1>1. req[r] \in Txn /\ req[r] # NoTxn /\ n \in Nanos
    BY NoTxnIsNotATxn DEF CommitReview, At, IInv, TypeOK, Txn, NoTxn
  <1>2. new \in CaseRow /\ (case[n].status # "none" => new.status # "none")
    BY <1>1, UpdateCaseType DEF IInv, TypeOK, Txn
  <1>3. /\ nano' = [nano EXCEPT ![n] = UpdateNano(@, req[r].write)]
        /\ case' = [case EXCEPT ![n] = new]
        /\ End(r)
    BY DEF CommitReview
  <1>4. /\ case' \in [Nanos -> CaseRow]
        /\ \A x \in Nanos : case[x].status # "none" => case'[x].status # "none"
    <2> HIDE DEF new
    <2> QED
      BY <1>1, <1>2, <1>3 DEF IInv, TypeOK
  <1>5. QED
    BY <1>1, <1>3, <1>4, CommitStep

\* The queue endpoint only inserts cases: no row of nanos changes.
LEMMA CommitQueueStep ==
    ASSUME IInv, NEW r \in Requests, CommitQueue(r)
    PROVE  IInv' /\ \A x \in Nanos : Keeps(x)
  <1>1. FreshCase \in CaseRow /\ FreshCase.status # "none"
    BY DEF FreshCase, CaseRow, CaseStatuses
  <1>2. /\ case' = [m \in Nanos |-> IF m \in req[r].inserts THEN FreshCase
                                    ELSE case[m]]
        /\ nano' = nano
        /\ req' = [req EXCEPT ![r] = NoTxn]
    BY DEF CommitQueue, End
  <1>3. TypeOK'
    BY <1>1, <1>2 DEF IInv, TypeOK
  <1>4. \A x \in Nanos : Keeps(x)
    BY <1>1, <1>2 DEF Keeps
  <1>5. TimestampsMatchStatus'
    BY <1>2 DEF IInv, TimestampsMatchStatus
  <1>6. PendingWritesAreSound'
    <2> SUFFICES ASSUME NEW q \in Requests, req'[q] # NoTxn
                 PROVE  SoundTxn(req'[q], nano'[req'[q].nano],
                                 case'[req'[q].nano].status # "none")
      BY DEF PendingWritesAreSound, HasCase
    <2> DEFINE m == req[q].nano
    <2>1. q # r /\ req'[q] = req[q]
      BY <1>2 DEF IInv, TypeOK
    <2>2. req[q] \in Txn /\ m \in Nanos /\ nano[m] \in NanoRow
      BY <2>1 DEF IInv, TypeOK, Txn
    <2>3. SoundTxn(req[q], nano[m], case[m].status # "none")
      BY <2>1 DEF IInv, PendingWritesAreSound, HasCase
    <2>4. nano'[m] = nano[m] /\ Keeps(m)
      BY <1>2, <1>4, <2>2
    <2>5. SoundTxn(req[q], nano'[m], case'[m].status # "none")
      BY <2>2, <2>3, <2>4, SoundTxnKept
    <2>6. QED
      BY <2>1, <2>5, Zenon
  <1>7. QED
    BY <1>3, <1>4, <1>5, <1>6 DEF IInv

\* A step outside any request: one row of nanos changes, no timestamp is lost.
LEMMA RowStep ==
    ASSUME IInv, NEW n \in Nanos, NEW new \in NanoRow,
           nano' = [nano EXCEPT ![n] = new], UNCHANGED <<case, req>>,
           nano[n].publishedAt # "null" => new.publishedAt # "null",
           nano[n].archivedAt # "null" => new.archivedAt # "null",
           new.status = "published" => new.publishedAt # "null",
           new.status = "archived" => new.archivedAt # "null"
    PROVE  IInv' /\ \A x \in Nanos : Keeps(x)
  <1>1. TypeOK'
    BY DEF IInv, TypeOK
  <1>2. \A x \in Nanos : Keeps(x)
    BY DEF Keeps, IInv, TypeOK
  <1>3. TimestampsMatchStatus'
    BY DEF IInv, TypeOK, TimestampsMatchStatus
  <1>4. PendingWritesAreSound'
    <2> SUFFICES ASSUME NEW q \in Requests, req[q] # NoTxn
                 PROVE  SoundTxn(req[q], nano'[req[q].nano],
                                 case[req[q].nano].status # "none")
      BY DEF PendingWritesAreSound, HasCase
    <2> DEFINE m == req[q].nano
    <2>1. /\ req[q] \in Txn /\ m \in Nanos
          /\ nano[m] \in NanoRow /\ nano'[m] \in NanoRow
      BY <1>1 DEF IInv, TypeOK, Txn
    <2>2. SoundTxn(req[q], nano[m], case[m].status # "none")
      BY DEF IInv, PendingWritesAreSound, HasCase
    <2>3. Keeps(m) /\ case' = case
      BY <1>2, <2>1
    <2>4. SoundTxn(req[q], nano'[m], case'[m].status # "none")
      BY <2>1, <2>2, <2>3, SoundTxnKept
    <2>5. QED
      BY <2>3, <2>4
  <1>5. QED
    BY <1>1, <1>2, <1>3, <1>4 DEF IInv

LEMMA CreateDraftStep ==
    ASSUME IInv, NEW n \in Nanos, CreateDraft(n)
    PROVE  IInv' /\ \A x \in Nanos : Keeps(x)
  <1>1. /\ DraftRow \in NanoRow /\ DraftRow.status = "draft"
        /\ AbsentRow.publishedAt = "null" /\ AbsentRow.archivedAt = "null"
    BY DEF DraftRow, AbsentRow, NanoRow, Statuses
  <1>2. /\ nano[n] = AbsentRow
        /\ nano' = [nano EXCEPT ![n] = DraftRow] /\ UNCHANGED <<case, req>>
    BY DEF CreateDraft
  <1>3. QED
    BY <1>1, <1>2, RowStep

LEMMA AgePublicationStep ==
    ASSUME IInv, NEW n \in Nanos, AgePublication(n)
    PROVE  IInv' /\ \A x \in Nanos : Keeps(x)
  <1> DEFINE new == [nano[n] EXCEPT !.publishedAt = "old"]
  <1>1. nano[n] \in NanoRow
    BY DEF IInv, TypeOK
  <1>2. /\ new \in NanoRow /\ new.publishedAt = "old"
        /\ new.status = nano[n].status /\ new.archivedAt = nano[n].archivedAt
    BY <1>1 DEF NanoRow
  <1>3. nano' = [nano EXCEPT ![n] = new] /\ UNCHANGED <<case, req>>
    BY DEF AgePublication, IInv, TypeOK
  <1>4. new.status = "archived" => new.archivedAt # "null"
    BY <1>2 DEF IInv, TimestampsMatchStatus
  <1> HIDE DEF new
  <1>5. QED
    BY <1>2, <1>3, <1>4, RowStep

LEMMA ProceedStep ==
    ASSUME IInv, NEW r \in Requests, Proceed(r)
    PROVE  IInv' /\ \A x \in Nanos : Keeps(x)
  <1>1. CASE CommitStatusUpdate(r)
    BY <1>1, CommitNanoStep DEF CommitStatusUpdate
  <1>2. CASE FlushSubmission(r)
    BY <1>2, FlushSubmissionStep
  <1>3. CASE CommitSubmission(r)
    BY <1>3, CommitSubmissionStep
  <1>4. CASE CommitMetadataUpdate(r)
    BY <1>4, CommitNanoStep DEF CommitMetadataUpdate
  <1>5. CASE CommitDelete(r)
    BY <1>5, CommitNanoStep DEF CommitDelete
  <1>6. CASE CommitTakedown(r)
    BY <1>6, CommitNanoStep DEF CommitTakedown
  <1>7. CASE FlushReview(r)
    BY <1>7, FlushReviewStep
  <1>8. CASE RefuseReview(r)
    BY <1>8, RollbackStep DEF RefuseReview
  <1>9. CASE CommitReview(r)
    BY <1>9, CommitReviewStep
  <1>10. CASE CommitQueue(r)
    BY <1>10, CommitQueueStep
  <1>11. CASE InsertConflict(r)
    BY <1>11, RollbackStep DEF InsertConflict
  <1>12. CASE DeadlockVictim(r)
    BY <1>12, RollbackStep DEF DeadlockVictim
  <1>13. QED
    BY <1>1, <1>2, <1>3, <1>4, <1>5, <1>6, <1>7, <1>8, <1>9, <1>10, <1>11,
       <1>12 DEF Proceed

LEMMA NextStep == IInv /\ [Next]_vars => IInv' /\ \A x \in Nanos : Keeps(x)
  <1> SUFFICES ASSUME IInv, [Next]_vars
               PROVE  IInv' /\ \A x \in Nanos : Keeps(x)
    OBVIOUS
  <1>1. ASSUME NEW r \in Requests, Load(r)
        PROVE  IInv' /\ \A x \in Nanos : Keeps(x)
    BY <1>1, LoadStep
  <1>2. ASSUME NEW r \in Requests, Proceed(r)
        PROVE  IInv' /\ \A x \in Nanos : Keeps(x)
    BY <1>2, ProceedStep
  <1>3. ASSUME NEW r \in Requests, Crash(r)
        PROVE  IInv' /\ \A x \in Nanos : Keeps(x)
    BY <1>3, RollbackStep DEF Crash
  <1>4. ASSUME NEW n \in Nanos, CreateDraft(n) \/ AgePublication(n)
        PROVE  IInv' /\ \A x \in Nanos : Keeps(x)
    BY <1>4, CreateDraftStep, AgePublicationStep
  <1>5. CASE UNCHANGED vars
    <2>1. UNCHANGED <<nano, case, req>>
      BY <1>5 DEF vars
    <2>2. TypeOK' /\ TimestampsMatchStatus'
      BY <2>1 DEF IInv, TypeOK, TimestampsMatchStatus
    <2>3. PendingWritesAreSound'
      BY <2>1 DEF IInv, PendingWritesAreSound, HasCase
    <2>4. QED
      BY <2>1, <2>2, <2>3 DEF IInv, Keeps
  <1>6. QED
    BY <1>1, <1>2, <1>3, <1>4, <1>5 DEF Next

LEMMA InitIInv == Init => IInv
  <1> SUFFICES ASSUME Init PROVE IInv
    OBVIOUS
  <1>1. \A n \in Nanos : /\ nano[n] \in NanoRow
                         /\ nano[n].status \notin {"published", "archived"}
    <2>1. AbsentRow \in NanoRow /\ AbsentRow.status = "absent"
      BY DEF AbsentRow, DraftRow, NanoRow, Statuses
    <2>2. ASSUME NEW f \in SUBSET Fields
          PROVE  LET row == [DraftRow EXCEPT !.status = "pending_review",
                                            !.filled = f]
                 IN  row \in NanoRow /\ row.status = "pending_review"
      BY DEF DraftRow, NanoRow, Statuses
    <2>3. \A row \in LegacyRows :
             row \in NanoRow /\ row.status = "pending_review"
      BY <2>2 DEF LegacyRows
    <2>4. QED
      BY <2>1, <2>3 DEF Init
  <1>2. TypeOK
    BY <1>1 DEF Init, TypeOK, NoCase, CaseRow, LegacyRows
  <1>3. TimestampsMatchStatus /\ PendingWritesAreSound
    BY <1>1 DEF Init, TimestampsMatchStatus, PendingWritesAreSound
  <1>4. QED
    BY <1>2, <1>3 DEF IInv

-----------------------------------------------------------------------------
(* What always holds *)

LEMMA Invariance == Spec => []IInv
  BY InitIInv, NextStep, PTL DEF Spec

\* The rows, and every request in progress, are always well formed.
THEOREM TypeCorrect == Spec => []TypeOK
  <1>1. IInv => TypeOK
    BY DEF IInv
  <1>2. QED
    BY <1>1, Invariance, PTL

\* However many requests interleave, and however stale what they read, a
\* published Nano has published_at and an archived one archived_at.
THEOREM TimestampsCorrect == Spec => []TimestampsMatchStatus
  <1>1. IInv => TimestampsMatchStatus
    BY DEF IInv
  <1>2. QED
    BY <1>1, Invariance, PTL

\* What a request decided on stale reads stays right until it commits.
THEOREM PendingWritesCorrect == Spec => []PendingWritesAreSound
  <1>1. IInv => PendingWritesAreSound
    BY DEF IInv
  <1>2. QED
    BY <1>1, Invariance, PTL

-----------------------------------------------------------------------------
(* What a step may do to the rows *)

\* A request commits and applies its pending write to its Nano.
Applies(r) ==
    /\ req[r] # NoTxn
    /\ nano' = [nano EXCEPT ![req[r].nano] = UpdateNano(@, req[r].write)]
    /\ req' = [req EXCEPT ![r] = NoTxn]
    /\ req[r].write.status = "pending_review" /\ req[r].endpoint = "status"
          => CommitSubmission(r)
    /\ req[r].endpoint = "review" => CommitReview(r)

\* Rows of nanos change only by the commit of a request, an upload or the
\* passing of time.
LEMMA RowsChange ==
    ASSUME [Next]_vars
    PROVE  \/ nano' = nano
           \/ \E r \in Requests : Applies(r)
           \/ \E n \in Nanos : CreateDraft(n) \/ AgePublication(n)
  <1>1. ASSUME NEW r \in Requests, Load(r)
        PROVE  nano' = nano
    <2>1. ASSUME NEW u \in Users, LoadQueue(r, u) PROVE nano' = nano
      BY <2>1 DEF LoadQueue, Begin
    <2>2. ASSUME NEW u \in Users, NEW n \in Nanos,
                 NEW target \in Statuses \ {"absent"},
                 LoadStatusUpdate(r, u, n, target)
          PROVE  nano' = nano
      BY <2>2 DEF LoadStatusUpdate, Begin
    <2>3. ASSUME NEW u \in Users, NEW n \in Nanos, NEW fill \in SUBSET Fields,
                 NEW clear \in SUBSET Fields,
                 LoadMetadataUpdate(r, u, n, fill, clear)
          PROVE  nano' = nano
      BY <2>3 DEF LoadMetadataUpdate, Begin
    <2>4. ASSUME NEW u \in Users, NEW n \in Nanos,
                 LoadDelete(r, u, n) \/ LoadTakedown(r, u, n)
          PROVE  nano' = nano
      BY <2>4 DEF LoadDelete, LoadTakedown, Begin
    <2>5. ASSUME NEW u \in Users, NEW n \in Nanos, NEW d \in Decisions,
                 LoadReview(r, u, n, d)
          PROVE  nano' = nano
      BY <2>5 DEF LoadReview, Begin
    <2>6. QED
      BY <1>1, <2>1, <2>2, <2>3, <2>4, <2>5 DEF Load
  <1>2. ASSUME NEW r \in Requests, Proceed(r)
        PROVE  nano' = nano \/ Applies(r)
    <2>1. CASE CommitStatusUpdate(r)
      BY <2>1 DEF CommitStatusUpdate, CommitNano, At, NoTxn, End, Applies
    <2>2. CASE CommitMetadataUpdate(r)
      BY <2>2 DEF CommitMetadataUpdate, CommitNano, At, NoTxn, End, Applies
    <2>3. CASE CommitDelete(r)
      BY <2>3 DEF CommitDelete, CommitNano, At, NoTxn, End, Applies
    <2>4. CASE CommitTakedown(r)
      BY <2>4 DEF CommitTakedown, CommitNano, At, NoTxn, End, Applies
    <2>5. CASE CommitSubmission(r)
      <3>1. /\ req[r] # NoTxn /\ req' = [req EXCEPT ![r] = NoTxn]
            /\ nano' = [nano EXCEPT ![req[r].nano] =
                                       UpdateNano(@, req[r].write)]
        BY <2>5 DEF CommitSubmission, At, NoTxn, End
      <3>2. QED
        BY <2>5, <3>1 DEF Applies, CommitSubmission, At
    <2>6. CASE CommitReview(r)
      <3>1. /\ req[r] # NoTxn /\ req' = [req EXCEPT ![r] = NoTxn]
            /\ req[r].endpoint = "review"
            /\ nano' = [nano EXCEPT ![req[r].nano] =
                                       UpdateNano(@, req[r].write)]
        BY <2>6 DEF CommitReview, At, NoTxn, End
      <3>2. QED
        BY <2>6, <3>1 DEF Applies
    <2>7. CASE \/ FlushSubmission(r) \/ FlushReview(r) \/ RefuseReview(r)
               \/ CommitQueue(r) \/ InsertConflict(r) \/ DeadlockVictim(r)
      BY <2>7 DEF FlushSubmission, FlushReview, RefuseReview, CommitQueue,
         InsertConflict, DeadlockVictim, Rollback
    <2>8. QED
      BY <1>2, <2>1, <2>2, <2>3, <2>4, <2>5, <2>6, <2>7 DEF Proceed
  <1>3. ASSUME NEW r \in Requests, Crash(r)
        PROVE  nano' = nano
    BY <1>3 DEF Crash, Rollback
  <1>4. CASE UNCHANGED vars
    BY <1>4 DEF vars
  <1>5. QED
    BY <1>1, <1>2, <1>3, <1>4 DEF Next

LEMMA AppliedWrite ==
    ASSUME IInv, NEW r \in Requests, Applies(r)
    PROVE  LET n == req[r].nano IN
           /\ req[r] \in Txn /\ n \in Nanos
           /\ SoundTxn(req[r], nano[n], case[n].status # "none")
           /\ req'[r] = NoTxn
           /\ nano'[n] = UpdateNano(nano[n], req[r].write)
           /\ \A x \in Nanos \ {n} : nano'[x] = nano[x]
  BY DEF IInv, TypeOK, PendingWritesAreSound, HasCase, Applies, Txn

\* Only a moderator's or admin's request makes a Nano public, whatever other
\* requests do between its check of the role and its commit.
THEOREM OnlyModeratorsPublishHolds == Spec => OnlyModeratorsPublish
  <1>1. ASSUME IInv, [Next]_vars, NEW n \in Nanos,
               nano[n].status # "published", nano'[n].status = "published"
        PROVE  \E r \in Requests : /\ Publishes(r, n)
                                   /\ req[r].by \in Moderators
                                   /\ req'[r] = NoTxn
    <2>1. CASE nano' = nano
      BY <1>1, <2>1
    <2>2. ASSUME NEW r \in Requests, Applies(r)
          PROVE  \E q \in Requests : /\ Publishes(q, n)
                                     /\ req[q].by \in Moderators
                                     /\ req'[q] = NoTxn
      <3>1. req[r].nano = n
        BY <1>1, <2>2, AppliedWrite
      <3>2. req[r].write.status = "published"
        <4>1. nano'[n].status = Column(nano[n].status, req[r].write.status)
          BY <1>1, <2>2, <3>1, AppliedWrite, UpdateNanoFields
        <4>2. QED
          BY <1>1, <4>1 DEF Column
      <3>3. QED
        BY <1>1, <2>2, <3>1, <3>2, AppliedWrite
           DEF Publishes, SoundTxn, Applies
    <2>3. ASSUME NEW x \in Nanos, CreateDraft(x)
          PROVE  FALSE
      BY <1>1, <2>3 DEF IInv, TypeOK, CreateDraft, DraftRow
    <2>4. ASSUME NEW x \in Nanos, AgePublication(x)
          PROVE  FALSE
      BY <1>1, <2>4 DEF IInv, TypeOK, AgePublication, NanoRow
    <2>5. QED
      BY <1>1, <2>1, <2>2, <2>3, <2>4, RowsChange
  <1>2. IInv /\ [Next]_vars =>
          [\A n \in Nanos :
             nano[n].status # "published" /\ nano'[n].status = "published" =>
               \E r \in Requests : /\ Publishes(r, n)
                                   /\ req[r].by \in Moderators
                                   /\ req'[r] = NoTxn]_vars
    BY <1>1
  <1>3. QED
    BY <1>2, Invariance, PTL DEF Spec, OnlyModeratorsPublish

\* A Nano never enters review without a case for the moderators: the status
\* and the case row are written by one transaction, and no case disappears
\* between a submission's SELECT and its commit.
THEOREM SubmittedHasCaseHolds == Spec => SubmittedHasCase
  <1>1. ASSUME IInv, [Next]_vars, NEW n \in Nanos,
               nano[n].status # "pending_review",
               nano'[n].status = "pending_review"
        PROVE  case'[n].status # "none"
    <2>1. CASE nano' = nano
      BY <1>1, <2>1
    <2>2. ASSUME NEW r \in Requests, Applies(r)
          PROVE  case'[n].status # "none"
      <3>1. req[r].nano = n
        BY <1>1, <2>2, AppliedWrite
      <3>2. nano'[n].status = Column(nano[n].status, req[r].write.status)
        BY <1>1, <2>2, <3>1, AppliedWrite, UpdateNanoFields
      <3>3. req[r].write.status = "pending_review"
        BY <1>1, <3>2 DEF Column
      <3>4. CommitSubmission(r)
        BY <1>1, <2>2, <3>1, <3>3, AppliedWrite DEF SoundTxn, Applies
      <3>5. case \in [Nanos -> CaseRow]
        BY <1>1 DEF IInv, TypeOK
      <3>6. CASE req[r].inserts # {}
        BY <3>1, <3>4, <3>5, <3>6 DEF CommitSubmission, FreshCase
      <3>7. CASE req[r].inserts = {}
        <4>1. case[n].status # "none"
          BY <1>1, <2>2, <3>1, <3>4, <3>7, AppliedWrite
             DEF CommitSubmission, At, SoundTxn
        <4>2. QED
          BY <1>1, <4>1, NextStep DEF Keeps
      <3>8. QED
        BY <3>6, <3>7
    <2>3. ASSUME NEW x \in Nanos, CreateDraft(x)
          PROVE  FALSE
      BY <1>1, <2>3 DEF IInv, TypeOK, CreateDraft, DraftRow
    <2>4. ASSUME NEW x \in Nanos, AgePublication(x)
          PROVE  FALSE
      BY <1>1, <2>4 DEF IInv, TypeOK, AgePublication, NanoRow
    <2>5. QED
      BY <1>1, <2>1, <2>2, <2>3, <2>4, RowsChange
  <1>2. IInv /\ [Next]_vars =>
          [\A n \in Nanos :
             nano[n].status # "pending_review"
                /\ nano'[n].status = "pending_review" => HasCase(n)']_vars
    BY <1>1 DEF HasCase
  <1>3. QED
    BY <1>2, Invariance, PTL DEF Spec, SubmittedHasCase

-----------------------------------------------------------------------------
(* Refinement of the abstract record of publications *)

Visible == [n \in Nanos |-> nano[n].status = "published"]
Stamp == [n \in Nanos |-> nano[n].publishedAt]

LEMMA PublicationInit == Init => Publication!Init
  <1> SUFFICES ASSUME Init
               PROVE  Visible = [n \in Nanos |-> FALSE]
                      /\ Stamp = [n \in Nanos |-> "null"]
    BY DEF Publication!Init, Visible, Stamp
  <1>1. /\ AbsentRow.status # "published" /\ AbsentRow.publishedAt = "null"
        /\ \A row \in LegacyRows : /\ row.status # "published"
                                   /\ row.publishedAt = "null"
    <2>1. ASSUME NEW f \in SUBSET Fields
          PROVE  LET row == [DraftRow EXCEPT !.status = "pending_review",
                                            !.filled = f]
                 IN  row.status # "published" /\ row.publishedAt = "null"
      BY DEF DraftRow
    <2>2. AbsentRow.status # "published" /\ AbsentRow.publishedAt = "null"
      BY DEF AbsentRow, DraftRow
    <2>3. QED
      BY <2>1, <2>2 DEF LegacyRows
  <1>2. \A n \in Nanos : /\ nano[n].status # "published"
                         /\ nano[n].publishedAt = "null"
    BY <1>1 DEF Init
  <1>3. QED
    BY <1>2 DEF Visible, Stamp

\* A commit publishes the Nano, or hides it and keeps its publication time,
\* or changes neither.
LEMMA AppliesRefines ==
    ASSUME IInv, IInv', NEW r \in Requests, Applies(r),
           NEW n \in Nanos, n = req[r].nano
    PROVE  \/ Publication!Publish(n)
           \/ Publication!Hide(n)
           \/ UNCHANGED <<Visible, Stamp>>
  <1> DEFINE w == req[r].write
  <1>1. /\ req[r] \in Txn /\ n \in Nanos
        /\ SoundTxn(req[r], nano[n], case[n].status # "none")
        /\ nano'[n] = UpdateNano(nano[n], w)
        /\ \A x \in Nanos \ {n} : nano'[x] = nano[x]
    BY AppliedWrite
  <1>2. /\ nano'[n].status = Column(nano[n].status, w.status)
        /\ nano'[n].publishedAt = Column(nano[n].publishedAt, w.publishedAt)
    BY <1>1, UpdateNanoFields
  <1>3. w.publishedAt \in {"keep", "recent"}
    BY <1>1 DEF Txn, NanoWrite
  <1>4. /\ w.publishedAt = "recent" => w.status = "published"
        /\ nano'[n].status = "published" => nano'[n].publishedAt # "null"
    BY <1>1 DEF SoundTxn, IInv, TimestampsMatchStatus
  <1>5. /\ Visible' = [Visible EXCEPT ![n] = nano'[n].status = "published"]
        /\ Stamp' = [Stamp EXCEPT ![n] = nano'[n].publishedAt]
    BY <1>1 DEF Visible, Stamp
  <1>6. CASE w.publishedAt = "recent"
    <2>1. Visible' = [Visible EXCEPT ![n] = TRUE]
          /\ Stamp' = [Stamp EXCEPT ![n] = "recent"]
      BY <1>2, <1>4, <1>5, <1>6 DEF Column
    <2>2. QED
      BY <2>1 DEF Publication!Publish, Visible, Stamp
  <1>7. CASE w.publishedAt = "keep"
    <2>1. nano'[n].publishedAt = nano[n].publishedAt
      BY <1>2, <1>7 DEF Column
    <2>2. Stamp' = Stamp /\ Stamp[n] = nano[n].publishedAt
      BY <1>1, <1>5, <2>1 DEF Stamp
    <2>3. CASE nano'[n].status = "published"
      <3>1. Visible' = [Visible EXCEPT ![n] = TRUE] /\ Stamp[n] # "null"
        BY <1>4, <1>5, <2>1, <2>2, <2>3
      <3>2. QED
        BY <2>2, <3>1 DEF Publication!Publish, Visible, Stamp
    <2>4. CASE nano'[n].status # "published"
      <3>1. Visible' = [Visible EXCEPT ![n] = FALSE]
        BY <1>5, <2>4
      <3>2. QED
        BY <2>2, <3>1 DEF Publication!Hide, Visible, Stamp
    <2>5. QED
      BY <2>3, <2>4
  <1>8. QED
    BY <1>3, <1>6, <1>7

LEMMA PublicationMoves ==
    ASSUME NEW n \in Nanos, Publication!Publish(n) \/ Publication!Hide(n)
    PROVE  Publication!Next
  BY DEF Publication!Next

LEMMA PublicationStep ==
    ASSUME IInv, IInv', [Next]_vars
    PROVE  [Publication!Next]_<<Visible, Stamp>>
  <1>1. CASE nano' = nano
    BY <1>1 DEF Visible, Stamp
  <1>2. ASSUME NEW r \in Requests, Applies(r)
        PROVE  [Publication!Next]_<<Visible, Stamp>>
    <2>1. PICK n \in Nanos : n = req[r].nano
      BY <1>2, AppliedWrite
    <2>2. \/ Publication!Publish(n) \/ Publication!Hide(n)
          \/ UNCHANGED <<Visible, Stamp>>
      BY <1>2, <2>1, AppliesRefines
    <2>3. QED
      BY <2>2, PublicationMoves
  <1>3. ASSUME NEW n \in Nanos, CreateDraft(n)
        PROVE  UNCHANGED <<Visible, Stamp>>
    <2>1. /\ AbsentRow.status # "published" /\ AbsentRow.publishedAt = "null"
          /\ DraftRow.status # "published" /\ DraftRow.publishedAt = "null"
      BY DEF AbsentRow, DraftRow
    <2>2. nano[n] = AbsentRow /\ nano' = [nano EXCEPT ![n] = DraftRow]
      BY <1>3 DEF CreateDraft
    <2>3. \A x \in Nanos :
             /\ (nano'[x].status = "published") = (nano[x].status = "published")
             /\ nano'[x].publishedAt = nano[x].publishedAt
      BY <2>1, <2>2 DEF IInv, TypeOK
    <2>4. QED
      BY <2>3 DEF Visible, Stamp
  <1>4. ASSUME NEW n \in Nanos, AgePublication(n)
        PROVE  Publication!Age(n)
    <2>1. /\ nano[n] \in NanoRow /\ nano[n].publishedAt = "recent"
          /\ nano' = [nano EXCEPT ![n].publishedAt = "old"]
      BY <1>4 DEF AgePublication, IInv, TypeOK
    <2>2. /\ nano'[n].publishedAt = "old" /\ nano'[n].status = nano[n].status
          /\ \A x \in Nanos \ {n} : nano'[x] = nano[x]
      BY <2>1 DEF IInv, TypeOK, NanoRow
    <2>3. Visible' = Visible
      BY <2>2 DEF Visible
    <2>4. Stamp' = [Stamp EXCEPT ![n] = "old"] /\ Stamp[n] = "recent"
      <3>1. Stamp[n] = "recent"
        BY <2>1 DEF Stamp
      <3>2. \A x \in Nanos : nano'[x].publishedAt =
               IF x = n THEN "old" ELSE nano[x].publishedAt
        BY <2>2
      <3>3. Stamp' = [x \in Nanos |-> IF x = n THEN "old" ELSE Stamp[x]]
        BY <3>2 DEF Stamp
      <3>4. QED
        BY <3>1, <3>3 DEF Stamp
    <2>5. QED
      BY <2>3, <2>4 DEF Publication!Age, Visible, Stamp
  <1>5. QED
    BY <1>1, <1>2, <1>3, <1>4, RowsChange DEF Publication!Next

\* The rows implement the abstract record of publications: whatever requests
\* overlap, a Nano is public only with a publication time, which is never
\* lost and only replaced by a publication.
THEOREM PublicationRecordedHolds == Spec => PublicationRecorded
  <1>1. IInv /\ IInv' /\ [Next]_vars => [Publication!Next]_<<Visible, Stamp>>
    BY PublicationStep
  <1>2. QED
    BY <1>1, PublicationInit, Invariance, PTL
       DEF Spec, PublicationRecorded, Publication!Spec, Visible, Stamp

-----------------------------------------------------------------------------
(* What holds when requests do not overlap *)

\* One request is in progress at a time.
OneAtATime == \A q, r \in Requests : q = r

\* The promises about a Nano's row and its case, and that an absent Nano has
\* neither a case nor a publication time.
Good(row, c) ==
    /\ row.status = "published" => Complete(row)
    /\ row.status = "pending_review" => c.status \notin {"approved", "rejected"}
    /\ c.status = "pending" => c.decidedAt = "null"
    /\ row.status = "absent" => c.status = "none" /\ row.publishedAt = "null"

\* A review gives the case its decision, and the Nano the status that goes
\* with it.
ReviewFits(t, row, c) ==
    /\ t.decision \in Decisions
    /\ UpdateCase(c, t.caseWrite).status = CaseStatusOf[t.decision]
    /\ t.phase = "flushed" =>
          LET status == Column(row.status, t.write.status) IN
          /\ t.decision = "approve" => status = "published"
          /\ t.decision = "reject" => status = "draft"

\* What a request is about to write suits the row and the case that it found,
\* which are still there when it commits.
Fits(t, row, c) ==
    /\ row.status # "absent"
    /\ t.write.status # "absent"
    /\ t.write.status # "keep" /\ t.endpoint # "review" =>
          t.write.status \in Lifecycle!Successors[row.status]
    /\ t.write.status = "published" => Complete(row)
    /\ IF t.endpoint = "metadata"
       THEN row.status = "draft" /\ t.write.status = "keep"
       ELSE t.write.fill = {} /\ t.write.clear = {}
    /\ t.endpoint = "takedown" =>
          Column(row.status, t.write.status) # "published"
    /\ t.endpoint = "status" /\ t.phase = "flushed" /\ t.inserts = {} =>
          UpdateCase(c, t.caseWrite) = FreshCase
    /\ t.endpoint = "review" => ReviewFits(t, row, c)

SequentialInv ==
    /\ \A n \in Nanos : Good(nano[n], case[n])
    /\ \A r \in Requests : req[r] # NoTxn =>
          /\ Fits(req[r], nano[req[r].nano], case[req[r].nano])
          /\ \A m \in req[r].inserts : nano[m].status # "absent"

\* A request begins, or goes on without a change of rows.
LEMMA FittingStep ==
    ASSUME IInv, SequentialInv, NEW r \in Requests, NEW t \in Txn,
           req' = [req EXCEPT ![r] = t], UNCHANGED <<nano, case>>,
           Fits(t, nano[t.nano], case[t.nano]),
           \A m \in t.inserts : nano[m].status # "absent"
    PROVE  SequentialInv'
  BY DEF SequentialInv, IInv, TypeOK

LEMMA SequentialRollback ==
    ASSUME IInv, SequentialInv, NEW r \in Requests, Rollback(r)
    PROVE  SequentialInv'
  BY DEF SequentialInv, Rollback, End, IInv, TypeOK

\* After a commit no request is in progress.
LEMMA SequentialCommit ==
    ASSUME IInv, OneAtATime, NEW r \in Requests, End(r),
           \A n \in Nanos : Good(nano[n], case[n])'
    PROVE  SequentialInv'
  <1>1. \A q \in Requests : req'[q] = NoTxn
    BY DEF OneAtATime, End, IInv, TypeOK
  <1>q. QED BY <1>1 DEF SequentialInv

\* The one Nano of the request is updated.
LEMMA SequentialUpdate ==
    ASSUME IInv, SequentialInv, OneAtATime, NEW r \in Requests, End(r),
           NEW n \in Nanos, NEW row, NEW c,
           nano' = [nano EXCEPT ![n] = row], case' = [case EXCEPT ![n] = c],
           Good(row, c)
    PROVE  SequentialInv'
  <1>1. \A x \in Nanos : Good(nano'[x], case'[x])
    BY DEF SequentialInv, IInv, TypeOK
  <1>q. QED BY <1>1, SequentialCommit

LEMMA RequestIsTxn ==
    ASSUME IInv, SequentialInv, NEW r \in Requests, req[r] # NoTxn
    PROVE  LET t == req[r] IN
           /\ t \in Txn /\ t.nano \in Nanos
           /\ nano[t.nano] \in NanoRow /\ case[t.nano] \in CaseRow
           /\ Good(nano[t.nano], case[t.nano])
           /\ Fits(t, nano[t.nano], case[t.nano])
           /\ SoundTxn(t, nano[t.nano], HasCase(t.nano))
  <1>1. req[r] \in Txn /\ req[r].nano \in Nanos
    BY DEF IInv, TypeOK, Txn
  <1>q. QED BY <1>1 DEF IInv, TypeOK, PendingWritesAreSound, SequentialInv

-----------------------------------------------------------------------------
(* What the requests find *)

LEMMA LoadStatusUpdateFits ==
    ASSUME IInv, SequentialInv, NEW r \in Requests, NEW u \in Users,
           NEW n \in Nanos, NEW target \in Statuses \ {"absent"},
           LoadStatusUpdate(r, u, n, target)
    PROVE  SequentialInv'
  <1> DEFINE row == nano[n]
             w == [NoWrite EXCEPT
                     !.status = target,
                     !.publishedAt = IF target = "published"
                                     THEN StampPublished(row) ELSE "keep",
                     !.archivedAt = IF target = "archived"
                                    THEN StampArchived(row) ELSE "keep"]
             t == NewTxn("status", u, n, w)
  <1>1. w \in NanoWrite /\ w.status = target /\ w.fill = {} /\ w.clear = {}
    BY DEF NoWrite, NanoWrite, StampPublished, StampArchived
  <1>2. /\ t \in Txn /\ t.inserts = {} /\ t.nano = n /\ t.write = w
        /\ t.phase = "loaded" /\ t.endpoint = "status"
    BY <1>1, NewTxnType DEF AllEndpoints, NewTxn
  <1>3. target \in Lifecycle!Successors[row.status] /\ row.status # "absent"
    BY DEF LoadStatusUpdate, AllowedTransition, Lifecycle!Successors
  <1>4. target = "published" => Complete(row)
    BY DEF LoadStatusUpdate
  <1>5. req' = [req EXCEPT ![r] = t] /\ UNCHANGED <<nano, case>>
    BY DEF LoadStatusUpdate, Begin
  <1> HIDE DEF t
  <1>6. Fits(t, row, case[n])
    BY <1>1, <1>2, <1>3, <1>4 DEF Fits
  <1>q. QED BY <1>2, <1>5, <1>6, FittingStep

LEMMA LoadMetadataUpdateFits ==
    ASSUME IInv, SequentialInv, NEW r \in Requests, NEW u \in Users,
           NEW n \in Nanos, NEW fill \in SUBSET Fields,
           NEW clear \in SUBSET Fields,
           LoadMetadataUpdate(r, u, n, fill, clear)
    PROVE  SequentialInv'
  <1> DEFINE w == [NoWrite EXCEPT !.fill = fill,
                                  !.clear = clear \cap nano[n].filled]
             t == NewTxn("metadata", u, n, w)
  <1>1. w \in NanoWrite /\ w.status = "keep"
    BY DEF NoWrite, NanoWrite
  <1>2. /\ t \in Txn /\ t.inserts = {} /\ t.nano = n /\ t.write = w
        /\ t.phase = "loaded" /\ t.endpoint = "metadata"
    BY <1>1, NewTxnType DEF AllEndpoints, NewTxn
  <1>3. nano[n].status = "draft"
    BY DEF LoadMetadataUpdate
  <1>4. req' = [req EXCEPT ![r] = t] /\ UNCHANGED <<nano, case>>
    BY DEF LoadMetadataUpdate, Begin
  <1> HIDE DEF t
  <1>5. Fits(t, nano[n], case[n])
    BY <1>1, <1>2, <1>3 DEF Fits
  <1>q. QED BY <1>2, <1>4, <1>5, FittingStep

LEMMA LoadDeleteFits ==
    ASSUME IInv, SequentialInv, NEW r \in Requests, NEW u \in Users,
           NEW n \in Nanos, LoadDelete(r, u, n)
    PROVE  SequentialInv'
  <1> DEFINE w == [NoWrite EXCEPT !.status = "deleted"]
             t == NewTxn("delete", u, n, w)
  <1>1. w \in NanoWrite /\ w.status = "deleted" /\ w.fill = {} /\ w.clear = {}
    BY DEF NoWrite, NanoWrite, Statuses
  <1>2. /\ t \in Txn /\ t.inserts = {} /\ t.nano = n /\ t.write = w
        /\ t.phase = "loaded" /\ t.endpoint = "delete"
    BY <1>1, NewTxnType DEF AllEndpoints, NewTxn
  <1>3. nano[n].status \in {"draft", "archived"}
    BY DEF LoadDelete
  <1>4. req' = [req EXCEPT ![r] = t] /\ UNCHANGED <<nano, case>>
    BY DEF LoadDelete, Begin
  <1> HIDE DEF t
  <1>5. Fits(t, nano[n], case[n])
    BY <1>1, <1>2, <1>3 DEF Fits, Lifecycle!Successors
  <1>q. QED BY <1>2, <1>4, <1>5, FittingStep

LEMMA LoadTakedownFits ==
    ASSUME IInv, SequentialInv, NEW r \in Requests, NEW u \in Users,
           NEW n \in Nanos, LoadTakedown(r, u, n)
    PROVE  SequentialInv'
  <1> DEFINE w == [NoWrite EXCEPT
                     !.status = IF nano[n].status = "published"
                                THEN "archived" ELSE "keep",
                     !.archivedAt = StampArchived(nano[n])]
             t == NewTxn("takedown", u, n, w)
  <1>1. /\ w \in NanoWrite /\ w.fill = {} /\ w.clear = {}
        /\ w.status = IF nano[n].status = "published" THEN "archived" ELSE "keep"
    BY DEF NoWrite, NanoWrite, Statuses, StampArchived
  <1>2. /\ t \in Txn /\ t.inserts = {} /\ t.nano = n /\ t.write = w
        /\ t.phase = "loaded" /\ t.endpoint = "takedown"
    BY <1>1, NewTxnType DEF AllEndpoints, NewTxn
  <1>3. nano[n].status # "absent"
    BY DEF LoadTakedown
  <1>4. req' = [req EXCEPT ![r] = t] /\ UNCHANGED <<nano, case>>
    BY DEF LoadTakedown, Begin
  <1> HIDE DEF t
  <1>5. Fits(t, nano[n], case[n])
    BY <1>1, <1>2, <1>3 DEF Fits, Lifecycle!Successors, Column
  <1>q. QED BY <1>2, <1>4, <1>5, FittingStep

LEMMA LoadReviewFits ==
    ASSUME IInv, SequentialInv, NEW r \in Requests, NEW u \in Users,
           NEW n \in Nanos, NEW d \in Decisions, LoadReview(r, u, n, d)
    PROVE  SequentialInv'
  <1> DEFINE cw == [status |-> IF case[n].status = CaseStatusOf[d]
                               THEN "keep" ELSE CaseStatusOf[d],
                    decidedAt |-> "set"]
             t0 == NewTxn("review", u, n, NoWrite)
             t == [t0 EXCEPT !.decision = d, !.caseWrite = cw]
  <1>1. cw \in CaseWrite
    BY DEF CaseWrite, CaseStatuses, CaseStatusOf, Decisions
  <1>2. t0 \in Txn
    BY NoWriteType, NewTxnType DEF AllEndpoints
  <1>3. /\ t \in Txn /\ t.inserts = {} /\ t.nano = n /\ t.decision = d
        /\ t.caseWrite = cw /\ t.write = NoWrite /\ t.phase = "loaded"
        /\ t.endpoint = "review"
    BY <1>1, <1>2 DEF NewTxn, Txn
  <1>4. UpdateCase(case[n], cw).status = CaseStatusOf[d]
    BY DEF UpdateCase, Column, CaseStatusOf, Decisions
  <1>5. nano[n].status # "absent"
    BY DEF LoadReview, HasCase, SequentialInv, Good
  <1>6. req' = [req EXCEPT ![r] = t] /\ UNCHANGED <<nano, case>>
    BY DEF LoadReview, Begin
  <1> HIDE DEF t
  <1>7. Fits(t, nano[n], case[n])
    BY <1>3, <1>4, <1>5 DEF Fits, ReviewFits, NoWrite
  <1>q. QED BY <1>3, <1>6, <1>7, FittingStep

LEMMA LoadQueueFits ==
    ASSUME IInv, SequentialInv, NEW r \in Requests, NEW u \in Users,
           LoadQueue(r, u)
    PROVE  SequentialInv'
  <1> DEFINE missing == {m \in Nanos : /\ nano[m].status = "pending_review"
                                       /\ ~HasCase(m)}
             n == CHOOSE m \in missing : TRUE
             t0 == NewTxn("queue", u, n, NoWrite)
             t == [t0 EXCEPT !.inserts = missing]
  <1>1. n \in missing /\ n \in Nanos /\ nano[n].status = "pending_review"
    BY DEF LoadQueue
  <1>2. t0 \in Txn
    BY <1>1, NoWriteType, NewTxnType DEF AllEndpoints
  <1>3. /\ t \in Txn /\ t.inserts = missing /\ t.nano = n
        /\ t.write = NoWrite /\ t.endpoint = "queue"
    BY <1>2 DEF NewTxn, Txn
  <1>4. req' = [req EXCEPT ![r] = t] /\ UNCHANGED <<nano, case>>
    BY DEF LoadQueue, Begin
  <1> HIDE DEF t
  <1>5. Fits(t, nano[n], case[n])
    BY <1>1, <1>3 DEF Fits, NoWrite
  <1>q. QED BY <1>3, <1>4, <1>5, FittingStep

LEMMA LoadFits ==
    ASSUME IInv, SequentialInv, NEW r \in Requests, Load(r)
    PROVE  SequentialInv'
  <1>1. PICK u \in Users :
        \/ LoadQueue(r, u)
        \/ \E n \in Nanos :
            \/ \E target \in Statuses \ {"absent"} :
                   LoadStatusUpdate(r, u, n, target)
            \/ \E fill, clear \in SUBSET Fields :
                   LoadMetadataUpdate(r, u, n, fill, clear)
            \/ LoadDelete(r, u, n)
            \/ LoadTakedown(r, u, n)
            \/ \E d \in Decisions : LoadReview(r, u, n, d)
    BY DEF Load
  <1>q. QED
    BY <1>1, LoadQueueFits, LoadStatusUpdateFits, LoadMetadataUpdateFits,
       LoadDeleteFits, LoadTakedownFits, LoadReviewFits

-----------------------------------------------------------------------------
(* What they leave *)

LEMMA CaseResetIsFresh ==
    ASSUME NEW c \in CaseRow
    PROVE  UpdateCase(c, CaseReset(c)) = FreshCase
  BY DEF CaseReset, UpdateCase, Column, FreshCase, CaseRow

LEMMA UpdateNanoColumns ==
    ASSUME NEW row \in NanoRow, NEW w \in NanoWrite
    PROVE  LET new == UpdateNano(row, w) IN
           /\ new.status = Column(row.status, w.status)
           /\ w.fill = {} /\ w.clear = {} => new.filled = row.filled
  BY DEF UpdateNano, NanoRow, NanoWrite

\* The row an update leaves keeps the promises with the case that is there by
\* then.
LEMMA UpdatedRowGood ==
    ASSUME NEW row \in NanoRow, NEW t \in Txn, NEW c, NEW c2,
           Good(row, c), Fits(t, row, c),
           c2.status = "pending" => c2.decidedAt = "null",
           Column(row.status, t.write.status) = "pending_review" =>
              c2.status \notin {"approved", "rejected"}
    PROVE  Good(UpdateNano(row, t.write), c2)
  <1> DEFINE new == UpdateNano(row, t.write)
  <1>1. t.write \in NanoWrite
    BY DEF Txn
  <1>2. new.status = Column(row.status, t.write.status)
    BY <1>1, UpdateNanoColumns
  <1>3. new.status # "absent"
    BY <1>2 DEF Fits, Column
  <1>4. new.status = "published" => Complete(new)
    <2>1. ASSUME new.status = "published"
          PROVE  Complete(row) /\ t.endpoint # "metadata"
      BY <1>2, <2>1 DEF Fits, Column, Good
    <2>2. ASSUME t.endpoint # "metadata" PROVE new.filled = row.filled
      BY <1>1, <2>2, UpdateNanoColumns DEF Fits
    <2>q. QED BY <2>1, <2>2 DEF Complete
  <1>q. QED BY <1>2, <1>3, <1>4 DEF Good

LEMMA CommitNanoFits ==
    ASSUME IInv, SequentialInv, OneAtATime, NEW r \in Requests,
           NEW endpoint \in {"status", "metadata", "delete", "takedown"},
           At(r, "loaded", endpoint), CommitNano(r),
           endpoint = "status" => req[r].write.status # "pending_review"
    PROVE  SequentialInv'
  <1> DEFINE t == req[r]
             n == t.nano
             new == UpdateNano(nano[n], t.write)
  <1>1. /\ t \in Txn /\ n \in Nanos /\ nano[n] \in NanoRow
        /\ case[n] \in CaseRow /\ Good(nano[n], case[n])
        /\ Fits(t, nano[n], case[n]) /\ SoundTxn(t, nano[n], HasCase(n))
    BY RequestIsTxn DEF At, NoTxn
  <1>2. t.write.status # "pending_review"
    BY <1>1 DEF At, SoundTxn
  <1>3. Good(new, case[n])
    BY <1>1, <1>2, UpdatedRowGood DEF Good, Column
  <1>4. /\ nano' = [nano EXCEPT ![n] = new] /\ End(r)
        /\ case' = [case EXCEPT ![n] = case[n]]
    BY DEF CommitNano, IInv, TypeOK
  <1>q. QED BY <1>1, <1>3, <1>4, SequentialUpdate

LEMMA FlushSubmissionFits ==
    ASSUME IInv, SequentialInv, NEW r \in Requests, FlushSubmission(r)
    PROVE  SequentialInv'
  <1> DEFINE n == req[r].nano
             ins == IF HasCase(n) THEN {} ELSE {n}
             cw == IF HasCase(n) THEN CaseReset(case[n]) ELSE NoCaseWrite
             t == [req[r] EXCEPT !.phase = "flushed", !.inserts = ins,
                                 !.caseWrite = cw]
  <1>1. /\ req[r] \in Txn /\ n \in Nanos /\ case[n] \in CaseRow
        /\ Fits(req[r], nano[n], case[n])
    BY RequestIsTxn DEF FlushSubmission, At, NoTxn
  <1>2. cw \in CaseWrite /\ ins \in SUBSET Nanos
    BY <1>1 DEF CaseReset, NoCaseWrite, CaseWrite, CaseStatuses
  <1>3. /\ t \in Txn /\ t.nano = n /\ t.inserts = ins /\ t.caseWrite = cw
        /\ t.write = req[r].write /\ t.endpoint = req[r].endpoint
        /\ t.endpoint = "status"
    BY <1>1, <1>2 DEF Txn, FlushSubmission, At
  <1>4. req' = [req EXCEPT ![r] = t] /\ UNCHANGED <<nano, case>>
    BY <1>1 DEF FlushSubmission, IInv, TypeOK, Txn
  <1>5. ins = {} => UpdateCase(case[n], cw) = FreshCase
    BY <1>1, CaseResetIsFresh
  <1>6. \A m \in ins : nano[m].status # "absent"
    BY <1>1 DEF Fits
  <1> HIDE DEF t, ins, cw
  <1>7. Fits(t, nano[n], case[n])
    BY <1>1, <1>3, <1>5 DEF Fits
  <1>q. QED BY <1>3, <1>4, <1>6, <1>7, FittingStep

LEMMA CommitSubmissionFits ==
    ASSUME IInv, SequentialInv, OneAtATime, NEW r \in Requests,
           CommitSubmission(r)
    PROVE  SequentialInv'
  <1> DEFINE t == req[r]
             n == t.nano
             new == UpdateNano(nano[n], t.write)
  <1>1. /\ t \in Txn /\ n \in Nanos /\ nano[n] \in NanoRow
        /\ Good(nano[n], case[n]) /\ Fits(t, nano[n], case[n])
    BY RequestIsTxn DEF CommitSubmission, At, NoTxn
  <1>2. nano' = [nano EXCEPT ![n] = new] /\ End(r)
    BY DEF CommitSubmission
  <1>3. case' = [case EXCEPT ![n] = FreshCase]
    BY <1>1 DEF CommitSubmission, At, Fits
  <1>4. Good(new, FreshCase)
    BY <1>1, UpdatedRowGood DEF FreshCase
  <1>q. QED BY <1>1, <1>2, <1>3, <1>4, SequentialUpdate

LEMMA ReviewWriteFits ==
    ASSUME NEW row \in NanoRow, NEW d \in Decisions,
           d = "approve" => Complete(row)
    PROVE  LET w == ReviewWrite(row, d) IN
           /\ w.fill = {} /\ w.clear = {} /\ w.status # "absent"
           /\ w.status = "published" => Complete(row)
           /\ d = "approve" => Column(row.status, w.status) = "published"
           /\ d = "reject" => Column(row.status, w.status) = "draft"
  BY DEF ReviewWrite, NoWrite, Column, Decisions

LEMMA FlushReviewFits ==
    ASSUME IInv, SequentialInv, NEW r \in Requests, FlushReview(r)
    PROVE  SequentialInv'
  <1> DEFINE n == req[r].nano
             d == req[r].decision
             w == ReviewWrite(nano[n], d)
             t == [req[r] EXCEPT !.phase = "flushed", !.write = w]
  <1>1. /\ req[r] \in Txn /\ n \in Nanos /\ nano[n] \in NanoRow
        /\ Fits(req[r], nano[n], case[n]) /\ req[r].endpoint = "review"
    BY RequestIsTxn DEF FlushReview, At, NoTxn
  <1>2. d \in Decisions /\ (d = "approve" => Complete(nano[n]))
    BY <1>1 DEF Fits, ReviewFits, FlushReview
  <1>3. w \in NanoWrite
    BY <1>1, <1>2, ReviewWriteSound
  <1>4. /\ t \in Txn /\ t.nano = n /\ t.write = w /\ t.endpoint = "review"
        /\ t.caseWrite = req[r].caseWrite /\ t.inserts = req[r].inserts
        /\ t.decision = d
    BY <1>1, <1>3 DEF Txn
  <1>5. req' = [req EXCEPT ![r] = t] /\ UNCHANGED <<nano, case>>
    BY <1>1 DEF FlushReview, IInv, TypeOK, Txn
  <1>6. \A m \in t.inserts : nano[m].status # "absent"
    BY <1>4 DEF SequentialInv, FlushReview, At, NoTxn
  <1> HIDE DEF t
  <1>7. ReviewFits(t, nano[n], case[n])
    BY <1>1, <1>2, <1>4, ReviewWriteFits DEF Fits, ReviewFits
  <1>8. Fits(t, nano[n], case[n])
    BY <1>1, <1>2, <1>4, <1>7, ReviewWriteFits DEF Fits
  <1>q. QED BY <1>4, <1>5, <1>6, <1>8, FittingStep

LEMMA CommitReviewFits ==
    ASSUME IInv, SequentialInv, OneAtATime, NEW r \in Requests, CommitReview(r)
    PROVE  SequentialInv'
  <1> DEFINE t == req[r]
             n == t.nano
             new == UpdateNano(nano[n], t.write)
             c == UpdateCase(case[n], t.caseWrite)
  <1>1. /\ t \in Txn /\ n \in Nanos /\ nano[n] \in NanoRow
        /\ Good(nano[n], case[n]) /\ Fits(t, nano[n], case[n])
        /\ t.endpoint = "review" /\ t.phase = "flushed"
    BY RequestIsTxn DEF CommitReview, At, NoTxn
  <1>2. /\ nano' = [nano EXCEPT ![n] = new] /\ End(r)
        /\ case' = [case EXCEPT ![n] = c]
    BY DEF CommitReview
  <1>3. ReviewFits(t, nano[n], case[n])
    BY <1>1 DEF Fits
  <1>4. /\ c.status # "pending"
        /\ Column(nano[n].status, t.write.status) = "pending_review" =>
              c.status \notin {"approved", "rejected"}
    BY <1>1, <1>3 DEF ReviewFits, CaseStatusOf, Decisions
  <1>5. Good(new, c)
    BY <1>1, <1>4, UpdatedRowGood
  <1>q. QED BY <1>1, <1>2, <1>5, SequentialUpdate

LEMMA CommitQueueFits ==
    ASSUME IInv, SequentialInv, OneAtATime, NEW r \in Requests, CommitQueue(r)
    PROVE  SequentialInv'
  <1>1. \A m \in req[r].inserts : nano[m].status # "absent"
    BY DEF SequentialInv, CommitQueue, At, NoTxn
  <1>2. /\ case' = [m \in Nanos |-> IF m \in req[r].inserts THEN FreshCase
                                    ELSE case[m]]
        /\ nano' = nano /\ End(r)
    BY DEF CommitQueue
  <1>3. ASSUME NEW n \in Nanos PROVE Good(nano'[n], case'[n])
    BY <1>1, <1>2 DEF SequentialInv, Good, FreshCase
  <1>q. QED BY <1>2, <1>3, SequentialCommit

\* An upload, or the passing of time.
LEMMA RowStepFits ==
    ASSUME IInv, SequentialInv, NEW n \in Nanos, NEW new,
           nano' = [nano EXCEPT ![n] = new], UNCHANGED <<case, req>>,
           Good(new, case[n]), new.status # "absent",
           \A r \in Requests : req[r] # NoTxn /\ req[r].nano = n =>
              Fits(req[r], new, case[n])
    PROVE  SequentialInv'
  <1>1. \A x \in Nanos : nano'[x] = IF x = n THEN new ELSE nano[x]
    BY DEF IInv, TypeOK
  <1>2. \A x \in Nanos : Good(nano'[x], case'[x])
    BY <1>1 DEF SequentialInv
  <1>3. ASSUME NEW r \in Requests, req[r] # NoTxn
        PROVE  /\ Fits(req'[r], nano'[req'[r].nano], case'[req'[r].nano])
               /\ \A m \in req'[r].inserts : nano'[m].status # "absent"
    <2>1. req[r] \in Txn /\ req[r].nano \in Nanos /\ req[r].inserts \subseteq Nanos
      BY <1>3 DEF IInv, TypeOK, Txn
    <2>2. /\ Fits(req[r], nano[req[r].nano], case[req[r].nano])
          /\ \A m \in req[r].inserts : nano[m].status # "absent"
      BY <1>3 DEF SequentialInv
    <2>q. QED BY <1>1, <1>3, <2>1, <2>2
  <1>q. QED BY <1>2, <1>3 DEF SequentialInv

LEMMA CreateDraftFits ==
    ASSUME IInv, SequentialInv, NEW n \in Nanos, CreateDraft(n)
    PROVE  SequentialInv'
  <1>1. /\ nano[n] = AbsentRow /\ AbsentRow.status = "absent"
        /\ nano' = [nano EXCEPT ![n] = DraftRow] /\ UNCHANGED <<case, req>>
        /\ DraftRow.status = "draft"
    BY DEF CreateDraft, AbsentRow, DraftRow
  <1>2. Good(DraftRow, case[n])
    BY <1>1 DEF SequentialInv, Good
  <1>3. ASSUME NEW r \in Requests, req[r] # NoTxn, req[r].nano = n
        PROVE  FALSE
    BY <1>1, <1>3 DEF SequentialInv, Fits
  <1>q. QED BY <1>1, <1>2, <1>3, RowStepFits

LEMMA AgePublicationFits ==
    ASSUME IInv, SequentialInv, NEW n \in Nanos, AgePublication(n)
    PROVE  SequentialInv'
  <1> DEFINE new == [nano[n] EXCEPT !.publishedAt = "old"]
  <1>1. /\ nano[n] \in NanoRow /\ nano[n].publishedAt = "recent"
        /\ new.status = nano[n].status /\ new.filled = nano[n].filled
        /\ nano' = [nano EXCEPT ![n] = new] /\ UNCHANGED <<case, req>>
    BY DEF AgePublication, IInv, TypeOK, NanoRow
  <1> HIDE DEF new
  <1>2. Good(nano[n], case[n]) /\ Good(new, case[n])
    BY <1>1 DEF SequentialInv, Good, Complete
  <1>3. new.status # "absent"
    BY <1>1 DEF SequentialInv, Good
  <1>4. ASSUME NEW r \in Requests, req[r] # NoTxn, req[r].nano = n
        PROVE  Fits(req[r], new, case[n])
    BY <1>1, <1>4 DEF SequentialInv, Fits, ReviewFits, Complete
  <1>q. QED BY <1>1, <1>2, <1>3, <1>4, RowStepFits

-----------------------------------------------------------------------------
(* The invariant of requests that do not overlap *)

LEMMA SequentialInit == Init => SequentialInv
  <1> SUFFICES ASSUME Init PROVE SequentialInv
    OBVIOUS
  <1>1. AbsentRow.status = "absent" /\ AbsentRow.publishedAt = "null"
    BY DEF AbsentRow, DraftRow
  <1>2. \A row \in LegacyRows : row.status = "pending_review"
    BY DEF LegacyRows, DraftRow
  <1>3. \A n \in Nanos : Good(nano[n], case[n])
    BY <1>1, <1>2 DEF Init, Good, NoCase
  <1>q. QED BY <1>3 DEF Init, SequentialInv

LEMMA ProceedFits ==
    ASSUME IInv, SequentialInv, OneAtATime, NEW r \in Requests, Proceed(r)
    PROVE  SequentialInv'
  <1>1. CASE CommitStatusUpdate(r)
    BY <1>1, CommitNanoFits DEF CommitStatusUpdate
  <1>2. CASE CommitMetadataUpdate(r)
    BY <1>2, CommitNanoFits DEF CommitMetadataUpdate
  <1>3. CASE CommitDelete(r)
    BY <1>3, CommitNanoFits DEF CommitDelete
  <1>4. CASE CommitTakedown(r)
    BY <1>4, CommitNanoFits DEF CommitTakedown
  <1>5. CASE FlushSubmission(r) \/ CommitSubmission(r)
    BY <1>5, FlushSubmissionFits, CommitSubmissionFits
  <1>6. CASE FlushReview(r) \/ CommitReview(r)
    BY <1>6, FlushReviewFits, CommitReviewFits
  <1>7. CASE CommitQueue(r)
    BY <1>7, CommitQueueFits
  <1>8. CASE RefuseReview(r) \/ InsertConflict(r) \/ DeadlockVictim(r)
    BY <1>8, SequentialRollback DEF RefuseReview, InsertConflict, DeadlockVictim
  <1>q. QED
    BY <1>1, <1>2, <1>3, <1>4, <1>5, <1>6, <1>7, <1>8 DEF Proceed

LEMMA SequentialStep ==
    ASSUME IInv, SequentialInv, OneAtATime, [Next]_vars
    PROVE  SequentialInv'
  <1>1. ASSUME NEW r \in Requests, Load(r) \/ Proceed(r) \/ Crash(r)
        PROVE  SequentialInv'
    BY <1>1, LoadFits, ProceedFits, SequentialRollback DEF Crash
  <1>2. ASSUME NEW n \in Nanos, CreateDraft(n) \/ AgePublication(n)
        PROVE  SequentialInv'
    BY <1>2, CreateDraftFits, AgePublicationFits
  <1>3. CASE UNCHANGED vars
    BY <1>3 DEF vars, SequentialInv
  <1>q. QED BY <1>1, <1>2, <1>3 DEF Next

LEMMA SequentialInvariance ==
    ASSUME OneAtATime PROVE Spec => [](IInv /\ SequentialInv)
  <1>1. IInv /\ SequentialInv /\ [Next]_vars => SequentialInv'
    BY SequentialStep
  <1>q. QED BY <1>1, SequentialInit, Invariance, PTL DEF Spec

-----------------------------------------------------------------------------
(* The promises that requests keep when they do not overlap *)

\* Without overlap no route to publication, an approval of a Nano that was
\* archived or withdrawn included, leaves required metadata missing.
THEOREM PublishedIsCompleteHolds ==
    ASSUME OneAtATime PROVE Spec => []PublishedIsComplete
  <1>1. SequentialInv => PublishedIsComplete
    BY DEF SequentialInv, Good, PublishedIsComplete
  <1>q. QED BY <1>1, SequentialInvariance, PTL

\* Without overlap a Nano in review is always found by a moderator: no earlier
\* decision is left on its case.
THEOREM PendingHasOpenCaseHolds ==
    ASSUME OneAtATime PROVE Spec => []PendingHasOpenCase
  <1>1. SequentialInv => PendingHasOpenCase
    BY DEF SequentialInv, Good, PendingHasOpenCase
  <1>q. QED BY <1>1, SequentialInvariance, PTL

\* Without overlap no part of an earlier decision survives a resubmission.
THEOREM PendingCaseIsResetHolds ==
    ASSUME OneAtATime PROVE Spec => []PendingCaseIsReset
  <1>1. SequentialInv => PendingCaseIsReset
    BY DEF SequentialInv, Good, PendingCaseIsReset
  <1>q. QED BY <1>1, SequentialInvariance, PTL

\* The commit of a takedown hides the Nano when nothing came between its read
\* and its write.
THEOREM TakedownHidesHolds ==
    ASSUME OneAtATime PROVE Spec => TakedownHides
  <1>1. ASSUME IInv, SequentialInv, NEW r \in Requests,
               At(r, "loaded", "takedown"), CommitTakedown(r)
        PROVE  nano'[req[r].nano].status # "published"
    <2>1. /\ req[r] \in Txn /\ req[r].nano \in Nanos
          /\ nano[req[r].nano] \in NanoRow
          /\ Fits(req[r], nano[req[r].nano], case[req[r].nano])
      BY <1>1, RequestIsTxn DEF At, NoTxn
    <2>2. nano'[req[r].nano] = UpdateNano(nano[req[r].nano], req[r].write)
      BY <1>1, <2>1 DEF CommitTakedown, CommitNano, IInv, TypeOK
    <2>3. req[r].write \in NanoWrite
      BY <2>1 DEF Txn
    <2>q. QED BY <1>1, <2>1, <2>2, <2>3, UpdateNanoColumns DEF Fits, At
  <1>2. IInv /\ SequentialInv /\ [Next]_vars =>
          [\A r \in Requests : At(r, "loaded", "takedown") /\ CommitTakedown(r)
             => nano'[req[r].nano].status # "published"]_vars
    BY <1>1
  <1>q. QED BY <1>2, SequentialInvariance, PTL DEF Spec, TakedownHides

\* Without overlap the metadata of a Nano changes while it is a draft, and by
\* no other request than an edit.
THEOREM MetadataOnlyInDraftHolds ==
    ASSUME OneAtATime PROVE Spec => MetadataOnlyInDraft
  <1>1. ASSUME IInv, SequentialInv, [Next]_vars, NEW n \in Nanos,
               nano'[n].filled # nano[n].filled
        PROVE  nano[n].status \in {"absent", "draft"}
    <2>1. CASE nano' = nano
      BY <1>1, <2>1
    <2>2. ASSUME NEW r \in Requests, Applies(r)
          PROVE  nano[n].status = "draft"
      <3>1. /\ req[r].nano = n /\ req[r] # NoTxn /\ req[r] \in Txn
            /\ nano'[n] = UpdateNano(nano[n], req[r].write)
        BY <1>1, <2>2, AppliedWrite DEF Applies
      <3>2. Fits(req[r], nano[n], case[n]) /\ nano[n] \in NanoRow
        BY <1>1, <3>1, RequestIsTxn
      <3>3. req[r].write \in NanoWrite
        BY <3>1 DEF Txn
      <3>q. QED BY <1>1, <3>1, <3>2, <3>3, UpdateNanoColumns DEF Fits
    <2>3. ASSUME NEW x \in Nanos, CreateDraft(x)
          PROVE  nano[n].status = "absent"
      BY <1>1, <2>3 DEF IInv, TypeOK, CreateDraft, AbsentRow, DraftRow
    <2>4. ASSUME NEW x \in Nanos, AgePublication(x)
          PROVE  FALSE
      BY <1>1, <2>4 DEF IInv, TypeOK, AgePublication, NanoRow
    <2>q. QED BY <1>1, <2>1, <2>2, <2>3, <2>4, RowsChange
  <1>2. IInv /\ SequentialInv /\ [Next]_vars =>
          [\A n \in Nanos : nano'[n].filled # nano[n].filled =>
             nano[n].status \in {"absent", "draft"}]_vars
    BY <1>1
  <1>q. QED BY <1>2, SequentialInvariance, PTL DEF Spec, MetadataOnlyInDraft

\* Without overlap every handler but the review moves a Nano along the state
\* machine that the status endpoint documents.
THEOREM LifecycleOutsideReviewHolds ==
    ASSUME OneAtATime PROVE Spec => LifecycleOutsideReview
  <1> DEFINE status == [n \in Nanos |-> nano[n].status]
             Moved == Lifecycle!Next \/ \E r \in Requests : CommitReview(r)
  <1>1. ASSUME IInv, NEW n \in Nanos, NEW s \in DOMAIN Lifecycle!Successors,
               s \in Lifecycle!Successors[nano[n].status],
               nano'[n].status = s,
               \A x \in Nanos \ {n} : nano'[x].status = nano[x].status
        PROVE  Lifecycle!Next
    <2>1. status' = [status EXCEPT ![n] = s]
      BY <1>1
    <2>2. status[n] = nano[n].status
      OBVIOUS
    <2>q. QED BY <1>1, <2>1, <2>2 DEF Lifecycle!Next, Lifecycle!Move
  <1>2. ASSUME IInv, SequentialInv, [Next]_vars
        PROVE  Moved \/ status' = status
    <2>1. CASE nano' = nano
      BY <2>1
    <2>2. ASSUME NEW r \in Requests, Applies(r)
          PROVE  Moved \/ status' = status
      <3> DEFINE n == req[r].nano
                 s == req[r].write.status
      <3>1. /\ n \in Nanos /\ req[r] # NoTxn /\ req[r] \in Txn
            /\ nano'[n] = UpdateNano(nano[n], req[r].write)
            /\ \A x \in Nanos \ {n} : nano'[x] = nano[x]
        BY <1>2, <2>2, AppliedWrite DEF Applies
      <3>2. Fits(req[r], nano[n], case[n]) /\ nano[n] \in NanoRow
        BY <1>2, <3>1, RequestIsTxn
      <3>3. req[r].write \in NanoWrite
        BY <3>1 DEF Txn
      <3>4. nano'[n].status = Column(nano[n].status, s)
        BY <3>1, <3>2, <3>3, UpdateNanoColumns
      <3>5. CASE req[r].endpoint = "review"
        BY <2>2, <3>5 DEF Applies
      <3>6. CASE s = "keep"
        BY <3>1, <3>4, <3>6 DEF Column
      <3>7. CASE req[r].endpoint # "review" /\ s # "keep"
        <4>1. s \in Lifecycle!Successors[nano[n].status] /\ nano'[n].status = s
          BY <3>2, <3>4, <3>7 DEF Fits, Column
        <4>2. s \in DOMAIN Lifecycle!Successors
          BY <3>3, <3>7 DEF NanoWrite, Statuses, Lifecycle!Successors
        <4>q. QED BY <1>1, <1>2, <3>1, <4>1, <4>2
      <3>q. QED BY <3>5, <3>6, <3>7
    <2>3. ASSUME NEW n \in Nanos, CreateDraft(n)
          PROVE  Lifecycle!Next
      <3>1. /\ nano[n].status = "absent" /\ nano'[n].status = "draft"
            /\ \A x \in Nanos \ {n} : nano'[x].status = nano[x].status
        BY <1>2, <2>3 DEF CreateDraft, AbsentRow, DraftRow, IInv, TypeOK
      <3>q. QED BY <1>1, <1>2, <3>1 DEF Lifecycle!Successors
    <2>4. ASSUME NEW n \in Nanos, AgePublication(n)
          PROVE  status' = status
      <3>1. \A x \in Nanos : nano'[x].status = nano[x].status
        BY <1>2, <2>4 DEF AgePublication, IInv, TypeOK, NanoRow
      <3>q. QED BY <3>1
    <2>q. QED BY <1>2, <2>1, <2>2, <2>3, <2>4, RowsChange
  <1>3. IInv /\ SequentialInv /\ [Next]_vars => [Moved]_status
    BY <1>2
  <1>q. QED BY <1>3, SequentialInvariance, PTL DEF Spec, LifecycleOutsideReview
=============================================================================
