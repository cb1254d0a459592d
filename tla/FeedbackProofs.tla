--------------------------- MODULE FeedbackProofs ---------------------------
(***************************************************************************)
(* Who makes feedback visible, and that what enters review has a case, for *)
(* any number of requests on any number of rows; that, while requests do   *)
(* not overlap, rating cache and content agree and only the moderation     *)
(* endpoints under /nanos take a case and its content apart; and the types.*)
(***************************************************************************)
EXTENDS Feedback, Induction, FiniteSetTheorems, TLAPS

Fields == {"endpoint", "by", "item", "decision", "step", "seen", "loaded",
           "item_write", "case_write", "cache_write", "inserts"}

-----------------------------------------------------------------------------
(* The order of the rows *)

\* After its content an author's request writes the cache and ends with the
\* case; only a review comes to the content later.
LEMMA OrderIs ==
    ASSUME NEW t, t.endpoint \in AllEndpoints
    PROVE  /\ Len(Order(t)) \in Nat
           /\ t.endpoint \in {"create", "update"} =>
                 /\ Len(Order(t)) > 1
                 /\ \A k \in 2 .. Len(Order(t)) :
                       Order(t)[k] = IF k = Len(Order(t)) THEN "case"
                                     ELSE "cache"
           /\ \A k \in 2 .. Len(Order(t)) :
                 /\ t.endpoint = "moderate" => Order(t)[k] = "cache"
                 /\ t.endpoint = "review" => Order(t)[k] \in {"item", "cache"}
                 /\ t.endpoint # "queue"
<1> DEFINE Tables == {"item", "cache", "case"}
           a == AfterItem(t)
<1>1. /\ a \in Seq(Tables)
      /\ Len(a) = 0 \/ (Len(a) = 1 /\ a[1] = "cache")
  <2>1. CASE a = <<"cache">>
    <3>1. <<"cache">> \in Seq(Tables) /\ Len(<<"cache">>) = 1 /\ <<"cache">>[1] = "cache"
      OBVIOUS
    <3> HIDE DEF a
    <3>q. QED BY <2>1, <3>1
  <2>2. CASE a = << >>
    <3>1. << >> \in Seq(Tables) /\ Len(<< >>) = 0
      OBVIOUS
    <3> HIDE DEF a
    <3>q. QED BY <2>2, <3>1
  <2>q. QED BY <2>1, <2>2 DEF AfterItem
<1>2. /\ <<"item">> \in Seq(Tables) /\ <<"case">> \in Seq(Tables)
      /\ <<"case", "item">> \in Seq(Tables)
  OBVIOUS
<1> HIDE DEF a
<1>3. CASE t.endpoint \in {"create", "update"}
  <2>1. Order(t) = (<<"item">> \o a) \o <<"case">>
    BY <1>3 DEF Order, a
  <2>2. /\ <<"item">> \o a \in Seq(Tables)
        /\ Len(<<"item">> \o a) = 1 + Len(a)
        /\ Len(a) = 1 => (<<"item">> \o a)[2] = "cache"
    <3>1. Len(<<"item">>) = 1
      OBVIOUS
    <3>2. /\ <<"item">> \o a \in Seq(Tables)
          /\ Len(<<"item">> \o a) = Len(<<"item">>) + Len(a)
      BY <1>1, <1>2
    <3>3. Len(a) = 1 => (<<"item">> \o a)[Len(<<"item">>) + 1] = a[1]
      BY <1>1, <1>2, <3>1
    <3>q. QED BY <1>1, <3>1, <3>2, <3>3
  <2> DEFINE b == <<"item">> \o a
  <2>3. /\ Len(Order(t)) = 2 + Len(a)
        /\ \A k \in 2 .. Len(Order(t)) :
              Order(t)[k] = IF k = Len(Order(t)) THEN "case" ELSE "cache"
    <3> HIDE DEF b
    <3>1. b \in Seq(Tables) /\ Len(b) = 1 + Len(a) /\ (Len(a) = 1 => b[2] = "cache")
      BY <2>2 DEF b
    <3>2. Order(t) = b \o <<"case">>
      BY <2>1 DEF b
    <3>3. Len(Order(t)) = Len(b) + 1
      BY <1>2, <3>1, <3>2
    <3>4. \A k \in 1 .. Len(b) : Order(t)[k] = b[k]
      BY <1>2, <3>1, <3>2
    <3>5. Order(t)[Len(b) + 1] = "case"
      BY <1>2, <3>1, <3>2
    <3>6. Len(Order(t)) = 2 + Len(a)
      BY <1>1, <3>1, <3>3
    <3> HIDE DEF Tables
    <3>7. CASE Len(a) = 0
      BY <3>1, <3>3, <3>5, <3>6, <3>7
    <3>8. CASE Len(a) = 1
      <4>1. Len(b) = 2 /\ Len(Order(t)) = 3
        BY <3>1, <3>6, <3>8
      <4>2. Order(t)[2] = "cache" /\ Order(t)[3] = "case"
        BY <3>1, <3>4, <3>5, <3>8, <4>1
      <4>3. ASSUME NEW k \in 2 .. Len(Order(t))
            PROVE  k = 2 \/ k = 3
        BY <4>1, <4>3
      <4>4. ASSUME NEW k \in 2 .. Len(Order(t))
            PROVE  Order(t)[k] = IF k = Len(Order(t)) THEN "case" ELSE "cache"
        <5>1. CASE k = 2
          BY <4>1, <4>2, <5>1
        <5>2. CASE k = 3
          BY <4>1, <4>2, <5>2
        <5>q. QED BY <4>3, <5>1, <5>2
      <4>q. QED BY <3>6, <4>4, Zenon
    <3>9. Len(a) = 0 \/ Len(a) = 1
      BY <1>1
    <3>q. QED BY <3>7, <3>8, <3>9, Zenon
  <2>q. QED BY <1>1, <1>3, <2>3
<1>4. CASE t.endpoint = "moderate"
  <2>1. Order(t) = <<"item">> \o a
    BY <1>4 DEF Order, a
  <2>q. QED BY <1>1, <1>2, <1>4, <2>1
<1>5. CASE t.endpoint = "review"
  <2>1. \/ Order(t) = <<"case", "item">> \o a
        \/ Order(t) = <<"case">>
    BY <1>5 DEF Order, a
  <2>2. CASE Order(t) = <<"case", "item">> \o a
    BY <1>1, <1>2, <1>5, <2>2
  <2>3. CASE Order(t) = <<"case">>
    BY <1>5, <2>3
  <2>q. QED BY <2>1, <2>2, <2>3
<1>6. CASE t.endpoint = "queue"
  <2>1. Order(t) = <<"case">>
    BY <1>6 DEF Order
  <2>q. QED BY <1>6, <2>1
<1>q. QED BY <1>3, <1>4, <1>5, <1>6 DEF AllEndpoints

-----------------------------------------------------------------------------
(* The inductive invariant: what a transaction is about to write *)

\* The statuses each endpoint writes
StatusWritten(t) ==
    CASE t.endpoint \in {"create", "update"} -> {"pending"}
      [] t.endpoint = "moderate" -> {"approved", "hidden"}
      [] t.endpoint = "review" -> {"approved", "hidden", "resolved", "closed",
                                   "reviewed"}
      [] t.endpoint = "queue" -> {}

WritesSound(t) ==
    /\ DOMAIN t = Fields
    /\ t.endpoint \in AllEndpoints
    /\ t.item \in Items
    /\ t.step \in Nat \ {0}
    /\ t.endpoint \in {"moderate", "review", "queue"} => t.by \in Moderators
    /\ t.endpoint = "review" => t.decision \in Decisions
    /\ "status" \in DOMAIN t.item_write =>
          t.item_write["status"] \in StatusWritten(t)
    /\ "status" \in DOMAIN t.case_write => t.case_write["status"] # "none"

\* When it comes to the last row, the case, an author's request inserts it or
\* has found it.
CaseProvided(t, cases) ==
    t.endpoint \in {"create", "update"} /\ t.step = Len(Order(t)) =>
       t.item \in t.inserts \/ cases[t.item] # NoCase

FeedbackInv ==
    /\ DOMAIN item = Items
    /\ \A i \in Items : DOMAIN item[i] = {"status", "content"}
    /\ DOMAIN case = Items
    /\ \A i \in Items : /\ DOMAIN case[i] = {"status"}
                        /\ case[i] = NoCase \/ case[i].status # "none"
    /\ DOMAIN req = Requests
    /\ \A r \in Requests : req[r] # NoTxn =>
          WritesSound(req[r]) /\ CaseProvided(req[r], case)

LEMMA FeedbackInit == Init => FeedbackInv
<1> SUFFICES ASSUME Init PROVE FeedbackInv
  OBVIOUS
<1>1. /\ DOMAIN item = Items
      /\ \A i \in Items : item[i] \in {AbsentItem} \cup
                             [status : FeedbackStatuses, content : Contents]
  BY DEF Init
<1>2. \A i \in Items : DOMAIN item[i] = {"status", "content"}
  BY <1>1 DEF AbsentItem
<1>q. QED BY <1>1, <1>2 DEF Init, FeedbackInv, NoCase

\* A case, once there, stays.
LEMMA CasesStay ==
    ASSUME FeedbackInv, NEW r \in Requests, Commit(r)
    PROVE  /\ DOMAIN case' = Items
           /\ \A i \in Items : /\ DOMAIN case'[i] = {"status"}
                               /\ case'[i] = NoCase \/ case'[i].status # "none"
                               /\ case[i] # NoCase => case'[i] # NoCase
<1> DEFINE t == req[r]
<1>1. WritesSound(t)
  BY DEF FeedbackInv, Commit
<1>2. case' = [i \in Items |->
                 IF i \in t.inserts THEN PendingCase
                 ELSE IF i = t.item THEN Apply(case[i], t.case_write)
                 ELSE case[i]]
  BY DEF Commit
<1>3. NoCase.status = "none" /\ PendingCase.status = "pending"
      /\ DOMAIN PendingCase = {"status"}
  BY DEF NoCase, PendingCase
<1>4. ASSUME NEW i \in Items
      PROVE  /\ DOMAIN Apply(case[i], t.case_write) = {"status"}
             /\ \/ Apply(case[i], t.case_write) = case[i]
                \/ Apply(case[i], t.case_write).status # "none"
  <2>1. DOMAIN case[i] = {"status"} /\ (case[i] = NoCase \/ case[i].status # "none")
    BY DEF FeedbackInv
  <2>2. CASE "status" \in DOMAIN t.case_write
    BY <1>1, <2>1, <2>2 DEF Apply, WritesSound
  <2>3. CASE "status" \notin DOMAIN t.case_write
    <3>1. CASE case[i] = NoCase
      BY <2>3, <3>1 DEF Apply, NoCase
    <3>2. CASE case[i].status # "none"
      BY <2>1, <2>3, <3>2 DEF Apply
    <3>q. QED BY <2>1, <3>1, <3>2 DEF Apply
  <2>q. QED BY <2>2, <2>3
<1>q. QED BY <1>2, <1>3, <1>4 DEF FeedbackInv

-----------------------------------------------------------------------------
(* The steps that leave the rows alone *)

\* One transaction becomes t.
LEMMA TxnMoves ==
    ASSUME FeedbackInv, NEW r \in Requests, NEW t,
           req' = [req EXCEPT ![r] = t],
           WritesSound(t), CaseProvided(t, case),
           UNCHANGED <<item, case>>
    PROVE  FeedbackInv'
<1>1. \A q \in Requests : req'[q] # NoTxn =>
         WritesSound(req'[q]) /\ CaseProvided(req'[q], case)
  BY DEF FeedbackInv
<1>2. (\A q \in Requests : req[q] # NoTxn =>
          WritesSound(req[q]) /\ CaseProvided(req[q], case))'
  BY <1>1 DEF WritesSound, CaseProvided, StatusWritten
<1>q. QED BY <1>2 DEF FeedbackInv

LEMMA TxnEnds ==
    ASSUME FeedbackInv, NEW r \in Requests, Rollback(r)
    PROVE  FeedbackInv'
<1>1. \A q \in Requests : req'[q] # NoTxn => req'[q] = req[q] /\ req[q] # NoTxn
  BY DEF FeedbackInv, Rollback
<1>2. (\A q \in Requests : req[q] # NoTxn =>
          WritesSound(req[q]) /\ CaseProvided(req[q], case))'
  BY <1>1 DEF FeedbackInv, Rollback, WritesSound, CaseProvided, StatusWritten
<1>q. QED BY <1>2 DEF FeedbackInv, Rollback

LEMMA ChangesAre ==
    ASSUME NEW old, NEW new
    PROVE  "status" \in DOMAIN Changes(old, new) =>
              Changes(old, new)["status"] = new["status"]
  BY DEF Changes

\* The first step of a transaction is not its last flush of a case that it
\* has to provide.
LEMMA FirstStep ==
    ASSUME NEW t, t.endpoint \in AllEndpoints, t.step = 1
    PROVE  CaseProvided(t, case)
  BY OrderIs DEF CaseProvided

\* Where the load of a request stands
LEMMA NewTxnIs ==
    ASSUME NEW endpoint, NEW u, NEW i, NEW loaded
    PROVE  /\ DOMAIN NewTxn(endpoint, u, i) = Fields
           /\ NewTxn(endpoint, u, i).endpoint = endpoint
           /\ NewTxn(endpoint, u, i).by = u
           /\ NewTxn(endpoint, u, i).item = i
           /\ NewTxn(endpoint, u, i).step = 1
           /\ NewTxn(endpoint, u, i).item_write = NoChange
           /\ NewTxn(endpoint, u, i).case_write = NoChange
  BY DEF NewTxn, Fields

LEMMA NanoTxnIs ==
    ASSUME NEW endpoint, NEW u, NEW i
    PROVE  /\ DOMAIN NanoTxn(endpoint, u, i) = Fields
           /\ NanoTxn(endpoint, u, i).endpoint = endpoint
           /\ NanoTxn(endpoint, u, i).by = u
           /\ NanoTxn(endpoint, u, i).item = i
           /\ NanoTxn(endpoint, u, i).step = 1
           /\ NanoTxn(endpoint, u, i).item_write = NoChange
           /\ NanoTxn(endpoint, u, i).case_write = NoChange
  BY NewTxnIs DEF NanoTxn, Fields

LEMMA NoChangeIs == DOMAIN NoChange = {}
  BY DEF NoChange

\* What an endpoint under /nanos begins
LEMMA NanoTxnSound ==
    ASSUME NEW endpoint \in {"create", "update", "moderate"}, NEW u,
           NEW i \in Items, NEW old, NEW new,
           endpoint \in {"create", "update"} => new["status"] = "pending",
           endpoint = "moderate" =>
              u \in Moderators /\ new["status"] \in {"approved", "hidden"},
           NEW t, DOMAIN t = Fields, t.endpoint = endpoint, t.by = u,
           t.item = i, t.step = 1, t.item_write = Changes(old, new),
           t.case_write = NoChange
    PROVE  WritesSound(t) /\ CaseProvided(t, case)
<1>1. "status" \in DOMAIN t.item_write => t.item_write["status"] \in StatusWritten(t)
  BY ChangesAre DEF StatusWritten
<1>2. WritesSound(t)
  BY <1>1, NoChangeIs DEF WritesSound, AllEndpoints
<1>q. QED BY <1>2, FirstStep DEF WritesSound

LEMMA LoadKeepsInv ==
    ASSUME FeedbackInv, NEW r \in Requests, Load(r)
    PROVE  FeedbackInv'
<1>0. ASSUME NEW t, Begin(r, t), WritesSound(t), CaseProvided(t, case)
      PROVE  FeedbackInv'
  BY <1>0, TxnMoves DEF Begin
<1>1. ASSUME NEW u \in Users, NEW i \in Items, NEW c \in Contents,
             LoadCreate(r, u, i, c)
      PROVE  FeedbackInv'
  <2> DEFINE base == NanoTxn("create", u, i)
             t == [base EXCEPT !.item_write = Changes(AbsentItem, PendingItem(c))]
  <2>1. PendingItem(c)["status"] = "pending"
    BY DEF PendingItem
  <2>2. /\ DOMAIN t = Fields /\ t.endpoint = "create" /\ t.by = u
        /\ t.item = i /\ t.step = 1 /\ t.case_write = NoChange
        /\ t.item_write = Changes(AbsentItem, PendingItem(c))
    <3> HIDE DEF base
    <3>q. QED BY NanoTxnIs DEF Fields, base
  <2>3. WritesSound(t) /\ CaseProvided(t, case)
    <3> HIDE DEF t
    <3>q. QED BY <2>1, <2>2, NanoTxnSound
  <2>q. QED BY <1>0, <1>1, <2>3 DEF LoadCreate
<1>2. ASSUME NEW u \in Users, NEW i \in Items, NEW c \in Contents,
             LoadUpdate(r, u, i, c)
      PROVE  FeedbackInv'
  <2> DEFINE base == NanoTxn("update", u, i)
             t == [base EXCEPT !.item_write = Changes(item[i], PendingItem(c))]
  <2>1. PendingItem(c)["status"] = "pending"
    BY DEF PendingItem
  <2>2. /\ DOMAIN t = Fields /\ t.endpoint = "update" /\ t.by = u
        /\ t.item = i /\ t.step = 1 /\ t.case_write = NoChange
        /\ t.item_write = Changes(item[i], PendingItem(c))
    <3> HIDE DEF base
    <3>q. QED BY NanoTxnIs DEF Fields, base
  <2>3. WritesSound(t) /\ CaseProvided(t, case)
    <3> HIDE DEF t
    <3>q. QED BY <2>1, <2>2, NanoTxnSound
  <2>q. QED BY <1>0, <1>2, <2>3 DEF LoadUpdate
<1>3. ASSUME NEW u \in Users, NEW i \in Items,
             NEW status \in {"approved", "hidden"}, LoadModerate(r, u, i, status)
      PROVE  FeedbackInv'
  <2> DEFINE base == NanoTxn("moderate", u, i)
             new == [item[i] EXCEPT !.status = status]
             t == [base EXCEPT !.seen = item[i].content,
                               !.item_write = Changes(item[i], new)]
  <2>1. u \in Moderators /\ new["status"] = status
    BY <1>3 DEF LoadModerate, FeedbackInv
  <2>2. /\ DOMAIN t = Fields /\ t.endpoint = "moderate" /\ t.by = u
        /\ t.item = i /\ t.step = 1 /\ t.case_write = NoChange
        /\ t.item_write = Changes(item[i], new)
    <3> HIDE DEF base, new
    <3>q. QED BY NanoTxnIs DEF Fields, base
  <2>3. WritesSound(t) /\ CaseProvided(t, case)
    <3> HIDE DEF t, new
    <3>q. QED BY <2>1, <2>2, NanoTxnSound
  <2>q. QED BY <1>0, <1>3, <2>3 DEF LoadModerate
<1>4. ASSUME NEW u \in Users, NEW i \in Items, NEW d \in Decisions,
             LoadReview(r, u, i, d)
      PROVE  FeedbackInv'
  <2> DEFINE base == NewTxn("review", u, i)
             new == [status |-> CaseStatusOf[d]]
             t == [base EXCEPT !.decision = d,
                               !.case_write = Changes(case[i], new)]
  <2>1. u \in Moderators /\ new["status"] # "none"
    BY <1>4 DEF LoadReview, CaseStatusOf, Decisions
  <2>2. /\ DOMAIN t = Fields /\ t.endpoint = "review" /\ t.by = u
        /\ t.item = i /\ t.step = 1 /\ t.decision = d
        /\ t.item_write = NoChange
        /\ t.case_write = Changes(case[i], new)
    <3> HIDE DEF base, new
    <3>q. QED BY NewTxnIs DEF Fields, base
  <2>3. WritesSound(t)
    <3> HIDE DEF t, new
    <3>1. "status" \in DOMAIN t.case_write => t.case_write["status"] # "none"
      BY <2>1, <2>2, ChangesAre
    <3>q. QED BY <2>1, <2>2, <3>1, NoChangeIs DEF WritesSound, AllEndpoints
  <2>4. CaseProvided(t, case)
    <3> HIDE DEF t
    <3>q. QED BY <2>2 DEF CaseProvided
  <2>q. QED BY <1>0, <1>4, <2>3, <2>4 DEF LoadReview
<1>5. ASSUME NEW u \in Users, LoadQueue(r, u) PROVE FeedbackInv'
  <2> DEFINE missing == {i \in Ratings \cup Comments :
                            item[i].status = "pending" /\ case[i] = NoCase}
             i == CHOOSE i \in missing : TRUE
             base == NewTxn("queue", u, i)
             t == [base EXCEPT !.inserts = missing]
  <2>1. u \in Moderators /\ i \in Items
    BY <1>5 DEF LoadQueue, Items
  <2>2. /\ DOMAIN t = Fields /\ t.endpoint = "queue" /\ t.by = u
        /\ t.item = i /\ t.step = 1
        /\ t.item_write = NoChange /\ t.case_write = NoChange
    <3> HIDE DEF base, i, missing
    <3>q. QED BY NewTxnIs DEF Fields, base
  <2>3. WritesSound(t) /\ CaseProvided(t, case)
    <3> HIDE DEF t, i
    <3>q. QED BY <2>1, <2>2, NoChangeIs DEF WritesSound, AllEndpoints, CaseProvided
  <2>q. QED BY <1>0, <1>5, <2>3 DEF LoadQueue
<1>q. QED BY <1>1, <1>2, <1>3, <1>4, <1>5 DEF Load

\* No decision puts content back into review.
LEMMA DecidedStatus ==
    ASSUME NEW i, NEW d \in Decisions
    PROVE  StatusDecided(i, d) \in {"approved", "hidden", "resolved", "closed",
                                    "reviewed"}
  BY DEF StatusDecided, Decisions

\* The next flush: content only by a review, and the case provided last.
LEMMA FlushKeepsInv ==
    ASSUME FeedbackInv, NEW r \in Requests, Flush(r)
    PROVE  FeedbackInv'
<1> DEFINE old == req[r]
           t == [old EXCEPT !.step = @ + 1]
<1>1. /\ WritesSound(old)
      /\ old.step < Len(Order(old))
      /\ UNCHANGED <<item, case>>
      /\ req' = [req EXCEPT ![r] = CASE NextTable(t) = "item" -> ReadItem(t)
                                     [] NextTable(t) = "cache" -> ReadCache(t)
                                     [] NextTable(t) = "case" -> ReadCase(t)]
  BY DEF Flush, FeedbackInv
<1>2. /\ DOMAIN t = Fields
      /\ t.step = old.step + 1
      /\ t.endpoint = old.endpoint /\ t.by = old.by /\ t.item = old.item
      /\ t.decision = old.decision /\ t.inserts = old.inserts
      /\ t.item_write = old.item_write /\ t.case_write = old.case_write
  BY <1>1 DEF WritesSound, Fields
<1> HIDE DEF t
<1>3. WritesSound(t)
  <2>1. StatusWritten(t) = StatusWritten(old)
    BY <1>2 DEF StatusWritten
  <2>2. t.step \in Nat \ {0}
    BY <1>1, <1>2 DEF WritesSound
  <2> HIDE DEF old
  <2>q. QED BY <1>1, <1>2, <2>1, <2>2 DEF WritesSound
<1>4. Order(t) = Order(old)
  BY <1>2 DEF Order, AfterItem
<1>5. /\ t.step \in 2 .. Len(Order(t))
      /\ t.endpoint \in AllEndpoints /\ t.item \in Items
      /\ DOMAIN item[t.item] = {"status", "content"}
  <2>1. t.endpoint \in AllEndpoints /\ t.item \in Items
    BY <1>3 DEF WritesSound
  <2>2. old.step \in Nat \ {0} /\ Len(Order(t)) \in Nat
    BY <1>1, <2>1, OrderIs DEF WritesSound
  <2>3. t.step \in 2 .. Len(Order(t))
    BY <1>1, <1>2, <1>4, <2>2
  <2>q. QED BY <2>1, <2>3 DEF FeedbackInv
<1>6. /\ t.endpoint \in {"create", "update"} =>
            NextTable(t) = IF t.step = Len(Order(t)) THEN "case" ELSE "cache"
      /\ t.endpoint = "moderate" => NextTable(t) = "cache"
      /\ t.endpoint = "review" => NextTable(t) \in {"item", "cache"}
      /\ t.endpoint # "queue"
  BY <1>5, OrderIs DEF NextTable
<1>7. \A new : /\ new.endpoint = t.endpoint
               /\ new.item = t.item
               /\ new.decision = t.decision
               => Order(new) = Order(t)
  BY DEF Order, AfterItem
<1>8. CASE NextTable(t) = "item"
  <2> DEFINE new == ReadItem(t)
             row == [item[t.item] EXCEPT
                       !.status = StatusDecided(t.item, t.decision)]
  <2>1. t.endpoint = "review"
    BY <1>5, <1>6, <1>8 DEF AllEndpoints
  <2>2. row["status"] = StatusDecided(t.item, t.decision)
    BY <1>5
  <2>3. /\ DOMAIN new = Fields
        /\ new.step = t.step /\ new.endpoint = t.endpoint /\ new.by = t.by
        /\ new.item = t.item /\ new.decision = t.decision
        /\ new.case_write = t.case_write
        /\ new.item_write = Changes(item[t.item], row)
    <3> HIDE DEF row
    <3>q. QED BY <1>2 DEF ReadItem, Fields, row
  <2>4. "status" \in DOMAIN new.item_write =>
           new.item_write["status"] \in StatusWritten(new)
    <3>1. row["status"] \in {"approved", "hidden", "resolved", "closed", "reviewed"}
      BY <1>3, <2>1, <2>2, DecidedStatus DEF WritesSound
    <3>2. StatusWritten(new) = {"approved", "hidden", "resolved", "closed", "reviewed"}
      BY <2>1, <2>3 DEF StatusWritten
    <3> HIDE DEF row, new
    <3>q. QED BY <2>3, <3>1, <3>2, ChangesAre
  <2> HIDE DEF new, row
  <2>5. WritesSound(new)
    BY <1>3, <2>3, <2>4 DEF WritesSound
  <2>6. CaseProvided(new, case)
    BY <2>1, <2>3 DEF CaseProvided
  <2>7. req' = [req EXCEPT ![r] = new]
    BY <1>1, <1>8 DEF new
  <2>q. QED BY <1>1, <2>5, <2>6, <2>7, TxnMoves
<1>9. CASE NextTable(t) = "cache"
  <2> DEFINE new == ReadCache(t)
  <2>1. /\ DOMAIN new = Fields
        /\ new.step = t.step /\ new.endpoint = t.endpoint /\ new.by = t.by
        /\ new.item = t.item /\ new.decision = t.decision
        /\ new.case_write = t.case_write /\ new.item_write = t.item_write
    BY <1>2 DEF ReadCache, Fields
  <2> HIDE DEF new
  <2>2. WritesSound(new)
    BY <1>3, <2>1 DEF WritesSound, StatusWritten
  <2>3. CaseProvided(new, case)
    BY <1>6, <1>7, <1>9, <2>1 DEF CaseProvided
  <2>4. req' = [req EXCEPT ![r] = new]
    BY <1>1, <1>9 DEF new
  <2>q. QED BY <1>1, <2>2, <2>3, <2>4, TxnMoves
<1>10. CASE NextTable(t) = "case"
  <2> DEFINE new == ReadCase(t)
  <2>1. /\ DOMAIN new = Fields
        /\ new.step = t.step /\ new.endpoint = t.endpoint /\ new.by = t.by
        /\ new.item = t.item /\ new.decision = t.decision
        /\ new.item_write = t.item_write
        /\ new.case_write = Changes(case[t.item], PendingCase)
        /\ new.inserts = IF case[t.item] = NoCase THEN {t.item} ELSE {}
    BY <1>2 DEF ReadCase, Fields
  <2>2. PendingCase["status"] = "pending"
    BY DEF PendingCase
  <2> HIDE DEF new
  <2>3. "status" \in DOMAIN new.case_write => new.case_write["status"] # "none"
    BY <2>1, <2>2, ChangesAre
  <2>4. WritesSound(new)
    BY <1>3, <2>1, <2>3 DEF WritesSound, StatusWritten
  <2>5. CaseProvided(new, case)
    BY <2>1 DEF CaseProvided
  <2>6. req' = [req EXCEPT ![r] = new]
    BY <1>1, <1>10 DEF new
  <2>q. QED BY <1>1, <2>4, <2>5, <2>6, TxnMoves
<1>q. QED BY <1>5, <1>6, <1>8, <1>9, <1>10 DEF AllEndpoints

-----------------------------------------------------------------------------
(* The COMMIT *)

LEMMA CommitKeepsInv ==
    ASSUME FeedbackInv, NEW r \in Requests, Commit(r)
    PROVE  FeedbackInv'
<1>1. /\ item' = [item EXCEPT ![req[r].item] = Apply(@, req[r].item_write)]
      /\ req' = [req EXCEPT ![r] = NoTxn]
  BY DEF Commit
<1>2. DOMAIN item' = Items /\ \A i \in Items : DOMAIN item'[i] = {"status", "content"}
  BY <1>1 DEF FeedbackInv, Apply
<1>3. ASSUME NEW q \in Requests, req'[q] # NoTxn
      PROVE  WritesSound(req'[q]) /\ CaseProvided(req'[q], case')
  <2>1. req'[q] = req[q] /\ req[q] # NoTxn
    BY <1>1, <1>3 DEF FeedbackInv
  <2>2. WritesSound(req[q]) /\ CaseProvided(req[q], case)
    BY <2>1 DEF FeedbackInv
  <2>q. QED BY <2>1, <2>2, CasesStay DEF CaseProvided, WritesSound
<1>4. (\A q \in Requests : req[q] # NoTxn =>
          WritesSound(req[q]) /\ CaseProvided(req[q], case))'
  BY <1>3 DEF WritesSound, CaseProvided, StatusWritten
<1>q. QED BY <1>1, <1>2, <1>4, CasesStay DEF FeedbackInv

LEMMA FeedbackStep ==
    ASSUME FeedbackInv, [Next]_vars
    PROVE  FeedbackInv'
<1>1. ASSUME NEW r \in Requests,
             RefuseDuplicate(r) \/ DeadlockVictim(r) \/ Crash(r)
      PROVE  FeedbackInv'
  BY <1>1, TxnEnds DEF RefuseDuplicate, DeadlockVictim, Crash
<1>2. CASE UNCHANGED vars \/ \E n \in Nanos : ChangeVisibility(n)
  <2>1. UNCHANGED <<item, case, req>>
    BY <1>2 DEF vars, ChangeVisibility
  <2>2. (\A q \in Requests : req[q] # NoTxn =>
            WritesSound(req[q]) /\ CaseProvided(req[q], case))'
    BY <2>1 DEF FeedbackInv, WritesSound, CaseProvided, StatusWritten
  <2>q. QED BY <2>1, <2>2 DEF FeedbackInv
<1>q. QED
  BY <1>1, <1>2, LoadKeepsInv, FlushKeepsInv, CommitKeepsInv DEF Next, Proceed

LEMMA FeedbackInvHolds == Spec => []FeedbackInv
  BY FeedbackInit, FeedbackStep, PTL DEF Spec

\* Reading changes no row of a content table.
LEMMA LoadWritesNothing ==
    ASSUME NEW r \in Requests, Load(r)
    PROVE  item' = item /\ case' = case
<1>1. \A t : Begin(r, t) => item' = item /\ case' = case
  BY DEF Begin
<1>2. ASSUME NEW u \in Users, LoadQueue(r, u) PROVE item' = item /\ case' = case
  BY <1>1, <1>2 DEF LoadQueue
<1>3. ASSUME NEW u \in Users, NEW i \in Items, NEW c \in Contents,
             LoadCreate(r, u, i, c) \/ LoadUpdate(r, u, i, c)
      PROVE  item' = item /\ case' = case
  BY <1>1, <1>3 DEF LoadCreate, LoadUpdate
<1>4. ASSUME NEW u \in Users, NEW i \in Items,
             NEW status \in {"approved", "hidden"}, LoadModerate(r, u, i, status)
      PROVE  item' = item /\ case' = case
  BY <1>1, <1>4 DEF LoadModerate
<1>5. ASSUME NEW u \in Users, NEW i \in Items, NEW d \in Decisions,
             LoadReview(r, u, i, d)
      PROVE  item' = item /\ case' = case
  BY <1>1, <1>5 DEF LoadReview
<1>q. QED BY <1>2, <1>3, <1>4, <1>5 DEF Load

\* Only a commit changes the status of content, to the one it was about to
\* write.
LEMMA StatusChanges ==
    ASSUME FeedbackInv, [Next]_vars, NEW i \in Items,
           item'[i].status # item[i].status
    PROVE  \E r \in Requests :
              /\ Commit(r)
              /\ req[r].item = i
              /\ "status" \in DOMAIN req[r].item_write
              /\ item'[i].status = req[r].item_write["status"]
<1>1. ASSUME NEW r \in Requests, Load(r) PROVE item' = item
  BY <1>1, LoadWritesNothing
<1>2. ASSUME NEW r \in Requests,
             Flush(r) \/ RefuseDuplicate(r) \/ DeadlockVictim(r) \/ Crash(r)
      PROVE  item' = item
  BY <1>2 DEF Flush, RefuseDuplicate, DeadlockVictim, Crash, Rollback
<1>3. ASSUME NEW n \in Nanos, ChangeVisibility(n) PROVE item' = item
  BY <1>3 DEF ChangeVisibility
<1>4. PICK r \in Requests : Commit(r)
  BY <1>1, <1>2, <1>3 DEF Next, Proceed, vars
<1>5. item' = [item EXCEPT ![req[r].item] = Apply(@, req[r].item_write)]
  BY <1>4 DEF Commit
<1>6. /\ DOMAIN item = Items
      /\ DOMAIN item[i] = {"status", "content"}
  BY DEF FeedbackInv
<1>7. req[r].item = i /\ item'[i] = Apply(item[i], req[r].item_write)
  BY <1>5, <1>6
<1>q. QED BY <1>4, <1>6, <1>7 DEF Apply

\* Feedback is shown only by the commit of a moderator's request, whatever
\* its author and other requests do at the same time.
THEOREM OnlyModeratorsShowHolds == Spec => OnlyModeratorsShow
<1>1. ASSUME FeedbackInv, [Next]_vars, NEW i \in Items,
             item[i].status # "approved", item'[i].status = "approved"
      PROVE  \E r \in Requests : /\ req[r] # NoTxn /\ req'[r] = NoTxn
                                 /\ req[r].item = i
                                 /\ req[r].by \in Moderators
                                 /\ req[r].endpoint \in {"moderate", "review"}
  <2>1. PICK r \in Requests :
           /\ Commit(r)
           /\ req[r].item = i
           /\ "status" \in DOMAIN req[r].item_write
           /\ item'[i].status = req[r].item_write["status"]
    BY <1>1, StatusChanges
  <2>2. req[r] # NoTxn /\ req'[r] = NoTxn
    BY <1>1, <2>1 DEF Commit, FeedbackInv
  <2>3. WritesSound(req[r])
    BY <1>1, <2>2 DEF FeedbackInv
  <2>4. req[r].endpoint \in {"moderate", "review"}
    BY <1>1, <2>1, <2>3 DEF WritesSound, StatusWritten, AllEndpoints
  <2>q. QED BY <2>1, <2>2, <2>3, <2>4 DEF WritesSound
<1>2. FeedbackInv /\ [Next]_vars =>
         [\A i \in Items :
             item[i].status # "approved" /\ item'[i].status = "approved" =>
                \E r \in Requests : /\ req[r] # NoTxn /\ req'[r] = NoTxn
                                    /\ req[r].item = i
                                    /\ req[r].by \in Moderators
                                    /\ req[r].endpoint \in {"moderate", "review"}]_vars
  BY <1>1
<1>q. QED BY FeedbackInvHolds, <1>2, PTL DEF Spec, OnlyModeratorsShow

\* What enters or re-enters review has a case, however the requests of its
\* author, of moderators and of the queue interleave.
THEOREM ReviewHasCaseHolds == Spec => ReviewHasCase
<1>1. ASSUME FeedbackInv, [Next]_vars, NEW i \in Items,
             item[i].status # "pending", item'[i].status = "pending"
      PROVE  case'[i] # NoCase
  <2>1. PICK r \in Requests :
           /\ Commit(r)
           /\ req[r].item = i
           /\ "status" \in DOMAIN req[r].item_write
           /\ item'[i].status = req[r].item_write["status"]
    BY <1>1, StatusChanges
  <2>2. WritesSound(req[r]) /\ CaseProvided(req[r], case)
    BY <1>1, <2>1 DEF FeedbackInv, Commit
  <2>3. req[r].endpoint \in {"create", "update"}
    BY <1>1, <2>1, <2>2 DEF WritesSound, StatusWritten, AllEndpoints
  <2>4. i \in req[r].inserts \/ case[i] # NoCase
    BY <2>1, <2>2, <2>3 DEF CaseProvided, Commit
  <2>5. CASE i \in req[r].inserts
    <3>1. case'[i] = PendingCase
      BY <2>1, <2>5 DEF Commit
    <3>2. PendingCase.status # NoCase.status
      BY DEF PendingCase, NoCase
    <3>q. QED BY <3>1, <3>2
  <2>6. CASE case[i] # NoCase
    BY <1>1, <2>1, <2>6, CasesStay
  <2>q. QED BY <2>4, <2>5, <2>6
<1>2. FeedbackInv /\ [Next]_vars =>
         [\A i \in Items :
             item[i].status # "pending" /\ item'[i].status = "pending" =>
                case'[i] # NoCase]_vars
  BY <1>1
<1>q. QED BY FeedbackInvHolds, <1>2, PTL DEF Spec, ReviewHasCase

-----------------------------------------------------------------------------
(* The aggregate and the orders of the rows, computed *)

\* The aggregate of a Nano depends on the rows of its ratings only.
LEMMA AggregateSame ==
    ASSUME NEW n, NEW a, NEW b,
           \A i \in Ratings : NanoOf[i] = n =>
              a[i].status = b[i].status /\ a[i].content = b[i].content
    PROVE  Aggregate(n, a) = Aggregate(n, b)
<1> DEFINE S(rows) == {i \in Ratings : /\ NanoOf[i] = n
                                       /\ rows[i].status = "approved"}
           Sum(g, rows, s) == IF s = {} THEN 0
                              ELSE LET x == CHOOSE x \in s : TRUE
                                   IN  rows[x].content + g[s \ {x}]
           Total(rows, s) == MapThenSumSet(LAMBDA i : rows[i].content, s)
           Fold(rows, s) == CHOOSE g : g = [u \in SUBSET s |-> Sum(g, rows, u)]
<1>1. S(a) = S(b)
  OBVIOUS
<1>2. ASSUME NEW s, s = S(a) PROVE Total(a, s) = Total(b, s)
  <2>1. ASSUME NEW g, NEW u \in SUBSET s PROVE Sum(g, a, u) = Sum(g, b, u)
    BY <1>2
  <2>2. Total(a, s) = Fold(a, s)[s] /\ Total(b, s) = Fold(b, s)[s]
    BY DEF MapThenSumSet, MapThenFoldSet
  <2> HIDE DEF Sum, Total
  <2>3. ASSUME NEW g
        PROVE  [u \in SUBSET s |-> Sum(g, a, u)] =
               [u \in SUBSET s |-> Sum(g, b, u)]
    BY <2>1
  <2>4. Fold(a, s) = Fold(b, s)
    BY <2>3
  <2> HIDE DEF Fold
  <2>q. QED BY <2>2, <2>4
<1>3. \A rows : Aggregate(n, rows) =
        [count |-> Cardinality(S(rows)),
         average |-> IF Cardinality(S(rows)) = 0 THEN 0
                     ELSE (200 * Total(rows, S(rows)) + Cardinality(S(rows)))
                             \div (2 * Cardinality(S(rows)))]
  BY DEF Aggregate
<1> HIDE DEF S, Total
<1>4. Total(a, S(a)) = Total(b, S(b))
  BY <1>1, <1>2
<1>q. QED BY <1>1, <1>3, <1>4

LEMMA Concatenation ==
    ASSUME NEW T, NEW s \in Seq(T), NEW u \in Seq(T)
    PROVE  /\ s \o u \in Seq(T)
           /\ Len(s \o u) = Len(s) + Len(u)
           /\ \A k \in 1 .. Len(s) : (s \o u)[k] = s[k]
           /\ \A k \in 1 .. Len(u) : (s \o u)[Len(s) + k] = u[k]
  OBVIOUS

\* What each request flushes after its first row
LEMMA OrderRows ==
    ASSUME NEW t, t.endpoint \in AllEndpoints
    PROVE  LET order == Order(t)
               rating == t.item \in Ratings
           IN  /\ t.endpoint \in {"create", "update"} =>
                     /\ Len(order) = IF rating THEN 3 ELSE 2
                     /\ order[2] = IF rating THEN "cache" ELSE "case"
                     /\ rating => order[3] = "case"
               /\ t.endpoint = "moderate" =>
                     /\ Len(order) = IF rating THEN 2 ELSE 1
                     /\ rating => order[2] = "cache"
               /\ t.endpoint = "review" =>
                     IF t.decision \in {"approve", "reject"} \/ t.item \in Flags
                     THEN /\ Len(order) = IF rating THEN 3 ELSE 2
                          /\ order[2] = "item"
                          /\ rating => order[3] = "cache"
                     ELSE Len(order) = 1
               /\ t.endpoint = "queue" => Len(order) = 1
<1> DEFINE Tables == {"item", "cache", "case"}
           a == AfterItem(t)
<1>1. /\ a \in Seq(Tables)
      /\ IF t.item \in Ratings THEN Len(a) = 1 /\ a[1] = "cache" ELSE Len(a) = 0
  <2>1. /\ <<"cache">> \in Seq(Tables) /\ Len(<<"cache">>) = 1
        /\ <<"cache">>[1] = "cache"
        /\ << >> \in Seq(Tables) /\ Len(<< >>) = 0
    OBVIOUS
  <2> HIDE DEF Tables
  <2>q. QED BY <2>1 DEF AfterItem
<1>2. /\ <<"item">> \in Seq(Tables) /\ Len(<<"item">>) = 1
      /\ <<"item">>[1] = "item"
      /\ <<"case">> \in Seq(Tables) /\ Len(<<"case">>) = 1
      /\ <<"case">>[1] = "case"
      /\ <<"case", "item">> \in Seq(Tables) /\ Len(<<"case", "item">>) = 2
      /\ <<"case", "item">>[2] = "item"
  OBVIOUS
<1> HIDE DEF Tables, a
<1>3. CASE t.endpoint \in {"create", "update"}
  <2> DEFINE b == <<"item">> \o a
  <2>1. Order(t) = b \o <<"case">>
    BY <1>3 DEF Order, a
  <2>2. /\ b \in Seq(Tables)
        /\ Len(b) = IF t.item \in Ratings THEN 2 ELSE 1
        /\ t.item \in Ratings => b[2] = "cache"
    <3>1. /\ b \in Seq(Tables) /\ Len(b) = 1 + Len(a)
          /\ \A k \in 1 .. Len(a) : b[1 + k] = a[k]
      <4>1. /\ b \in Seq(Tables) /\ Len(b) = Len(<<"item">>) + Len(a)
            /\ \A k \in 1 .. Len(a) : b[Len(<<"item">>) + k] = a[k]
        BY <1>1, <1>2, Concatenation
      <4> HIDE DEF b
      <4>q. QED BY <1>2, <4>1
    <3> HIDE DEF b
    <3>q. QED BY <1>1, <3>1
  <2> HIDE DEF b
  <2>3. /\ Len(Order(t)) = Len(b) + 1
        /\ \A k \in 1 .. Len(b) : Order(t)[k] = b[k]
        /\ Order(t)[Len(b) + 1] = "case"
    BY <1>2, <2>1, <2>2, Concatenation
  <2>q. QED BY <1>3, <2>2, <2>3
<1>4. CASE t.endpoint = "review"
  <2>1. CASE t.decision \in {"approve", "reject"} \/ t.item \in Flags
    <3>1. Order(t) = <<"case", "item">> \o a
      BY <1>4, <2>1 DEF Order, a
    <3>q. QED BY <1>1, <1>2, <1>4, <2>1, <3>1, Concatenation
  <2>2. CASE ~(t.decision \in {"approve", "reject"} \/ t.item \in Flags)
    <3>1. Order(t) = <<"case">>
      BY <1>4, <2>2 DEF Order
    <3>q. QED BY <1>2, <1>4, <2>2, <3>1
  <2>q. QED BY <2>1, <2>2
<1>5. CASE t.endpoint = "moderate"
  <2>1. Order(t) = <<"item">> \o a
    BY <1>5 DEF Order, a
  <2>q. QED BY <1>1, <1>2, <1>5, <2>1, Concatenation
<1>6. CASE t.endpoint = "queue"
  <2>1. Order(t) = <<"case">>
    BY <1>6 DEF Order
  <2>q. QED BY <1>2, <1>6, <2>1
<1>q. QED BY <1>3, <1>4, <1>5, <1>6 DEF AllEndpoints

-----------------------------------------------------------------------------
(* Requests that do not overlap *)

\* One request at a time, to whatever endpoint
Undisturbed == \A q, r \in Requests : q = r

\* A request of the author leaves pending content with a pending case.
SubmissionFits(t, row, c) ==
    /\ row.status = "pending"
    /\ t.inserts \subseteq {t.item}
    /\ t.step = Len(Order(t)) => t.item \in t.inserts \/ c.status = "pending"

\* A review gives the case and, if it comes to it, the content what it
\* decided, and leaves the content that the moderator saw.
ReviewFits(t, row, c) ==
    /\ t.inserts = {}
    /\ c.status = CaseStatusOf[t.decision]
    /\ IF t.step = 1 THEN t.item_write = NoChange
       ELSE row.status = StatusDecided(t.item, t.decision)
            /\ row.content = t.seen

\* A moderation endpoint under /nanos leaves the case, and the content as the
\* moderator saw it.
ModerateFits(t, row) ==
    /\ t.inserts = {} /\ t.case_write = NoChange
    /\ row.content = t.seen

QueueFits(t, items) ==
    /\ t.step = 1
    /\ t.item \in t.inserts
    /\ t.item_write = NoChange /\ t.case_write = NoChange
    /\ \A i \in t.inserts : items[i].status = "pending"

Rows(t, items) == [items EXCEPT ![t.item] = Apply(@, t.item_write)]

\* Once the cache was read, it is about to become that of the rows.
CacheFits(t, items, caches) ==
    LET n == NanoOf[t.item]
    IN  IF /\ t.item \in Ratings
           /\ t.step >= (IF t.endpoint = "review" THEN 3 ELSE 2)
        THEN Apply(caches[n], t.cache_write) = Aggregate(n, Rows(t, items))
        ELSE /\ t.cache_write = NoChange
             /\ t.item \in Ratings
                /\ t.endpoint \in {"create", "update", "moderate"} =>
                   t.loaded = caches[n]

\* What a request is about to write suits the rows that it found.
Fits(t, items, cases, caches) ==
    LET row == Apply(items[t.item], t.item_write)
        c == Apply(cases[t.item], t.case_write)
    IN  /\ t.endpoint \in {"create", "update"} => SubmissionFits(t, row, c)
        /\ t.endpoint = "moderate" => ModerateFits(t, row)
        /\ t.endpoint = "review" => ReviewFits(t, row, c)
        /\ t.endpoint = "queue" => QueueFits(t, items)
        /\ CacheFits(t, items, caches)

RowsShaped ==
    \A i \in Items :
        item[i] = [status |-> item[i].status, content |-> item[i].content]

UndisturbedInv ==
    /\ RowsShaped
    /\ cache = [n \in Nanos |-> Aggregate(n, item)]
    /\ \A r \in Requests : req[r] # NoTxn => Fits(req[r], item, case, cache)

LEMMA UndisturbedInit == Init => UndisturbedInv
<1> SUFFICES ASSUME Init PROVE UndisturbedInv
  OBVIOUS
<1>1. ASSUME NEW i \in Items
      PROVE  item[i] = [status |-> item[i].status, content |-> item[i].content]
  <2>1. item[i] \in {AbsentItem} \cup
                     [status : FeedbackStatuses, content : Contents]
    BY DEF Init
  <2>q. QED BY <2>1 DEF AbsentItem
<1>q. QED BY <1>1 DEF Init, UndisturbedInv, RowsShaped

\* A request begins or goes on.
LEMMA FittingStep ==
    ASSUME FeedbackInv, UndisturbedInv, NEW r \in Requests, NEW t,
           req' = [req EXCEPT ![r] = t],
           UNCHANGED <<item, case, cache>>,
           Fits(t, item, case, cache)
    PROVE  UndisturbedInv'
<1>1. \A q \in Requests : req'[q] # NoTxn => Fits(req'[q], item, case, cache)
  BY DEF FeedbackInv, UndisturbedInv
<1>2. (\A q \in Requests : req[q] # NoTxn => Fits(req[q], item, case, cache))'
  BY <1>1
<1>q. QED BY <1>2 DEF UndisturbedInv, RowsShaped

LEMMA FittingEnd ==
    ASSUME FeedbackInv, UndisturbedInv, NEW r \in Requests, Rollback(r)
    PROVE  UndisturbedInv'
<1>1. \A q \in Requests : req'[q] # NoTxn => Fits(req'[q], item, case, cache)
  BY DEF FeedbackInv, UndisturbedInv, Rollback
<1>2. (\A q \in Requests : req[q] # NoTxn => Fits(req[q], item, case, cache))'
  BY <1>1 DEF Rollback
<1>q. QED BY <1>2 DEF UndisturbedInv, RowsShaped, Rollback

\* Writing the changed columns gives the new row.
LEMMA ApplyStatus ==
    ASSUME NEW old, NEW new, DOMAIN new = DOMAIN old, "status" \in DOMAIN old
    PROVE  Apply(old, Changes(old, new))["status"] = new["status"]
  BY DEF Apply, Changes

-----------------------------------------------------------------------------
(* What the requests find *)

LEMMA NewTxnRest ==
    ASSUME NEW endpoint, NEW u, NEW i
    PROVE  /\ NewTxn(endpoint, u, i).cache_write = NoChange
           /\ NewTxn(endpoint, u, i).inserts = {}
           /\ NanoTxn(endpoint, u, i).cache_write = NoChange
           /\ NanoTxn(endpoint, u, i).inserts = {}
           /\ i \in Ratings =>
                 NanoTxn(endpoint, u, i).loaded = cache[NanoOf[i]]
  BY DEF NewTxn, NanoTxn

LEMMA LoadSubmissionFits ==
    ASSUME FeedbackInv, UndisturbedInv, NEW r \in Requests, NEW u \in Users,
           NEW i \in Items, NEW c \in Contents,
           NEW endpoint \in {"create", "update"},
           Begin(r, [NanoTxn(endpoint, u, i) EXCEPT
                       !.item_write = Changes(item[i], PendingItem(c))])
    PROVE  UndisturbedInv'
<1> DEFINE base == NanoTxn(endpoint, u, i)
           t == [base EXCEPT !.item_write = Changes(item[i], PendingItem(c))]
<1>1. /\ t.endpoint = endpoint /\ t.item = i /\ t.step = 1
      /\ t.item_write = Changes(item[i], PendingItem(c))
      /\ t.case_write = NoChange /\ t.cache_write = NoChange /\ t.inserts = {}
      /\ i \in Ratings => t.loaded = cache[NanoOf[i]]
  <2> HIDE DEF base
  <2>q. QED BY NanoTxnIs, NewTxnRest DEF Fields, base
<1>2. req' = [req EXCEPT ![r] = t] /\ UNCHANGED <<item, case, cache>>
  BY DEF Begin
<1> HIDE DEF t
<1>3. /\ DOMAIN PendingItem(c) = {"status", "content"}
      /\ PendingItem(c)["status"] = "pending"
      /\ DOMAIN item[i] = {"status", "content"}
  BY DEF PendingItem, FeedbackInv
<1>4. Apply(item[i], t.item_write)["status"] = "pending"
  <2>1. Apply(item[i], Changes(item[i], PendingItem(c)))["status"] = "pending"
    BY <1>3, ApplyStatus
  <2>q. QED BY <1>1, <2>1
<1>5. SubmissionFits(t, Apply(item[i], t.item_write),
                     Apply(case[i], t.case_write))
  BY <1>1, <1>4, OrderRows DEF SubmissionFits, AllEndpoints
<1>6. CacheFits(t, item, cache)
  BY <1>1 DEF CacheFits
<1>7. Fits(t, item, case, cache)
  BY <1>1, <1>5, <1>6 DEF Fits
<1>q. QED BY <1>2, <1>7, FittingStep

LEMMA LoadReviewFits ==
    ASSUME FeedbackInv, UndisturbedInv, NEW r \in Requests, NEW u \in Users,
           NEW i \in Items, NEW d \in Decisions, LoadReview(r, u, i, d)
    PROVE  UndisturbedInv'
<1> DEFINE base == NewTxn("review", u, i)
           new == [status |-> CaseStatusOf[d]]
           t == [base EXCEPT !.decision = d,
                             !.case_write = Changes(case[i], new)]
<1>1. /\ t.endpoint = "review" /\ t.item = i /\ t.step = 1 /\ t.decision = d
      /\ t.item_write = NoChange /\ t.case_write = Changes(case[i], new)
      /\ t.cache_write = NoChange /\ t.inserts = {}
  <2> HIDE DEF base, new
  <2>q. QED BY NewTxnIs, NewTxnRest DEF Fields, base
<1>2. req' = [req EXCEPT ![r] = t] /\ UNCHANGED <<item, case, cache>>
  BY DEF LoadReview, Begin
<1>3. /\ DOMAIN new = {"status"} /\ DOMAIN case[i] = {"status"}
      /\ new["status"] = CaseStatusOf[d]
  BY DEF FeedbackInv
<1> HIDE DEF t, new
<1>4. Apply(case[i], t.case_write)["status"] = CaseStatusOf[d]
  <2>1. Apply(case[i], Changes(case[i], new))["status"] = new["status"]
    BY <1>3, ApplyStatus
  <2>q. QED BY <1>1, <1>3, <2>1
<1>5. CacheFits(t, item, cache)
  BY <1>1 DEF CacheFits
<1>6. Fits(t, item, case, cache)
  BY <1>1, <1>4, <1>5 DEF Fits, ReviewFits
<1>q. QED BY <1>2, <1>6, FittingStep

LEMMA LoadQueueFits ==
    ASSUME FeedbackInv, UndisturbedInv, NEW r \in Requests, NEW u \in Users,
           LoadQueue(r, u)
    PROVE  UndisturbedInv'
<1> DEFINE missing == {i \in Ratings \cup Comments :
                          item[i].status = "pending" /\ case[i] = NoCase}
           base == NewTxn("queue", u, CHOOSE i \in missing : TRUE)
           t == [base EXCEPT !.inserts = missing]
<1>0. (CHOOSE i \in missing : TRUE) \in missing
  BY DEF LoadQueue
<1>1. /\ t.endpoint = "queue" /\ t.step = 1 /\ t.item_write = NoChange
      /\ t.case_write = NoChange /\ t.cache_write = NoChange
      /\ t.inserts = missing /\ t.item \in missing
  <2> HIDE DEF base, missing
  <2>q. QED BY <1>0, NewTxnIs, NewTxnRest DEF Fields, base
<1>2. req' = [req EXCEPT ![r] = t] /\ UNCHANGED <<item, case, cache>>
  BY DEF LoadQueue, Begin
<1>3. \A i \in missing : item[i].status = "pending"
  OBVIOUS
<1> HIDE DEF t, missing
<1>4. CacheFits(t, item, cache)
  BY <1>1 DEF CacheFits
<1>5. Fits(t, item, case, cache)
  BY <1>1, <1>3, <1>4 DEF Fits, QueueFits
<1>q. QED BY <1>2, <1>5, FittingStep

LEMMA LoadModerateFits ==
    ASSUME FeedbackInv, UndisturbedInv, NEW r \in Requests, NEW u \in Users,
           NEW i \in Items, NEW status \in {"approved", "hidden"},
           LoadModerate(r, u, i, status)
    PROVE  UndisturbedInv'
<1> DEFINE base == NanoTxn("moderate", u, i)
           row == [item[i] EXCEPT !.status = status]
           t == [base EXCEPT !.seen = item[i].content,
                             !.item_write = Changes(item[i], row)]
<1>1. /\ t.endpoint = "moderate" /\ t.item = i /\ t.step = 1
      /\ t.item_write = Changes(item[i], row) /\ t.seen = item[i]["content"]
      /\ t.case_write = NoChange /\ t.cache_write = NoChange /\ t.inserts = {}
      /\ i \in Ratings => t.loaded = cache[NanoOf[i]]
  <2> HIDE DEF base, row
  <2>q. QED BY NanoTxnIs, NewTxnRest DEF Fields, base
<1>2. req' = [req EXCEPT ![r] = t] /\ UNCHANGED <<item, case, cache>>
  BY DEF LoadModerate, Begin
<1>3. /\ DOMAIN item[i] = {"status", "content"}
      /\ row["content"] = item[i]["content"]
  BY DEF FeedbackInv
<1> HIDE DEF t, row
<1>4. Apply(item[i], t.item_write)["content"] = t.seen
  BY <1>1, <1>3 DEF Apply, Changes
<1>5. CacheFits(t, item, cache)
  BY <1>1 DEF CacheFits
<1>6. Fits(t, item, case, cache)
  BY <1>1, <1>4, <1>5 DEF Fits, ModerateFits
<1>q. QED BY <1>2, <1>6, FittingStep

LEMMA LoadFits ==
    ASSUME FeedbackInv, UndisturbedInv, NEW r \in Requests, Load(r)
    PROVE  UndisturbedInv'
<1>1. ASSUME NEW u \in Users, NEW i \in Items, NEW c \in Contents,
             LoadCreate(r, u, i, c)
      PROVE  UndisturbedInv'
  BY <1>1, LoadSubmissionFits DEF LoadCreate, Exists
<1>2. ASSUME NEW u \in Users, NEW i \in Items, NEW c \in Contents,
             LoadUpdate(r, u, i, c)
      PROVE  UndisturbedInv'
  BY <1>2, LoadSubmissionFits DEF LoadUpdate
<1>q. QED BY <1>1, <1>2, LoadModerateFits, LoadReviewFits, LoadQueueFits DEF Load

-----------------------------------------------------------------------------
(* What they read on the way *)

\* An aggregate is a row of two columns, and so is what is written over it.
LEMMA AggregateIs ==
    ASSUME NEW n, NEW rows
    PROVE  \E x, y : Aggregate(n, rows) = [count |-> x, average |-> y]
<1> DEFINE approved == {i \in Ratings : /\ NanoOf[i] = n
                                        /\ rows[i].status = "approved"}
           count == Cardinality(approved)
           total == MapThenSumSet(LAMBDA i : rows[i].content, approved)
           average == IF count = 0 THEN 0
                      ELSE (200 * total + count) \div (2 * count)
<1>1. Aggregate(n, rows) = [count |-> count, average |-> average]
  BY DEF Aggregate
<1> HIDE DEF count, average
<1>q. QED BY <1>1

LEMMA ApplyPair ==
    ASSUME NEW a, NEW b, NEW x, NEW y
    PROVE  LET old == [count |-> a, average |-> b]
               new == [count |-> x, average |-> y]
           IN  /\ Apply(old, Changes(old, new)) = new
               /\ Apply(old, NoChange) = old
  BY DEF Apply, Changes, NoChange

LEMMA ApplyAggregate ==
    ASSUME NEW n, NEW a, NEW b
    PROVE  LET old == Aggregate(n, a)
               new == Aggregate(n, b)
           IN  /\ Apply(old, Changes(old, new)) = new
               /\ Apply(old, NoChange) = old
<1>1. PICK x, y : Aggregate(n, a) = [count |-> x, average |-> y]
  BY AggregateIs
<1>2. PICK u, v : Aggregate(n, b) = [count |-> u, average |-> v]
  BY AggregateIs
<1>q. QED BY <1>1, <1>2, ApplyPair

\* What a request knows when it comes to its next row
LEMMA RequestFits ==
    ASSUME FeedbackInv, UndisturbedInv, NEW r \in Requests, req[r] # NoTxn
    PROVE  LET t == req[r] IN
           /\ DOMAIN t = Fields /\ t.item \in Items /\ NanoOf[t.item] \in Nanos
           /\ t.step \in Nat \ {0}
           /\ t.endpoint \in AllEndpoints
           /\ t.endpoint = "review" => t.decision \in Decisions
           /\ Fits(t, item, case, cache)
           /\ cache[NanoOf[t.item]] = Aggregate(NanoOf[t.item], item)
<1> DEFINE t == req[r]
<1>1. WritesSound(t) /\ Fits(t, item, case, cache)
  BY DEF FeedbackInv, UndisturbedInv
<1>2. /\ DOMAIN t = Fields /\ t.item \in Items /\ t.step \in Nat \ {0}
      /\ t.endpoint \in AllEndpoints
      /\ t.endpoint = "review" => t.decision \in Decisions
  BY <1>1 DEF WritesSound
<1>3. NanoOf[t.item] \in Nanos
  BY <1>2, ItemsAssumption
<1>q. QED BY <1>1, <1>2, <1>3 DEF Fits, AllEndpoints, UndisturbedInv

LEMMA ReadItemFits ==
    ASSUME FeedbackInv, UndisturbedInv, NEW t, DOMAIN t = Fields,
           t.endpoint = "review", t.step = 2, t.item \in Items,
           t.inserts = {}, t.cache_write = NoChange,
           Apply(case[t.item], t.case_write).status = CaseStatusOf[t.decision]
    PROVE  Fits(ReadItem(t), item, case, cache)
<1> DEFINE new == ReadItem(t)
           row == [item[t.item] EXCEPT
                     !.status = StatusDecided(t.item, t.decision)]
<1>1. /\ DOMAIN item[t.item] = {"status", "content"}
      /\ DOMAIN row = {"status", "content"}
      /\ row["status"] = StatusDecided(t.item, t.decision)
      /\ row["content"] = item[t.item]["content"]
  BY DEF FeedbackInv
<1>2. /\ new.endpoint = "review" /\ new.step = 2 /\ new.item = t.item
      /\ new.decision = t.decision /\ new.inserts = {}
      /\ new.case_write = t.case_write /\ new.cache_write = NoChange
      /\ new.seen = item[t.item]["content"]
      /\ new.item_write = Changes(item[t.item], row)
  <2> HIDE DEF row
  <2>q. QED BY DEF ReadItem, Fields, row
<1> HIDE DEF new, row
<1>3. /\ Apply(item[t.item], new.item_write)["status"] = row["status"]
      /\ Apply(item[t.item], new.item_write)["content"] = row["content"]
  <2>1. LET written == Apply(item[t.item], Changes(item[t.item], row))
        IN  /\ written["status"] = row["status"]
            /\ written["content"] = row["content"]
    BY <1>1 DEF Apply, Changes
  <2>q. QED BY <1>2, <2>1
<1>4. ReviewFits(new, Apply(item[new.item], new.item_write),
                 Apply(case[new.item], new.case_write))
  BY <1>1, <1>2, <1>3 DEF ReviewFits
<1>5. CacheFits(new, item, cache)
  BY <1>2 DEF CacheFits
<1>q. QED BY <1>2, <1>4, <1>5 DEF Fits, new

\* The Nano's cache as it was loaded is the one that is written.
LEMMA ReadCacheFits ==
    ASSUME FeedbackInv, UndisturbedInv, NEW t, DOMAIN t = Fields,
           t.endpoint # "review" => t.loaded = cache[NanoOf[t.item]],
           NanoOf[t.item] \in Nanos
    PROVE  LET new == ReadCache(t)
               n == NanoOf[t.item] IN
           /\ DOMAIN new = Fields
           /\ new.endpoint = t.endpoint /\ new.step = t.step
           /\ new.item = t.item /\ new.decision = t.decision
           /\ new.inserts = t.inserts /\ new.seen = t.seen
           /\ new.case_write = t.case_write /\ new.item_write = t.item_write
           /\ Apply(cache[n], new.cache_write) = Aggregate(n, Rows(new, item))
<1> DEFINE n == NanoOf[t.item]
           rows == [item EXCEPT ![t.item] = Apply(@, t.item_write)]
           new == ReadCache(t)
<1>1. cache[n] = Aggregate(n, item)
  BY DEF UndisturbedInv
<1>2. new = [t EXCEPT !.loaded = EmptyCache,
                      !.cache_write = Changes(cache[n], Aggregate(n, rows))]
  BY DEF ReadCache
<1> HIDE DEF new, rows
<1>3. /\ DOMAIN new = Fields
      /\ new.endpoint = t.endpoint /\ new.step = t.step
      /\ new.item = t.item /\ new.decision = t.decision
      /\ new.inserts = t.inserts /\ new.seen = t.seen
      /\ new.case_write = t.case_write /\ new.item_write = t.item_write
      /\ new.cache_write = Changes(cache[n], Aggregate(n, rows))
  BY <1>2 DEF Fields
<1>4. Rows(new, item) = rows
  BY <1>3 DEF Rows, rows
<1>5. Apply(cache[n], new.cache_write) = Aggregate(n, rows)
  BY <1>1, <1>3, ApplyAggregate
<1>q. QED BY <1>3, <1>4, <1>5 DEF new

LEMMA ReadCaseFits ==
    ASSUME FeedbackInv, UndisturbedInv, NEW t, DOMAIN t = Fields,
           t.endpoint \in {"create", "update"}, t.item \in Items,
           Apply(item[t.item], t.item_write).status = "pending",
           CacheFits(t, item, cache)
    PROVE  Fits(ReadCase(t), item, case, cache)
<1> DEFINE new == ReadCase(t)
<1>1. /\ new.endpoint = t.endpoint /\ new.step = t.step /\ new.item = t.item
      /\ new.item_write = t.item_write /\ new.cache_write = t.cache_write
      /\ new.loaded = t.loaded
      /\ new.case_write = Changes(case[t.item], PendingCase)
      /\ new.inserts = IF case[t.item] = NoCase THEN {t.item} ELSE {}
  BY DEF ReadCase, Fields
<1>2. /\ DOMAIN case[t.item] = {"status"} /\ DOMAIN PendingCase = {"status"}
      /\ PendingCase["status"] = "pending"
  BY DEF FeedbackInv, PendingCase
<1> HIDE DEF new
<1>3. Apply(case[t.item], new.case_write)["status"] = "pending"
  <2>1. Apply(case[t.item], Changes(case[t.item], PendingCase))["status"] = "pending"
    BY <1>2, ApplyStatus
  <2>q. QED BY <1>1, <2>1
<1>4. SubmissionFits(new, Apply(item[new.item], new.item_write),
                     Apply(case[new.item], new.case_write))
  BY <1>1, <1>3 DEF SubmissionFits
<1>5. CacheFits(new, item, cache)
  BY <1>1 DEF CacheFits, Rows
<1>q. QED BY <1>1, <1>4, <1>5 DEF Fits, new

LEMMA FlushFits ==
    ASSUME FeedbackInv, UndisturbedInv, NEW r \in Requests, Flush(r)
    PROVE  UndisturbedInv'
<1> DEFINE old == req[r]
           t == [old EXCEPT !.step = @ + 1]
           row == Apply(item[t.item], t.item_write)
           c == Apply(case[t.item], t.case_write)
<1>1. /\ req[r] # NoTxn /\ old.step < Len(Order(old))
      /\ UNCHANGED <<item, case, cache>>
      /\ req' = [req EXCEPT ![r] = CASE NextTable(t) = "item" -> ReadItem(t)
                                     [] NextTable(t) = "cache" -> ReadCache(t)
                                     [] NextTable(t) = "case" -> ReadCase(t)]
  BY DEF Flush
<1>2. /\ DOMAIN old = Fields /\ old.item \in Items /\ NanoOf[old.item] \in Nanos
      /\ old.step \in Nat \ {0}
      /\ old.endpoint \in AllEndpoints
      /\ Fits(old, item, case, cache)
  BY <1>1, RequestFits
<1>3. /\ DOMAIN t = Fields /\ t.step = old.step + 1
      /\ t.endpoint = old.endpoint /\ t.item = old.item
      /\ t.decision = old.decision /\ t.inserts = old.inserts
      /\ t.seen = old.seen /\ t.loaded = old.loaded
      /\ t.item_write = old.item_write /\ t.case_write = old.case_write
      /\ t.cache_write = old.cache_write
  BY <1>2 DEF Fields
<1> HIDE DEF t, old
<1>4. Order(t) = Order(old)
  BY <1>3 DEF Order, AfterItem
<1>5. ASSUME NEW new, Fits(new, item, case, cache),
             req' = [req EXCEPT ![r] = new]
      PROVE  UndisturbedInv'
  BY <1>1, <1>5, FittingStep
<1>6. CASE t.endpoint \in {"create", "update"}
  <2>1. row.status = "pending" /\ t.inserts \subseteq {t.item}
    BY <1>2, <1>3, <1>6 DEF Fits, SubmissionFits
  <2>2. CASE t.item \in Ratings /\ t.step = 2
    <3> DEFINE new == ReadCache(t)
    <3>1. NextTable(t) = "cache" /\ Len(Order(t)) = 3
      BY <1>6, <2>2, OrderRows DEF NextTable, AllEndpoints
    <3>2. t.loaded = cache[NanoOf[t.item]]
      BY <1>2, <1>3, <1>6, <2>2 DEF Fits, CacheFits
    <3>3. /\ new.endpoint = t.endpoint /\ new.step = t.step
          /\ new.item = t.item /\ new.decision = t.decision
          /\ new.inserts = t.inserts
          /\ new.case_write = t.case_write /\ new.item_write = t.item_write
          /\ Apply(cache[NanoOf[t.item]], new.cache_write) =
                Aggregate(NanoOf[t.item], Rows(new, item))
      BY <1>2, <1>3, <3>2, ReadCacheFits
    <3> HIDE DEF new
    <3>4. Len(Order(new)) = 3
      BY <1>6, <2>2, <3>3, OrderRows DEF AllEndpoints
    <3>5. CacheFits(new, item, cache)
      BY <1>6, <2>2, <3>3 DEF CacheFits
    <3>6. Fits(new, item, case, cache)
      BY <1>6, <2>1, <2>2, <3>3, <3>4, <3>5 DEF Fits, SubmissionFits
    <3>7. req' = [req EXCEPT ![r] = new]
      BY <1>1, <3>1 DEF new
    <3>q. QED BY <1>5, <3>6, <3>7
  <2>3. CASE ~(t.item \in Ratings /\ t.step = 2)
    <3>1. /\ NextTable(t) = "case"
          /\ IF t.item \in Ratings THEN t.step = 3 ELSE t.step = 2
      <4>1. t.step > 1 /\ t.step <= Len(Order(t)) /\ t.step \in Nat
        <5>1. Len(Order(t)) \in Nat
          BY <1>6, OrderRows DEF AllEndpoints
        <5>q. QED BY <1>1, <1>2, <1>3, <1>4, <5>1
      <4>2. CASE t.item \in Ratings
        <5>1. Len(Order(t)) = 3 /\ Order(t)[3] = "case"
          BY <1>6, <4>2, OrderRows DEF AllEndpoints
        <5>2. t.step = 3
          BY <2>3, <4>1, <4>2, <5>1
        <5>q. QED BY <4>2, <5>1, <5>2 DEF NextTable
      <4>3. CASE t.item \notin Ratings
        <5>1. Len(Order(t)) = 2 /\ Order(t)[2] = "case"
          BY <1>6, <4>3, OrderRows DEF AllEndpoints
        <5>2. t.step = 2
          BY <4>1, <5>1
        <5>q. QED BY <4>3, <5>1, <5>2 DEF NextTable
      <4>q. QED BY <4>2, <4>3
    <3>2. CacheFits(t, item, cache)
      BY <1>2, <1>3, <1>6, <3>1 DEF Fits, CacheFits, Rows
    <3>3. Fits(ReadCase(t), item, case, cache)
      BY <1>2, <1>3, <1>6, <2>1, <3>2, ReadCaseFits
    <3>4. req' = [req EXCEPT ![r] = ReadCase(t)]
      BY <1>1, <3>1
    <3>q. QED BY <1>5, <3>3, <3>4
  <2>q. QED BY <2>2, <2>3
<1>7. CASE t.endpoint = "review"
  <2>1. /\ t.inserts = {} /\ c.status = CaseStatusOf[t.decision]
        /\ old.step # 1 => row.status = StatusDecided(t.item, t.decision)
                           /\ row.content = t.seen
    BY <1>2, <1>3, <1>7 DEF Fits, ReviewFits
  <2>2. CASE t.step = 2
    <3>1. NextTable(t) = "item"
      BY <1>1, <1>2, <1>3, <1>4, <1>7, <2>2, OrderRows DEF NextTable, AllEndpoints
    <3>2. t.cache_write = NoChange
      BY <1>2, <1>3, <1>7, <2>2 DEF Fits, CacheFits
    <3>3. Fits(ReadItem(t), item, case, cache)
      BY <1>2, <1>3, <1>7, <2>1, <2>2, <3>2, ReadItemFits
    <3>4. req' = [req EXCEPT ![r] = ReadItem(t)]
      BY <1>1, <3>1
    <3>q. QED BY <1>5, <3>3, <3>4
  <2>3. CASE t.step # 2
    <3> DEFINE new == ReadCache(t)
    <3>1. t.step = 3 /\ t.item \in Ratings /\ NextTable(t) = "cache"
      <4>1. /\ Len(Order(t)) = 1
               \/ Len(Order(t)) = IF t.item \in Ratings THEN 3 ELSE 2
            /\ t.item \in Ratings /\ Len(Order(t)) = 3 => Order(t)[3] = "cache"
        BY <1>7, OrderRows DEF AllEndpoints
      <4>2. t.step \in 2 .. Len(Order(t))
        BY <1>1, <1>2, <1>3, <1>4, <4>1
      <4>3. t.item \in Ratings /\ Len(Order(t)) = 3
        <5> HIDE DEF t
        <5>1. CASE Len(Order(t)) = 1
          BY <4>2, <5>1
        <5>2. CASE Len(Order(t)) = IF t.item \in Ratings THEN 3 ELSE 2
          BY <2>3, <4>2, <5>2
        <5>q. QED BY <4>1, <5>1, <5>2
      <4>4. t.step = 3
        BY <2>3, <4>2, <4>3
      <4>q. QED BY <4>1, <4>3, <4>4 DEF NextTable
    <3>2. /\ new.endpoint = t.endpoint /\ new.step = t.step
          /\ new.item = t.item /\ new.decision = t.decision
          /\ new.inserts = t.inserts /\ new.seen = t.seen
          /\ new.case_write = t.case_write /\ new.item_write = t.item_write
          /\ Apply(cache[NanoOf[t.item]], new.cache_write) =
                Aggregate(NanoOf[t.item], Rows(new, item))
      BY <1>2, <1>3, <1>7, ReadCacheFits
    <3> HIDE DEF new
    <3>3. CacheFits(new, item, cache)
      BY <1>7, <3>1, <3>2 DEF CacheFits
    <3>4. Fits(new, item, case, cache)
      BY <1>2, <1>3, <1>7, <2>1, <3>1, <3>2, <3>3 DEF Fits, ReviewFits
    <3>5. req' = [req EXCEPT ![r] = new]
      BY <1>1, <3>1 DEF new
    <3>q. QED BY <1>5, <3>4, <3>5
  <2>q. QED BY <2>2, <2>3
<1>8. CASE t.endpoint = "queue"
  BY <1>1, <1>2, <1>3, <1>8 DEF Fits, QueueFits, Order
<1>9. CASE t.endpoint = "moderate"
  <2> DEFINE new == ReadCache(t)
  <2>1. t.step = 2 /\ t.item \in Ratings /\ NextTable(t) = "cache"
    <3>1. /\ Len(Order(t)) = IF t.item \in Ratings THEN 2 ELSE 1
          /\ t.item \in Ratings => Order(t)[2] = "cache"
      BY <1>9, OrderRows DEF AllEndpoints
    <3>2. t.step \in 2 .. Len(Order(t))
      BY <1>1, <1>2, <1>3, <1>4, <3>1
    <3>q. QED BY <3>1, <3>2 DEF NextTable
  <2>2. /\ ModerateFits(t, row)
        /\ t.loaded = cache[NanoOf[t.item]]
    BY <1>2, <1>3, <1>9, <2>1 DEF Fits, CacheFits, ModerateFits
  <2>3. /\ new.endpoint = t.endpoint /\ new.step = t.step
        /\ new.item = t.item /\ new.inserts = t.inserts
        /\ new.seen = t.seen
        /\ new.case_write = t.case_write /\ new.item_write = t.item_write
        /\ Apply(cache[NanoOf[t.item]], new.cache_write) =
              Aggregate(NanoOf[t.item], Rows(new, item))
    BY <1>2, <1>3, <2>2, ReadCacheFits
  <2> HIDE DEF new
  <2>4. CacheFits(new, item, cache)
    BY <1>9, <2>1, <2>3 DEF CacheFits
  <2>5. Fits(new, item, case, cache)
    BY <1>9, <2>2, <2>3, <2>4 DEF Fits, ModerateFits
  <2>6. req' = [req EXCEPT ![r] = new]
    BY <1>1, <2>1 DEF new
  <2>q. QED BY <1>5, <2>5, <2>6
<1>q. QED BY <1>2, <1>3, <1>6, <1>7, <1>8, <1>9 DEF AllEndpoints

-----------------------------------------------------------------------------
(* What they leave *)

LEMMA CommitIs ==
    ASSUME FeedbackInv, UndisturbedInv, NEW r \in Requests, Commit(r)
    PROVE  LET t == req[r]
               new == Apply(item[t.item], t.item_write) IN
           /\ t.step = Len(Order(t))
           /\ item' = Rows(t, item)
           /\ \A i \in Items : item'[i] = IF i = t.item THEN new ELSE item[i]
           /\ DOMAIN new = {"status", "content"}
           /\ cache' = [cache EXCEPT ![NanoOf[t.item]] = Apply(@, t.cache_write)]
           /\ \A i \in Items :
                 case'[i] = IF i \in t.inserts THEN PendingCase
                            ELSE IF i = t.item THEN Apply(case[i], t.case_write)
                            ELSE case[i]
<1>1. req[r].item \in Items
  BY RequestFits DEF Commit
<1>2. DOMAIN Apply(item[req[r].item], req[r].item_write) = {"status", "content"}
  BY <1>1 DEF Apply, FeedbackInv
<1>q. QED BY <1>1, <1>2 DEF Commit, Rows, FeedbackInv

\* A request that comes to its last row has been at those before.
LEMMA LastRow ==
    ASSUME FeedbackInv, UndisturbedInv, NEW r \in Requests, req[r] # NoTxn,
           req[r].step = Len(Order(req[r]))
    PROVE  LET t == req[r] IN
           /\ t.endpoint \in {"create", "update"} /\ t.item \in Ratings =>
                 t.step = 3
           /\ t.endpoint = "moderate" /\ t.item \in Ratings => t.step = 2
           /\ t.endpoint = "review" =>
                 IF t.step = 1
                 THEN t.decision \notin {"approve", "reject"}
                 ELSE t.item \in Ratings => t.step = 3
<1> DEFINE t == req[r]
<1>1. t.endpoint \in AllEndpoints
  BY RequestFits
<1> HIDE DEF t
<1>2. CASE t.endpoint \in {"create", "update"}
  BY <1>2, OrderRows DEF t, AllEndpoints
<1>3. CASE t.endpoint = "review"
  <2>1. CASE t.decision \in {"approve", "reject"} \/ t.item \in Flags
    <3>1. Len(Order(t)) = IF t.item \in Ratings THEN 3 ELSE 2
      BY <1>3, <2>1, OrderRows DEF AllEndpoints
    <3>q. QED BY <1>3, <3>1 DEF t
  <2>2. CASE ~(t.decision \in {"approve", "reject"} \/ t.item \in Flags)
    <3>1. Len(Order(t)) = 1
      BY <1>3, <2>2, OrderRows DEF AllEndpoints
    <3>q. QED BY <1>3, <2>2, <3>1 DEF t
  <2>q. QED BY <2>1, <2>2
<1>4. CASE t.endpoint = "moderate"
  BY <1>4, OrderRows DEF t, AllEndpoints
<1>q. QED BY <1>1, <1>2, <1>3, <1>4 DEF t

LEMMA CommitShapes ==
    ASSUME FeedbackInv, UndisturbedInv, NEW r \in Requests, Commit(r)
    PROVE  RowsShaped'
<1> DEFINE t == req[r]
           row == Apply(item[t.item], t.item_write)
<1>1. /\ \A i \in Items : item'[i] = IF i = t.item THEN row ELSE item[i]
      /\ t.item \in Items
  BY CommitIs, RequestFits DEF Commit
<1>2. row = [status |-> row.status, content |-> row.content]
  <2>1. row = [x \in {"status", "content"} |-> row[x]]
    BY <1>1 DEF Apply, FeedbackInv
  <2> HIDE DEF row
  <2>q. QED BY <2>1
<1> HIDE DEF row, t
<1>q. QED BY <1>1, <1>2 DEF UndisturbedInv, RowsShaped

\* Every other request leaves what it changes in agreement.
LEMMA CommitAgrees ==
    ASSUME FeedbackInv, UndisturbedInv, NEW r \in Requests, Commit(r),
           NEW i \in Items, item'[i] # item[i] \/ case'[i] # case[i],
           ~(req[r].endpoint = "moderate" /\ req[r].item = i)
    PROVE  /\ OpenCaseAgrees(i, item'[i], case'[i])
           /\ DecidedCaseAgrees(i, item'[i], case'[i])
<1> DEFINE t == req[r]
           row == Apply(item[t.item], t.item_write)
           c == Apply(case[t.item], t.case_write)
<1>1. /\ t.item \in Items
      /\ t.endpoint \in AllEndpoints
      /\ t.endpoint = "review" => t.decision \in Decisions
      /\ Fits(t, item, case, cache) /\ t.step \in Nat \ {0}
  BY RequestFits DEF Commit
<1>2. /\ t.step = Len(Order(t))
      /\ item'[i] = IF i = t.item THEN row ELSE item[i]
      /\ case'[i] = IF i \in t.inserts THEN PendingCase
                    ELSE IF i = t.item THEN c ELSE case[i]
  BY CommitIs
<1>3. i = t.item \/ i \in t.inserts
  BY <1>2
<1>4. PendingCase.status = "pending"
  BY DEF PendingCase
<1>5. CASE t.endpoint \in {"create", "update"}
  <2>1. /\ row.status = "pending" /\ t.inserts \subseteq {t.item}
        /\ t.item \in t.inserts \/ c.status = "pending"
    BY <1>1, <1>2, <1>5 DEF Fits, SubmissionFits
  <2> HIDE DEF t, row, c
  <2>q. QED BY <1>2, <1>3, <1>4, <2>1 DEF OpenCaseAgrees, DecidedCaseAgrees
<1>6. CASE t.endpoint = "review"
  <2>1. /\ t.inserts = {} /\ c.status = CaseStatusOf[t.decision]
        /\ t.step # 1 => row.status = StatusDecided(t.item, t.decision)
    BY <1>1, <1>6 DEF Fits, ReviewFits
  <2>2. t.step = 1 => t.decision \notin {"approve", "reject"}
    BY <1>2, <1>6, LastRow DEF Commit
  <2>3. /\ c.status # "pending"
        /\ c.status = "approved" => t.decision = "approve"
        /\ c.status = "rejected" => t.decision = "reject"
    BY <1>1, <1>6, <2>1 DEF CaseStatusOf, Decisions
  <2> HIDE DEF t, row, c
  <2>q. QED BY <1>2, <1>3, <2>1, <2>2, <2>3
        DEF OpenCaseAgrees, DecidedCaseAgrees
<1>7. CASE t.endpoint = "queue"
  <2>1. /\ t.item_write = NoChange /\ i \in t.inserts
        /\ item[i].status = "pending"
    BY <1>1, <1>3, <1>7 DEF Fits, QueueFits
  <2>2. row["status"] = item[t.item]["status"]
    BY <1>1, <2>1, NoChangeIs DEF Apply, FeedbackInv
  <2>3. item'[i]["status"] = "pending" /\ case'[i] = PendingCase
    <3> HIDE DEF t, row, c
    <3>q. QED BY <1>2, <2>1, <2>2
  <2>q. QED BY <1>4, <2>3 DEF OpenCaseAgrees, DecidedCaseAgrees
<1>8. CASE t.endpoint = "moderate"
  <2>1. t.inserts = {}
    BY <1>1, <1>8 DEF Fits, ModerateFits
  <2>q. QED BY <1>3, <1>8, <2>1
<1>q. QED BY <1>1, <1>5, <1>6, <1>7, <1>8 DEF AllEndpoints

\* The cache of the request's Nano was read after its row was written, and
\* the others have no part in it.
LEMMA CommitCaches ==
    ASSUME FeedbackInv, UndisturbedInv, NEW r \in Requests, Commit(r)
    PROVE  cache' = [n \in Nanos |-> Aggregate(n, item')]
<1> DEFINE t == req[r]
           n == NanoOf[t.item]
           w == Apply(cache[n], t.cache_write)
<1>1. /\ t.item \in Items /\ n \in Nanos /\ t.step \in Nat \ {0}
      /\ t.endpoint \in AllEndpoints
      /\ Fits(t, item, case, cache) /\ cache[n] = Aggregate(n, item)
  BY RequestFits DEF Commit
<1>2. /\ t.step = Len(Order(t))
      /\ item' = Rows(t, item)
      /\ \A i \in Items : item'[i] = IF i = t.item
                                     THEN Apply(item[i], t.item_write)
                                     ELSE item[i]
      /\ cache' = [cache EXCEPT ![n] = w]
  BY CommitIs
<1>3. \A m \in Nanos : cache[m] = Aggregate(m, item)
  BY DEF UndisturbedInv
<1>4. ASSUME NEW m \in Nanos, m # n PROVE Aggregate(m, item) = Aggregate(m, item')
  <2>1. \A i \in Ratings : NanoOf[i] = m => item[i] = item'[i]
    BY <1>2, <1>4 DEF Items
  <2>q. QED BY <2>1, AggregateSame
<1>5. w = Aggregate(n, item')
  <2>1. CASE t.cache_write = NoChange /\ ~(t.item \in Ratings /\
                 t.step >= (IF t.endpoint = "review" THEN 3 ELSE 2))
    <3>1. t.item \notin Ratings \/ t.item_write = NoChange
      <4>1. CASE t.endpoint \in {"create", "update"}
        BY <1>2, <2>1, <4>1, LastRow DEF Commit
      <4>2. CASE t.endpoint = "review"
        <5>1. CASE t.step = 1
          BY <1>1, <4>2, <5>1 DEF Fits, ReviewFits
        <5>2. CASE t.step # 1
          <6>1. t.item \in Ratings => t.step = 3
            BY <1>2, <4>2, <5>2, LastRow DEF Commit
          <6>q. QED BY <2>1, <4>2, <6>1
        <5>q. QED BY <5>1, <5>2
      <4>3. CASE t.endpoint = "queue"
        BY <1>1, <4>3 DEF Fits, QueueFits
      <4>4. CASE t.endpoint = "moderate"
        BY <1>2, <2>1, <4>4, LastRow DEF Commit
      <4>q. QED BY <1>1, <4>1, <4>2, <4>3, <4>4 DEF AllEndpoints
    <3>2. \A i \in Ratings : /\ item[i]["status"] = item'[i]["status"]
                             /\ item[i]["content"] = item'[i]["content"]
      <4>1. ASSUME NEW i \in Ratings, i = t.item
            PROVE  /\ item[i]["status"] = item'[i]["status"]
                   /\ item[i]["content"] = item'[i]["content"]
        BY <1>2, <3>1, <4>1, NoChangeIs DEF Items, FeedbackInv, Apply
      <4>q. QED BY <1>2, <4>1 DEF Items
    <3>3. Aggregate(n, item) = Aggregate(n, item')
      BY <3>2, AggregateSame
    <3>4. w = Aggregate(n, item)
      BY <1>1, <2>1, ApplyAggregate
    <3>q. QED BY <3>3, <3>4
  <2>2. CASE t.item \in Ratings /\
                 t.step >= (IF t.endpoint = "review" THEN 3 ELSE 2)
    BY <1>1, <1>2, <2>2 DEF Fits, CacheFits
  <2>q. QED BY <1>1, <2>1, <2>2 DEF Fits, CacheFits
<1> HIDE DEF w, n, t
<1>6. \A m \in Nanos : cache'[m] = Aggregate(m, item')
  BY <1>2, <1>3, <1>4, <1>5 DEF UndisturbedInv
<1>7. cache' = [m \in Nanos |-> cache'[m]]
  BY <1>2 DEF UndisturbedInv
<1>q. QED BY <1>6, <1>7

LEMMA CommitFits ==
    ASSUME FeedbackInv, UndisturbedInv, Undisturbed,
           NEW r \in Requests, Commit(r)
    PROVE  UndisturbedInv'
<1>1. \A q \in Requests : req'[q] = NoTxn
  BY DEF Undisturbed, Commit, FeedbackInv
<1>2. (\A q \in Requests : req[q] # NoTxn => Fits(req[q], item, case, cache))'
  BY <1>1
<1>q. QED BY <1>2, CommitShapes, CommitCaches DEF UndisturbedInv

LEMMA UndisturbedStep ==
    ASSUME FeedbackInv, UndisturbedInv, Undisturbed, [Next]_vars
    PROVE  UndisturbedInv'
<1>1. ASSUME NEW r \in Requests, Load(r) \/ Flush(r) \/ Commit(r)
      PROVE  UndisturbedInv'
  BY <1>1, LoadFits, FlushFits, CommitFits
<1>2. ASSUME NEW r \in Requests,
             RefuseDuplicate(r) \/ DeadlockVictim(r) \/ Crash(r)
      PROVE  UndisturbedInv'
  BY <1>2, FittingEnd DEF RefuseDuplicate, DeadlockVictim, Crash
<1>3. CASE UNCHANGED vars \/ \E n \in Nanos : ChangeVisibility(n)
  <2>1. UNCHANGED <<item, case, cache, req>>
    BY <1>3 DEF vars, ChangeVisibility
  <2>2. (\A q \in Requests : req[q] # NoTxn => Fits(req[q], item, case, cache))'
    BY <2>1 DEF UndisturbedInv
  <2>q. QED BY <2>1, <2>2 DEF UndisturbedInv, RowsShaped
<1>q. QED BY <1>1, <1>2, <1>3 DEF Next, Proceed

LEMMA UndisturbedInvHolds ==
    ASSUME Undisturbed PROVE Spec => [](FeedbackInv /\ UndisturbedInv)
<1>1. FeedbackInv /\ UndisturbedInv /\ [Next]_vars => UndisturbedInv'
  BY UndisturbedStep
<1>q. QED BY <1>1, UndisturbedInit, FeedbackInvHolds, PTL DEF Spec

-----------------------------------------------------------------------------
(* The promises kept when requests do not overlap *)

\* While one request is handled at a time, to whatever endpoints, rating_count
\* and average_rating are always those of the approved ratings.
THEOREM CacheMatchesHolds ==
    ASSUME Undisturbed PROVE Spec => []CacheMatches
<1>1. UndisturbedInv => CacheMatches
  BY DEF UndisturbedInv, CacheMatches
<1>q. QED BY <1>1, UndisturbedInvHolds, PTL

LEMMA ItemsWrittenByCommit ==
    ASSUME [Next]_vars, NEW i \in Items, item'[i] # item[i] \/ case'[i] # case[i]
    PROVE  \E r \in Requests : Commit(r)
<1>1. ASSUME NEW r \in Requests, Load(r) PROVE item' = item /\ case' = case
  BY <1>1, LoadWritesNothing
<1>2. ASSUME NEW r \in Requests,
             Flush(r) \/ RefuseDuplicate(r) \/ DeadlockVictim(r) \/ Crash(r)
      PROVE  item' = item /\ case' = case
  BY <1>2 DEF Flush, RefuseDuplicate, DeadlockVictim, Crash, Rollback
<1>3. ASSUME NEW n \in Nanos, ChangeVisibility(n)
      PROVE  item' = item /\ case' = case
  BY <1>3 DEF ChangeVisibility
<1>q. QED BY <1>1, <1>2, <1>3 DEF Next, Proceed, vars

\* While one request is handled at a time, each leaves what it changes of
\* content and case in agreement, unless it is one to a moderation endpoint
\* under /nanos: creations and edits reset the case, a review decides both,
\* also when they had come apart before.
THEOREM OnlyModerateSplitsHolds ==
    ASSUME Undisturbed PROVE Spec => OnlyModerateSplits
<1> DEFINE Step ==
      \A i \in Items :
          \/ item'[i] = item[i] /\ case'[i] = case[i]
          \/ /\ OpenCaseAgrees(i, item'[i], case'[i])
             /\ DecidedCaseAgrees(i, item'[i], case'[i])
          \/ \E r \in Requests : /\ req[r] # NoTxn /\ req'[r] = NoTxn
                                 /\ req[r].item = i
                                 /\ req[r].endpoint = "moderate"
<1>1. ASSUME FeedbackInv, UndisturbedInv, [Next]_vars, NEW i \in Items,
             item'[i] # item[i] \/ case'[i] # case[i]
      PROVE  \/ /\ OpenCaseAgrees(i, item'[i], case'[i])
                /\ DecidedCaseAgrees(i, item'[i], case'[i])
             \/ \E r \in Requests : /\ req[r] # NoTxn /\ req'[r] = NoTxn
                                    /\ req[r].item = i
                                    /\ req[r].endpoint = "moderate"
  <2>1. PICK r \in Requests : Commit(r)
    BY <1>1, ItemsWrittenByCommit
  <2>2. req[r] # NoTxn /\ req'[r] = NoTxn
    BY <1>1, <2>1 DEF Commit, FeedbackInv
  <2>3. CASE req[r].endpoint = "moderate" /\ req[r].item = i
    BY <2>2, <2>3
  <2>4. CASE ~(req[r].endpoint = "moderate" /\ req[r].item = i)
    BY <1>1, <2>1, <2>4, CommitAgrees
  <2>q. QED BY <2>3, <2>4
<1>2. FeedbackInv /\ UndisturbedInv /\ [Next]_vars => [Step]_vars
  BY <1>1
<1>3. Spec => [][Step]_vars
  <2> HIDE DEF Step
  <2>q. QED BY UndisturbedInvHolds, <1>2, PTL DEF Spec
<1>q. QED BY <1>3 DEF OnlyModerateSplits

\* While one request is handled at a time, to whatever endpoints, nothing is
\* shown but what the approving moderator saw.
THEOREM VisibleWasReviewedHolds ==
    ASSUME Undisturbed PROVE Spec => VisibleWasReviewed
<1>1. ASSUME FeedbackInv, UndisturbedInv, [Next]_vars, NEW i \in Items,
             item'[i].status = "approved", item'[i] # item[i]
      PROVE  \E r \in Requests : /\ req[r] # NoTxn /\ req'[r] = NoTxn
                                 /\ req[r].item = i
                                 /\ req[r].by \in Moderators
                                 /\ req[r].seen = item'[i].content
  <2>1. PICK r \in Requests : Commit(r)
    BY <1>1, ItemsWrittenByCommit
  <2> DEFINE t == req[r]
             row == Apply(item[t.item], t.item_write)
  <2>2. /\ t # NoTxn /\ req'[r] = NoTxn /\ WritesSound(t)
        /\ t.step = Len(Order(t))
    BY <1>1, <2>1 DEF Commit, FeedbackInv
  <2>3. /\ t.endpoint \in AllEndpoints
        /\ Fits(t, item, case, cache)
    BY <1>1, <2>2, RequestFits
  <2>4. i = t.item /\ item'[i] = row
    BY <1>1, <2>1, CommitIs
  <2>5. t.item_write # NoChange
    <3>1. ASSUME t.item_write = NoChange PROVE item'[i] = item[i]
      <4>1. item[i] = [status |-> item[i].status, content |-> item[i].content]
        BY <1>1 DEF UndisturbedInv, RowsShaped
      <4>2. /\ DOMAIN item[i] = {"status", "content"}
            /\ item'[i] = [x \in DOMAIN item[i] |-> item[i][x]]
        BY <1>1, <2>4, <3>1, NoChangeIs DEF FeedbackInv, Apply
      <4>q. QED BY <4>1, <4>2
    <3>q. QED BY <1>1, <3>1
  <2>6. t.endpoint \in {"review", "moderate"} /\ row.content = t.seen
    BY <1>1, <2>3, <2>4, <2>5
       DEF Fits, SubmissionFits, ModerateFits, ReviewFits, QueueFits, AllEndpoints
  <2>q. QED BY <2>2, <2>4, <2>6 DEF WritesSound
<1>2. FeedbackInv /\ UndisturbedInv /\ [Next]_vars =>
         [\A i \in Items :
             item'[i].status = "approved" /\ item'[i] # item[i] =>
                \E r \in Requests : /\ req[r] # NoTxn /\ req'[r] = NoTxn
                                    /\ req[r].item = i
                                    /\ req[r].by \in Moderators
                                    /\ req[r].seen = item'[i].content]_vars
  BY <1>1
<1>q. QED BY UndisturbedInvHolds, <1>2, PTL DEF Spec, VisibleWasReviewed

-----------------------------------------------------------------------------
(* Sums and averages of scores are numbers *)

\* MapThenSumSet, as it sums the scores of a set of rows
Summand(rows, g, u) ==
    IF u = {} THEN 0
    ELSE LET x == CHOOSE x \in u : TRUE IN rows[x].content + g[u \ {x}]

ScoreSums(rows, s) == CHOOSE g : g = [u \in SUBSET s |-> Summand(rows, g, u)]

\* A sum over a finite set of numbers is a number.
LEMMA SumIsNat ==
    ASSUME NEW s, IsFiniteSet(s), NEW rows, \A i \in s : rows[i].content \in Nat
    PROVE  ScoreSums(rows, s)[s] \in Nat
<1> DEFINE Body(g, u) == IF u = {} THEN 0
                         ELSE LET x == CHOOSE x \in u : TRUE
                              IN  rows[x].content + g[u \ {x}]
           Small(b) == {u \in SUBSET s : Cardinality(u) <= b}
           N == Cardinality(s)
           Reached == {b \in 0 .. N : \E g : g = [u \in Small(b) |-> Body(g, u)]}
           total == CHOOSE g : g = [u \in SUBSET s |-> Body(g, u)]
           Summed == {b \in 0 .. N : \A u \in Small(b) : total[u] \in Nat}
<1>1. /\ N \in Nat
      /\ \A u \in SUBSET s : /\ IsFiniteSet(u) /\ Cardinality(u) \in Nat
                             /\ Cardinality(u) <= N
                             /\ Cardinality(u) = 0 <=> u = {}
  BY FS_Subset, FS_CardinalityType, FS_EmptySet
<1>2. ASSUME NEW b \in Nat, NEW u \in Small(b + 1), u # {}
      PROVE  /\ (CHOOSE x \in u : TRUE) \in u
             /\ u \ {CHOOSE x \in u : TRUE} \in Small(b)
  <2> DEFINE x == CHOOSE x \in u : TRUE
  <2>1. x \in u
    BY <1>2
  <2> HIDE DEF x
  <2>2. u \in SUBSET s /\ IsFiniteSet(u) /\ Cardinality(u) <= b + 1
    BY <1>1
  <2>3. Cardinality(u \ {x}) = Cardinality(u) - 1
    BY <2>1, <2>2, FS_RemoveElement
  <2>4. Cardinality(u) \in Nat
    BY <1>1, <2>2
  <2>5. u \ {x} \in SUBSET s /\ Cardinality(u \ {x}) <= b
    BY <2>2, <2>3, <2>4
  <2>q. QED BY <2>1, <2>5 DEF x
<1>3. \A u \in Small(0) : u = {}
  BY <1>1
<1>4. 0 \in Reached
  <2> DEFINE f0 == [u \in Small(0) |-> 0]
  <2>1. \A u \in Small(0) : Body(f0, u) = 0
    BY <1>3
  <2> HIDE DEF Body
  <2>2. f0 = [u \in Small(0) |-> Body(f0, u)]
    BY <2>1
  <2>3. \E g : g = [u \in Small(0) |-> Body(g, u)]
    BY <2>2
  <2> HIDE DEF Small
  <2>q. QED BY <1>1, <2>3
<1>5. ASSUME NEW b \in 0 .. N, b \in Reached, b < N PROVE b + 1 \in Reached
  <2>1. PICK f : f = [u \in Small(b) |-> Body(f, u)]
    BY <1>5
  <2> DEFINE g == [u \in Small(b + 1) |-> Body(f, u)]
  <2>2. \A u \in Small(b) : u \in Small(b + 1)
    BY <1>1
  <2>3. \A u \in Small(b) : g[u] = f[u]
    <3> HIDE DEF Body, Small
    <3>1. \A u \in Small(b) : f[u] = Body(f, u)
      BY <2>1
    <3>q. QED BY <2>2, <3>1
  <2>4. \A u \in Small(b + 1) : Body(g, u) = Body(f, u)
    <3>1. ASSUME NEW u \in Small(b + 1), u # {} PROVE Body(g, u) = Body(f, u)
      <4>1. g[u \ {CHOOSE x \in u : TRUE}] = f[u \ {CHOOSE x \in u : TRUE}]
        <5>1. u \ {CHOOSE x \in u : TRUE} \in Small(b)
          BY <1>1, <1>2, <3>1
        <5> HIDE DEF g, Small
        <5>q. QED BY <2>3, <5>1
      <4> HIDE DEF g, Small
      <4>q. QED BY <4>1
    <3>2. ASSUME NEW u, u = {} PROVE Body(g, u) = Body(f, u)
      <4> HIDE DEF g
      <4>q. QED BY <3>2
    <3> HIDE DEF Body, Small, g
    <3>q. QED BY <3>1, <3>2
  <2>5. g = [u \in Small(b + 1) |-> Body(g, u)]
    <3> HIDE DEF Body, Small
    <3>q. QED BY <2>4
  <2>6. \E h : h = [u \in Small(b + 1) |-> Body(h, u)]
    BY <2>5
  <2> HIDE DEF g, Small, Body
  <2>q. QED BY <1>1, <1>5, <2>6
<1>6. Small(N) = SUBSET s
  BY <1>1
<1>7. N \in Reached
  <2> HIDE DEF Reached
  <2>1. 0 .. N \subseteq Reached
    BY <1>1, <1>4, <1>5, BoundedInduction
  <2>q. QED BY <1>1, <2>1
<1>8. \A u \in SUBSET s : total[u] = Body(total, u)
  <2>1. \E g : g = [u \in SUBSET s |-> Body(g, u)]
    <3> HIDE DEF Body, Small
    <3>q. QED BY <1>6, <1>7
  <2>2. total = [u \in SUBSET s |-> Body(total, u)]
    <3> HIDE DEF Body
    <3>q. QED BY <2>1
  <2> HIDE DEF total, Body
  <2>q. QED BY <2>2
<1>9. ScoreSums(rows, s) = total
  BY DEF ScoreSums, Summand
<1> HIDE DEF total
<1>10. 0 \in Summed
  <2>1. total[{}] = 0
    <3>1. Body(total, {}) = 0
      OBVIOUS
    <3> HIDE DEF Body
    <3>2. total[{}] = Body(total, {})
      BY <1>8
    <3>q. QED BY <3>1, <3>2
  <2>2. \A u \in Small(0) : total[u] \in Nat
    <3>1. 0 \in Nat
      OBVIOUS
    <3> HIDE DEF Small
    <3>q. QED BY <1>3, <2>1, <3>1, Zenon
  <2>3. 0 \in 0 .. N
    BY <1>1
  <2> HIDE DEF Small, N
  <2>q. QED BY <2>2, <2>3
<1>11. ASSUME NEW b \in 0 .. N, b \in Summed, b < N PROVE b + 1 \in Summed
  <2>1. ASSUME NEW u \in Small(b + 1) PROVE total[u] \in Nat
    <3>1. CASE u = {}
      BY <1>8, <3>1
    <3>2. CASE u # {}
      <4> DEFINE x == CHOOSE x \in u : TRUE
      <4>1. x \in u /\ u \ {x} \in Small(b)
        BY <1>1, <1>2, <3>2
      <4>2. u \in SUBSET s
        OBVIOUS
      <4>3. total[u] = rows[x].content + total[u \ {x}]
        BY <1>8, <3>2, <4>2
      <4>4. total[u \ {x}] \in Nat
        <5> HIDE DEF x, Small
        <5>q. QED BY <1>11, <4>1
      <4>5. rows[x].content \in Nat
        BY <4>1, <4>2
      <4> HIDE DEF x
      <4>q. QED BY <4>3, <4>4, <4>5
    <3>q. QED BY <3>1, <3>2
  <2> HIDE DEF Small
  <2>q. QED BY <1>1, <1>11, <2>1
<1>12. 0 .. N \subseteq Summed
  <2> HIDE DEF Summed
  <2>q. QED BY <1>1, <1>10, <1>11, BoundedInduction
<1>13. N \in Summed /\ s \in Small(N)
  BY <1>1, <1>6, <1>12
<1>14. total[s] \in Nat
  <2> HIDE DEF Small
  <2>q. QED BY <1>13
<1>q. QED BY <1>9, <1>14

LEMMA Quotient ==
    ASSUME NEW a \in Nat, NEW b \in Nat \ {0}
    PROVE  a \div b \in Nat
  OBVIOUS

\* Count and average are numbers.
LEMMA AggregateType ==
    ASSUME NEW n, NEW rows, \A i \in Ratings : rows[i].content \in Nat
    PROVE  Aggregate(n, rows) \in CacheRow
<1> DEFINE approved == {i \in Ratings : /\ NanoOf[i] = n
                                        /\ rows[i].status = "approved"}
           count == Cardinality(approved)
           total == MapThenSumSet(LAMBDA i : rows[i].content, approved)
           average == IF count = 0 THEN 0
                      ELSE (200 * total + count) \div (2 * count)
<1>1. IsFiniteSet(approved) /\ count \in Nat
  BY ItemsAssumption, FS_Subset, FS_CardinalityType
<1>2. total \in Nat
  <2>1. total = ScoreSums(rows, approved)[approved]
    BY DEF MapThenSumSet, MapThenFoldSet, ScoreSums, Summand
  <2>2. \A i \in approved : rows[i].content \in Nat
    OBVIOUS
  <2> HIDE DEF total, approved
  <2>q. QED BY <1>1, <2>1, <2>2, SumIsNat
<1>3. Aggregate(n, rows) = [count |-> count, average |-> average]
  BY DEF Aggregate
<1> HIDE DEF total, count
<1>4. average \in Nat
  <2>1. CASE count = 0
    BY <2>1
  <2>2. CASE count # 0
    <3>1. 200 * total + count \in Nat /\ 2 * count \in Nat \ {0}
      BY <1>1, <1>2, <2>2
    <3>2. average = (200 * total + count) \div (2 * count)
      BY <2>2
    <3>q. QED BY <3>1, <3>2, Quotient
  <2>q. QED BY <2>1, <2>2
<1> HIDE DEF average
<1>q. QED BY <1>1, <1>3, <1>4 DEF CacheRow

-----------------------------------------------------------------------------
(* The types *)

ItemWrites == {Changes(a, b) : a, b \in ItemRow}
CaseWrites == {Changes(a, b) : a, b \in CaseRow}
CacheWrites == {NoChange} \cup [{"count"} -> Nat] \cup [{"average"} -> Nat]
                 \cup CacheRow

\* The statuses of one kind of content
StatusesOf(i) == IF i \in Flags THEN FlagStatuses ELSE FeedbackStatuses

\* A request writes only statuses of its kind of content.
TypeInv ==
    /\ TypeOK
    /\ \A r \in Requests :
          req[r] # NoTxn /\ "status" \in DOMAIN req[r].item_write =>
             req[r].item_write["status"] \in StatusesOf(req[r].item)

\* What is averaged is a number.
LEMMA ContentIsNat == \A row \in ItemRow : row.content \in Nat
<1>1. \A c \in Contents \cup {0} : c \in Nat
  BY ItemsAssumption
<1>2. \A row \in ItemRow : row.content \in Contents \cup {0}
  BY DEF ItemRow
<1>q. QED BY <1>1, <1>2

LEMMA NothingChanged == NoChange \in ItemWrites /\ NoChange \in CaseWrites
<1>1. ASSUME NEW row PROVE Changes(row, row) = NoChange
  BY DEF Changes, NoChange
<1>2. AbsentItem \in ItemRow /\ NoCase \in CaseRow
  BY DEF AbsentItem, ItemRow, NoCase, CaseRow
<1>q. QED BY <1>1, <1>2 DEF ItemWrites, CaseWrites

\* Writing some columns of a row leaves a row.
LEMMA WrittenItem ==
    ASSUME NEW row \in ItemRow, NEW w \in ItemWrites
    PROVE  /\ Apply(row, w) \in ItemRow
           /\ Apply(row, w).status = IF "status" \in DOMAIN w
                                     THEN w["status"] ELSE row.status
<1>1. PICK a \in ItemRow, b \in ItemRow : w = Changes(a, b)
  BY DEF ItemWrites
<1>2. \A c \in DOMAIN w : c \in {"status", "content"} /\ w[c] = b[c]
  BY <1>1 DEF Changes, ItemRow
<1>3. Apply(row, w) = [c \in {"status", "content"} |->
                         IF c \in DOMAIN w THEN b[c] ELSE row[c]]
  BY <1>2 DEF Apply, ItemRow
<1>q. QED BY <1>2, <1>3 DEF ItemRow

LEMMA WrittenCase ==
    ASSUME NEW row \in CaseRow, NEW w \in CaseWrites
    PROVE  Apply(row, w) \in CaseRow
<1>1. PICK a \in CaseRow, b \in CaseRow : w = Changes(a, b)
  BY DEF CaseWrites
<1>2. \A c \in DOMAIN w : c \in {"status"} /\ w[c] = b[c]
  BY <1>1 DEF Changes, CaseRow
<1>3. Apply(row, w) = [c \in {"status"} |->
                         IF c \in DOMAIN w THEN b[c] ELSE row[c]]
  BY <1>2 DEF Apply, CaseRow
<1>q. QED BY <1>3 DEF CaseRow

LEMMA WrittenCache ==
    ASSUME NEW row \in CacheRow, NEW w \in CacheWrites
    PROVE  Apply(row, w) \in CacheRow
<1>1. \A c \in DOMAIN w : c \in {"count", "average"} /\ w[c] \in Nat
  BY DEF CacheWrites, CacheRow, NoChange
<1>2. Apply(row, w) = [c \in {"count", "average"} |->
                         IF c \in DOMAIN w THEN w[c] ELSE row[c]]
  BY DEF Apply, CacheRow
<1>q. QED BY <1>1, <1>2 DEF CacheRow

LEMMA CacheChanges ==
    ASSUME NEW a \in CacheRow, NEW b \in CacheRow
    PROVE  Changes(a, b) \in CacheWrites
<1>1. /\ DOMAIN a = {"count", "average"} 
      /\ b["count"] \in Nat /\ b["average"] \in Nat
  BY DEF CacheRow
<1>2. CASE a["count"] = b["count"] /\ a["average"] = b["average"]
  <2>1. Changes(a, b) = NoChange
    BY <1>1, <1>2 DEF Changes, NoChange
  <2>q. QED BY <2>1 DEF CacheWrites
<1>3. CASE a["count"] # b["count"] /\ a["average"] = b["average"]
  <2>1. Changes(a, b) = [c \in {"count"} |-> b[c]]
    BY <1>1, <1>3 DEF Changes
  <2>q. QED BY <1>1, <2>1 DEF CacheWrites
<1>4. CASE a["count"] = b["count"] /\ a["average"] # b["average"]
  <2>1. Changes(a, b) = [c \in {"average"} |-> b[c]]
    BY <1>1, <1>4 DEF Changes
  <2>q. QED BY <1>1, <2>1 DEF CacheWrites
<1>5. CASE a["count"] # b["count"] /\ a["average"] # b["average"]
  <2>1. Changes(a, b) = [c \in {"count", "average"} |-> b[c]]
    BY <1>1, <1>5 DEF Changes
  <2>q. QED BY <1>1, <2>1 DEF CacheWrites, CacheRow
<1>q. QED BY <1>2, <1>3, <1>4, <1>5

\* A transaction writes one, two or three rows.
LEMMA OrderLength ==
    ASSUME NEW t, t.endpoint \in AllEndpoints
    PROVE  Len(Order(t)) \in 1 .. 3
<1> DEFINE Tables == {"item", "cache", "case"}
           a == AfterItem(t)
<1>1. a \in Seq(Tables) /\ Len(a) \in 0 .. 1
  <2>1. CASE a = <<"cache">>
    <3>1. <<"cache">> \in Seq(Tables) /\ Len(<<"cache">>) = 1
      OBVIOUS
    <3> HIDE DEF a
    <3>q. QED BY <2>1, <3>1
  <2>2. CASE a = << >>
    <3>1. << >> \in Seq(Tables) /\ Len(<< >>) = 0
      OBVIOUS
    <3> HIDE DEF a
    <3>q. QED BY <2>2, <3>1
  <2>q. QED BY <2>1, <2>2 DEF AfterItem
<1>2. /\ <<"item">> \in Seq(Tables) /\ Len(<<"item">>) = 1
      /\ <<"case">> \in Seq(Tables) /\ Len(<<"case">>) = 1
      /\ <<"case", "item">> \in Seq(Tables) /\ Len(<<"case", "item">>) = 2
  OBVIOUS
<1>3. \/ Order(t) = (<<"item">> \o a) \o <<"case">>
      \/ Order(t) = <<"item">> \o a
      \/ Order(t) = <<"case", "item">> \o a
      \/ Order(t) = <<"case">>
  BY DEF Order, AllEndpoints
<1> HIDE DEF a
<1>4. /\ <<"item">> \o a \in Seq(Tables)
      /\ Len(<<"item">> \o a) = 1 + Len(a)
      /\ Len(<<"case", "item">> \o a) = 2 + Len(a)
  BY <1>1, <1>2, Concatenation
<1>5. Len((<<"item">> \o a) \o <<"case">>) = 2 + Len(a)
  <2> DEFINE b == <<"item">> \o a
  <2> HIDE DEF b
  <2>1. Len(b \o <<"case">>) = Len(b) + 1
    BY <1>2, <1>4, Concatenation DEF b
  <2>q. QED BY <1>1, <1>4, <2>1 DEF b
<1>6. \/ Len(Order(t)) = 2 + Len(a)
      \/ Len(Order(t)) = 1 + Len(a)
      \/ Len(Order(t)) = 1
  <2>1. CASE Order(t) = (<<"item">> \o a) \o <<"case">>
    BY <1>5, <2>1, Zenon
  <2>2. CASE Order(t) = <<"item">> \o a
    BY <1>4, <2>2, Zenon
  <2>3. CASE Order(t) = <<"case", "item">> \o a
    BY <1>4, <2>3, Zenon
  <2>4. CASE Order(t) = <<"case">>
    BY <1>2, <2>4, Zenon
  <2>q. QED BY <1>3, <2>1, <2>2, <2>3, <2>4, Zenon
<1> DEFINE n == Len(Order(t))
           m == Len(a)
<1>7. m \in 0 .. 1 /\ (n = 2 + m \/ n = 1 + m \/ n = 1)
  BY <1>1, <1>6, Zenon
<1> HIDE DEF n, m
<1>8. n \in 1 .. 3
  BY <1>7
<1>q. QED BY <1>8 DEF n

\* A record with the columns of a transaction is one.
LEMMA TxnIs ==
    Txn = [endpoint : AllEndpoints, by : Users, item : Items,
           decision : Decisions \cup {"none"}, step : 1 .. 3,
           seen : Contents \cup {0}, loaded : CacheRow,
           item_write : ItemWrites, case_write : CaseWrites,
           cache_write : CacheWrites, inserts : SUBSET Items]
  BY DEF Txn, ItemWrites, CaseWrites, CacheWrites

\* The transaction a load begins with
LEMMA NewTxnType ==
    ASSUME NEW endpoint \in AllEndpoints, NEW u \in Users, NEW i \in Items
    PROVE  NewTxn(endpoint, u, i) \in Txn
<1>1. EmptyCache \in CacheRow /\ NoChange \in CacheWrites
  BY DEF EmptyCache, CacheRow, CacheWrites
<1>q. QED BY <1>1, NothingChanged, TxnIs DEF NewTxn

LEMMA NanoTxnType ==
    ASSUME cache \in [Nanos -> CacheRow],
           NEW endpoint \in AllEndpoints, NEW u \in Users, NEW i \in Items
    PROVE  NanoTxn(endpoint, u, i) \in Txn
<1> DEFINE l == IF i \in Ratings THEN cache[NanoOf[i]] ELSE EmptyCache
           base == NewTxn(endpoint, u, i)
<1>1. l \in CacheRow
  BY ItemsAssumption DEF EmptyCache, CacheRow
<1>2. base \in Txn
  BY NewTxnType
<1>3. NanoTxn(endpoint, u, i) = [base EXCEPT !.loaded = l]
  BY DEF NanoTxn
<1> HIDE DEF l, base
<1>q. QED BY <1>1, <1>2, <1>3, TxnIs

\* The transaction of r becomes t.
LEMMA TypedMove ==
    ASSUME TypeInv, NEW r \in Requests, NEW t \in Txn,
           req' = [req EXCEPT ![r] = t],
           "status" \in DOMAIN t.item_write =>
              t.item_write["status"] \in StatusesOf(t.item),
           UNCHANGED <<item, case, cache, published>>
    PROVE  TypeInv'
<1>1. req' \in [Requests -> Txn \cup {NoTxn}]
  BY DEF TypeInv, TypeOK
<1>2. ASSUME NEW q \in Requests, req'[q] # NoTxn, "status" \in DOMAIN req'[q].item_write
      PROVE  req'[q].item_write["status"] \in StatusesOf(req'[q].item)
  BY <1>2 DEF TypeInv, TypeOK
<1>3. TypeOK'
  BY <1>1 DEF TypeInv, TypeOK
<1>q. QED BY <1>2, <1>3 DEF TypeInv, StatusesOf

LEMMA TypedEnd ==
    ASSUME TypeInv, NEW r \in Requests, Rollback(r)
    PROVE  TypeInv'
<1>1. req' \in [Requests -> Txn \cup {NoTxn}]
  BY DEF TypeInv, TypeOK, Rollback
<1>2. ASSUME NEW q \in Requests, req'[q] # NoTxn PROVE req'[q] = req[q]
  BY <1>2 DEF TypeInv, TypeOK, Rollback
<1>3. TypeOK'
  BY <1>1 DEF TypeInv, TypeOK, Rollback
<1>q. QED BY <1>2, <1>3 DEF TypeInv, StatusesOf

\* What is written over a row, and which status
LEMMA ItemChanges ==
    ASSUME NEW a \in ItemRow, NEW b \in ItemRow
    PROVE  /\ Changes(a, b) \in ItemWrites
           /\ "status" \in DOMAIN Changes(a, b) =>
                 Changes(a, b)["status"] = b.status
  BY ChangesAre DEF ItemWrites

LEMMA NewStatus ==
    ASSUME NEW row \in ItemRow, NEW s \in FeedbackStatuses \cup FlagStatuses
    PROVE  /\ [row EXCEPT !.status = s] \in ItemRow
           /\ [row EXCEPT !.status = s].status = s
  BY DEF ItemRow

\* A load decides on rows that are well formed.
LEMMA LoadTyped ==
    ASSUME TypeInv, NEW r \in Requests, Load(r)
    PROVE  TypeInv'
<1>0. /\ item \in [Items -> ItemRow] /\ case \in [Items -> CaseRow]
      /\ cache \in [Nanos -> CacheRow]
      /\ AbsentItem \in ItemRow
      /\ \A c \in Contents : /\ PendingItem(c) \in ItemRow
                             /\ PendingItem(c).status = "pending"
      /\ \A i \in Items : "pending" \in StatusesOf(i)
  BY DEF TypeInv, TypeOK, AbsentItem, PendingItem, ItemRow, StatusesOf,
         FlagStatuses, FeedbackStatuses
<1>1. ASSUME NEW t \in Txn, Begin(r, t),
             "status" \in DOMAIN t.item_write =>
                t.item_write["status"] \in StatusesOf(t.item)
      PROVE  TypeInv'
  BY <1>1, TypedMove DEF Begin
<1>2. ASSUME NEW endpoint \in {"create", "update"}, NEW u \in Users,
             NEW i \in Items, NEW c \in Contents, NEW old \in ItemRow,
             Begin(r, [NanoTxn(endpoint, u, i) EXCEPT
                         !.item_write = Changes(old, PendingItem(c))])
      PROVE  TypeInv'
  <2> DEFINE base == NanoTxn(endpoint, u, i)
             w == Changes(old, PendingItem(c))
             t == [base EXCEPT !.item_write = w]
  <2>1. base \in Txn /\ base.item = i
    BY <1>0, NanoTxnType, NanoTxnIs DEF AllEndpoints
  <2>2. /\ w \in ItemWrites
        /\ "status" \in DOMAIN w => w["status"] \in StatusesOf(i)
    BY <1>0, ItemChanges
  <2> HIDE DEF base, w
  <2>3. t \in Txn /\ t.item = i /\ t.item_write = w
    BY <2>1, <2>2, TxnIs
  <2>4. Begin(r, t)
    BY <1>2 DEF base, w
  <2> HIDE DEF t
  <2>q. QED BY <1>1, <2>2, <2>3, <2>4
<1>3. ASSUME NEW u \in Users, NEW i \in Items, NEW c \in Contents,
             LoadCreate(r, u, i, c) \/ LoadUpdate(r, u, i, c)
      PROVE  TypeInv'
  <2>1. CASE LoadCreate(r, u, i, c)
    BY <1>0, <1>2, <2>1 DEF LoadCreate
  <2>2. CASE LoadUpdate(r, u, i, c)
    BY <1>0, <1>2, <2>2 DEF LoadUpdate
  <2>q. QED BY <1>3, <2>1, <2>2
<1>4. ASSUME NEW u \in Users, NEW i \in Items,
             NEW status \in {"approved", "hidden"}, LoadModerate(r, u, i, status)
      PROVE  TypeInv'
  <2> DEFINE base == NanoTxn("moderate", u, i)
             row == [item[i] EXCEPT !.status = status]
             w == Changes(item[i], row)
             t == [base EXCEPT !.seen = item[i].content, !.item_write = w]
  <2>1. base \in Txn /\ base.item = i
    BY <1>0, NanoTxnType, NanoTxnIs DEF AllEndpoints
  <2>2. row \in ItemRow /\ row.status \in StatusesOf(i)
    <3>1. i \notin Flags
      BY <1>4 DEF LoadModerate
    <3>q. QED BY <1>0, <3>1, NewStatus DEF StatusesOf, FeedbackStatuses
  <2>3. /\ w \in ItemWrites
        /\ "status" \in DOMAIN w => w["status"] \in StatusesOf(i)
    <3> HIDE DEF row
    <3>q. QED BY <1>0, <2>2, ItemChanges
  <2>4. item[i].content \in Contents \cup {0}
    BY <1>0 DEF ItemRow
  <2> HIDE DEF base, w
  <2>5. t \in Txn /\ t.item = i /\ t.item_write = w
    BY <2>1, <2>3, <2>4, TxnIs
  <2>6. Begin(r, t)
    BY <1>4 DEF LoadModerate, base, w
  <2> HIDE DEF t
  <2>q. QED BY <1>1, <2>3, <2>5, <2>6
<1>5. ASSUME NEW u \in Users, NEW i \in Items, NEW d \in Decisions,
             LoadReview(r, u, i, d)
      PROVE  TypeInv'
  <2> DEFINE base == NewTxn("review", u, i)
             w == Changes(case[i], [status |-> CaseStatusOf[d]])
             t == [base EXCEPT !.decision = d, !.case_write = w]
  <2>1. base \in Txn /\ base.item_write = NoChange
    BY NewTxnType, NewTxnIs DEF AllEndpoints
  <2>2. w \in CaseWrites
    <3>1. [status |-> CaseStatusOf[d]] \in CaseRow
      BY DEF CaseRow, CaseStatusOf, Decisions
    <3>q. QED BY <1>0, <3>1 DEF CaseWrites
  <2> HIDE DEF base, w
  <2>3. t \in Txn /\ t.item_write = NoChange
    BY <2>1, <2>2, TxnIs
  <2>4. Begin(r, t)
    BY <1>5 DEF LoadReview, base, w
  <2> HIDE DEF t
  <2>q. QED BY <1>1, <2>3, <2>4, NoChangeIs
<1>6. ASSUME NEW u \in Users, LoadQueue(r, u) PROVE TypeInv'
  <2> DEFINE missing == {i \in Ratings \cup Comments :
                            item[i].status = "pending" /\ case[i] = NoCase}
             base == NewTxn("queue", u, CHOOSE i \in missing : TRUE)
             t == [base EXCEPT !.inserts = missing]
  <2>1. missing # {} /\ Begin(r, t)
    BY <1>6 DEF LoadQueue
  <2>2. missing \in SUBSET Items /\ (CHOOSE i \in missing : TRUE) \in Items
    BY <2>1 DEF Items
  <2>3. base \in Txn /\ base.item_write = NoChange
    BY <2>2, NewTxnType, NewTxnIs DEF AllEndpoints
  <2> HIDE DEF base, missing
  <2>4. t \in Txn /\ t.item_write = NoChange
    BY <2>2, <2>3, TxnIs
  <2> HIDE DEF t
  <2>q. QED BY <1>1, <2>1, <2>4, NoChangeIs
<1>q. QED BY <1>3, <1>4, <1>5, <1>6 DEF Load

\* So does each later read, for the status by the kind of content.
LEMMA FlushTyped ==
    ASSUME FeedbackInv, TypeInv, NEW r \in Requests, Flush(r)
    PROVE  TypeInv'
<1> DEFINE old == req[r]
           t == [old EXCEPT !.step = @ + 1]
<1>1. /\ old \in Txn
      /\ "status" \in DOMAIN old.item_write =>
            old.item_write["status"] \in StatusesOf(old.item)
      /\ old.step < Len(Order(old))
      /\ UNCHANGED <<item, case, cache, published>>
      /\ req' = [req EXCEPT ![r] = CASE NextTable(t) = "item" -> ReadItem(t)
                                     [] NextTable(t) = "cache" -> ReadCache(t)
                                     [] NextTable(t) = "case" -> ReadCase(t)]
  BY DEF Flush, TypeInv, TypeOK
<1>2. /\ item \in [Items -> ItemRow] /\ case \in [Items -> CaseRow]
      /\ cache \in [Nanos -> CacheRow]
  BY DEF TypeInv, TypeOK
<1>3. /\ old.step + 1 \in 1 .. 3 /\ old.item \in Items
      /\ old.endpoint \in AllEndpoints /\ DOMAIN old = Fields
  <2>1. /\ old.endpoint \in AllEndpoints /\ old.step \in Nat \ {0}
        /\ old.item \in Items /\ DOMAIN old = Fields
    BY DEF Flush, FeedbackInv, WritesSound
  <2>2. Len(Order(old)) \in 1 .. 3
    BY <2>1, OrderLength
  <2>3. old.step < Len(Order(old))
    BY <1>1
  <2> HIDE DEF old
  <2>4. old.step + 1 \in 1 .. 3
    <3> DEFINE n == old.step
               m == Len(Order(old))
    <3>1. n \in Nat \ {0} /\ m \in 1 .. 3 /\ n < m
      BY <2>1, <2>2, <2>3
    <3> HIDE DEF n, m
    <3>2. n + 1 \in 1 .. 3
      BY <3>1
    <3>q. QED BY <3>2 DEF n
  <2>q. QED BY <2>1, <2>4
<1>4. /\ t \in Txn /\ t.item = old.item /\ t.item_write = old.item_write
      /\ t.step = old.step + 1 /\ t.endpoint = old.endpoint
      /\ t.decision = old.decision /\ t.loaded = old.loaded
  <2>1. t \in Txn /\ t.item = old.item /\ t.item_write = old.item_write
    <3> HIDE DEF old
    <3>1. t = [old EXCEPT !.step = old.step + 1]
      OBVIOUS
    <3>q. QED BY <1>1, <1>3, <3>1, TxnIs
  <2> HIDE DEF old
  <2>q. QED BY <1>3, <2>1 DEF Fields
<1>5. t.loaded \in CacheRow
  <2> HIDE DEF t
  <2>q. QED BY <1>4, TxnIs
<1> HIDE DEF t, old
<1>6. NextTable(t) \in {"item", "cache", "case"}
      /\ (NextTable(t) = "item" => t.endpoint = "review")
  <2>1. Order(t) = Order(old)
    BY <1>4 DEF Order, AfterItem
  <2>2. /\ t.step \in 2 .. Len(Order(t))
    <3>1. Len(Order(old)) \in 1 .. 3 /\ old.step + 1 \in 1 .. 3 /\ old.step \in Nat \ {0}
      BY <1>3, OrderLength DEF FeedbackInv, Flush, WritesSound, old
    <3>q. QED BY <1>1, <1>4, <2>1, <3>1
  <2>q. QED BY <1>3, <1>4, <2>2, OrderIs DEF NextTable, AllEndpoints
<1>7. CASE NextTable(t) = "item"
  <2> DEFINE s == StatusDecided(t.item, t.decision)
             row == [item[t.item] EXCEPT !.status = s]
             w == Changes(item[t.item], row)
             c == item[t.item].content
  <2>1. t.decision \in Decisions
    BY <1>4, <1>6, <1>7 DEF FeedbackInv, Flush, WritesSound, old
  <2>2. s \in StatusesOf(t.item)
    BY <2>1 DEF StatusDecided, StatusesOf, FlagStatuses, FeedbackStatuses, Decisions
  <2>3. s \in FeedbackStatuses \cup FlagStatuses
    BY <2>2 DEF StatusesOf
  <2>4. item[t.item] \in ItemRow
    BY <1>2, <1>3, <1>4
  <2>5. c \in Contents \cup {0}
    BY <2>4 DEF ItemRow
  <2>6. /\ w \in ItemWrites
        /\ "status" \in DOMAIN w => w["status"] = s
    <3> HIDE DEF s
    <3>1. row \in ItemRow /\ row.status = s
      BY <2>3, <2>4, NewStatus
    <3> HIDE DEF row
    <3>q. QED BY <2>4, <3>1, ItemChanges
  <2>7. ReadItem(t) = [t EXCEPT !.seen = c, !.item_write = w]
    BY DEF ReadItem
  <2> HIDE DEF w, c, s
  <2>8. /\ ReadItem(t) \in Txn /\ ReadItem(t).item = t.item
        /\ ReadItem(t).item_write = w
    BY <1>4, <2>5, <2>6, <2>7, TxnIs
  <2>9. req' = [req EXCEPT ![r] = ReadItem(t)]
    BY <1>1, <1>7
  <2>q. QED BY <1>1, <2>2, <2>6, <2>8, <2>9, TypedMove
<1>8. CASE NextTable(t) = "cache"
  <2> DEFINE n == NanoOf[t.item]
             rows == [item EXCEPT ![t.item] = Apply(@, t.item_write)]
             from == IF t.endpoint = "review" THEN cache[n] ELSE t.loaded
             w == Changes(from, Aggregate(n, rows))
  <2>1. from \in CacheRow
    BY <1>2, <1>3, <1>4, <1>5, ItemsAssumption
  <2>2. rows \in [Items -> ItemRow]
    <3> DEFINE row == Apply(item[t.item], t.item_write)
    <3>1. item[t.item] \in ItemRow /\ t.item_write \in ItemWrites
      BY <1>2, <1>3, <1>4, TxnIs
    <3>2. row \in ItemRow
      BY <3>1, WrittenItem
    <3>3. rows = [item EXCEPT ![t.item] = row]
      OBVIOUS
    <3> HIDE DEF row, rows
    <3>q. QED BY <1>2, <3>2, <3>3
  <2>3. Aggregate(n, rows) \in CacheRow
    <3> HIDE DEF rows
    <3>1. \A i \in Ratings : rows[i].content \in Nat
      BY <2>2, ContentIsNat DEF Items
    <3>q. QED BY <3>1, AggregateType
  <2>4. w \in CacheWrites
    <3> HIDE DEF from, rows, n
    <3>q. QED BY <2>1, <2>3, CacheChanges
  <2>5. ReadCache(t) = [t EXCEPT !.loaded = EmptyCache, !.cache_write = w]
    BY DEF ReadCache
  <2>6. EmptyCache \in CacheRow
    BY DEF EmptyCache, CacheRow
  <2> HIDE DEF w
  <2>7. /\ ReadCache(t) \in Txn /\ ReadCache(t).item = t.item
        /\ ReadCache(t).item_write = t.item_write
    BY <1>4, <2>4, <2>5, <2>6, TxnIs
  <2>8. req' = [req EXCEPT ![r] = ReadCache(t)]
    BY <1>1, <1>8
  <2>q. QED BY <1>1, <1>4, <2>7, <2>8, TypedMove
<1>9. CASE NextTable(t) = "case"
  <2> DEFINE w == Changes(case[t.item], PendingCase)
             s == IF case[t.item] = NoCase THEN {t.item} ELSE {}
  <2>1. w \in CaseWrites /\ s \in SUBSET Items
    <3>1. case[t.item] \in CaseRow /\ PendingCase \in CaseRow
      BY <1>2, <1>3, <1>4 DEF PendingCase, CaseRow
    <3>q. QED BY <1>3, <1>4, <3>1 DEF CaseWrites
  <2>2. ReadCase(t) = [t EXCEPT !.case_write = w, !.inserts = s]
    BY DEF ReadCase
  <2> HIDE DEF w, s
  <2>3. /\ ReadCase(t) \in Txn /\ ReadCase(t).item = t.item
        /\ ReadCase(t).item_write = t.item_write
    BY <1>4, <2>1, <2>2, TxnIs
  <2>4. req' = [req EXCEPT ![r] = ReadCase(t)]
    BY <1>1, <1>9
  <2>q. QED BY <1>1, <1>4, <2>3, <2>4, TypedMove
<1>q. QED BY <1>6, <1>7, <1>8, <1>9

\* Other requests may have written the rows since: the written columns still
\* fit them.
LEMMA CommitTyped ==
    ASSUME TypeInv, NEW r \in Requests, Commit(r)
    PROVE  TypeInv'
<1> DEFINE t == req[r]
           row == Apply(item[t.item], t.item_write)
           c == Apply(case[t.item], t.case_write)
           w == Apply(cache[NanoOf[t.item]], t.cache_write)
<1>1. /\ item \in [Items -> ItemRow] /\ case \in [Items -> CaseRow]
      /\ cache \in [Nanos -> CacheRow]
      /\ t \in Txn
      /\ "status" \in DOMAIN t.item_write =>
            t.item_write["status"] \in StatusesOf(t.item)
  BY DEF TypeInv, TypeOK, Commit
<1>2. /\ item' = [item EXCEPT ![t.item] = row]
      /\ cache' = [cache EXCEPT ![NanoOf[t.item]] = w]
      /\ case' = [i \in Items |-> IF i \in t.inserts THEN PendingCase
                                  ELSE IF i = t.item THEN c ELSE case[i]]
      /\ req' = [req EXCEPT ![r] = NoTxn]
      /\ published' = published
  BY DEF Commit
<1> HIDE DEF t
<1>3. /\ t.item \in Items /\ NanoOf[t.item] \in Nanos
      /\ t.item_write \in ItemWrites /\ t.case_write \in CaseWrites
      /\ t.cache_write \in CacheWrites
  BY <1>1, TxnIs, ItemsAssumption
<1>4. /\ row \in ItemRow
      /\ row.status = IF "status" \in DOMAIN t.item_write
                      THEN t.item_write["status"] ELSE item[t.item].status
      /\ c \in CaseRow /\ w \in CacheRow
  BY <1>1, <1>3, WrittenItem, WrittenCase, WrittenCache
<1> HIDE DEF row, c, w
<1>5. /\ item' \in [Items -> ItemRow] /\ case' \in [Items -> CaseRow]
      /\ cache' \in [Nanos -> CacheRow]
  BY <1>1, <1>2, <1>3, <1>4 DEF PendingCase, CaseRow
<1>6. ASSUME NEW i \in Items
      PROVE  item'[i].status \in {"absent"} \cup StatusesOf(i)
  <2>1. item[i].status \in {"absent"} \cup StatusesOf(i)
    BY DEF TypeInv, TypeOK, StatusesOf
  <2>q. QED BY <1>1, <1>2, <1>3, <1>4, <2>1
<1>7. /\ req' \in [Requests -> Txn \cup {NoTxn}]
      /\ \A q \in Requests : req'[q] # NoTxn => req'[q] = req[q]
  BY <1>2 DEF TypeInv, TypeOK
<1>8. TypeOK'
  BY <1>2, <1>5, <1>6, <1>7 DEF TypeInv, TypeOK, StatusesOf
<1>q. QED BY <1>7, <1>8 DEF TypeInv, StatusesOf

LEMMA TypedInit == Init => TypeInv
<1> SUFFICES ASSUME Init PROVE TypeInv
  OBVIOUS
<1>1. ASSUME NEW i \in Items
      PROVE  item[i] \in ItemRow /\ item[i].status \in {"absent"} \cup StatusesOf(i)
  <2>1. item[i] \in {AbsentItem} \cup [status : FeedbackStatuses, content : Contents]
    BY DEF Init
  <2>2. i \in Flags => item[i] = AbsentItem
    BY DEF Init
  <2>q. QED BY <2>1, <2>2 DEF AbsentItem, ItemRow, StatusesOf
<1>2. item \in [Items -> ItemRow]
  <2>1. item = [i \in Items |-> item[i]]
    BY DEF Init
  <2>2. \A i \in Items : item[i] \in ItemRow
    BY <1>1
  <2>q. QED BY <2>1, <2>2
<1>3. cache \in [Nanos -> CacheRow]
  <2>1. \A i \in Ratings : item[i].content \in Nat
    BY <1>1, ContentIsNat DEF Items
  <2>2. \A n \in Nanos : Aggregate(n, item) \in CacheRow
    BY <2>1, AggregateType
  <2>q. QED BY <2>2 DEF Init
<1>4. case \in [Items -> CaseRow] /\ published \subseteq Nanos
  BY DEF Init, NoCase, CaseRow
<1>5. /\ req \in [Requests -> Txn \cup {NoTxn}]
      /\ \A q \in Requests : req[q] = NoTxn
  BY DEF Init
<1>q. QED BY <1>1, <1>2, <1>3, <1>4, <1>5 DEF TypeInv, TypeOK, StatusesOf

LEMMA TypedStep ==
    ASSUME FeedbackInv, TypeInv, [Next]_vars
    PROVE  TypeInv'
<1>1. ASSUME NEW r \in Requests, Load(r) \/ Flush(r) \/ Commit(r)
      PROVE  TypeInv'
  BY <1>1, LoadTyped, FlushTyped, CommitTyped
<1>2. ASSUME NEW r \in Requests,
             RefuseDuplicate(r) \/ DeadlockVictim(r) \/ Crash(r)
      PROVE  TypeInv'
  BY <1>2, TypedEnd DEF RefuseDuplicate, DeadlockVictim, Crash
<1>3. CASE UNCHANGED vars \/ \E n \in Nanos : ChangeVisibility(n)
  <2>1. UNCHANGED <<item, case, cache, req>> /\ published' \subseteq Nanos
    BY <1>3 DEF vars, ChangeVisibility, TypeInv, TypeOK
  <2>q. QED BY <2>1 DEF TypeInv, TypeOK, StatusesOf
<1>q. QED BY <1>1, <1>2, <1>3 DEF Next, Proceed

\* However requests overlap, they write only whole rows, statuses of the kind
\* of content they write to, and counts and averages that are numbers.
THEOREM FeedbackTypeHolds == Spec => []TypeOK
<1>1. TypeInv => TypeOK
  BY DEF TypeInv
<1>2. FeedbackInv /\ TypeInv /\ [Next]_vars => TypeInv'
  BY TypedStep
<1>q. QED BY <1>1, <1>2, TypedInit, FeedbackInvHolds, PTL DEF Spec

-----------------------------------------------------------------------------
(* The average that readers see *)

\* The quotient of twice the hundredths, a half added, is the nearest number.
LEMMA NearestQuotient ==
    ASSUME NEW total \in Nat, NEW count \in Nat \ {0}, NEW q \in Nat,
           q = (200 * total + count) \div (2 * count)
    PROVE  /\ (2 * q - 1) * count <= 200 * total
           /\ 200 * total < (2 * q + 1) * count
<1> DEFINE a == 200 * total + count
           b == 2 * count
<1>1. a \in Nat /\ b \in Nat \ {0}
  OBVIOUS
<1>2. q = a \div b
  OBVIOUS
<1>3. b * q <= a /\ a < b * q + b
  <2> HIDE DEF a, b
  <2>q. QED BY <1>1, <1>2
<1>4. (2 * q - 1) * count = b * q - count /\ (2 * q + 1) * count = b * q + count
  OBVIOUS
<1>5. b * q \in Nat
  OBVIOUS
<1> DEFINE p == b * q
<1>6. p - count <= 200 * total /\ 200 * total < p + count
  <2> HIDE DEF p
  <2>1. p \in Nat /\ p <= 200 * total + count /\ 200 * total + count < p + 2 * count
    BY <1>3, <1>5 DEF p
  <2>q. QED BY <2>1
<1>q. QED BY <1>4, <1>6

\* While one request is handled at a time, the average that readers see is the
\* mean of the approved scores to the nearest hundredth, for any number of
\* ratings, ties included.
THEOREM AverageIsNearestHolds ==
    ASSUME Undisturbed PROVE Spec => []AverageIsNearest
<1>1. ASSUME TypeInv, UndisturbedInv, NEW n \in Nanos
      PROVE  LET approved == {i \in Ratings : /\ NanoOf[i] = n
                                              /\ item[i].status = "approved"}
                 count == Cardinality(approved)
                 total == MapThenSumSet(LAMBDA i : item[i].content, approved)
                 average == cache[n].average
             IN  IF approved = {} THEN average = 0
                 ELSE /\ (2 * average - 1) * count <= 200 * total
                      /\ 200 * total < (2 * average + 1) * count
  <2> DEFINE approved == {i \in Ratings : /\ NanoOf[i] = n
                                          /\ item[i].status = "approved"}
             count == Cardinality(approved)
             total == MapThenSumSet(LAMBDA i : item[i].content, approved)
             average == IF count = 0 THEN 0
                        ELSE (200 * total + count) \div (2 * count)
  <2>1. IsFiniteSet(approved) /\ count \in Nat /\ (count = 0 <=> approved = {})
    BY ItemsAssumption, FS_Subset, FS_CardinalityType, FS_EmptySet
  <2>2. total \in Nat
    <3>1. total = ScoreSums(item, approved)[approved]
      BY DEF MapThenSumSet, MapThenFoldSet, ScoreSums, Summand
    <3>2. \A i \in approved : item[i].content \in Nat
      <4>1. \A i \in Ratings : item[i] \in ItemRow
        BY <1>1 DEF TypeInv, TypeOK, Items
      <4>q. QED BY <4>1, ContentIsNat
    <3> HIDE DEF total, approved
    <3>q. QED BY <2>1, <3>1, <3>2, SumIsNat
  <2>3. cache[n].average = average
    <3>1. cache[n] = Aggregate(n, item)
      BY <1>1 DEF UndisturbedInv
    <3>2. Aggregate(n, item) = [count |-> count, average |-> average]
      BY DEF Aggregate
    <3> HIDE DEF average, count
    <3>q. QED BY <3>1, <3>2
  <2> HIDE DEF total, count, approved
  <2>4. CASE approved = {}
    BY <2>1, <2>3, <2>4 DEF total, count, approved
  <2>5. CASE approved # {}
    <3>1. count \in Nat \ {0} /\ average = (200 * total + count) \div (2 * count)
      BY <2>1, <2>5
    <3>2. average \in Nat
      <4>1. 200 * total + count \in Nat /\ 2 * count \in Nat \ {0}
        BY <2>2, <3>1
      <4> HIDE DEF average
      <4>q. QED BY <3>1, <4>1, Quotient
    <3> HIDE DEF average
    <3>3. /\ (2 * average - 1) * count <= 200 * total
          /\ 200 * total < (2 * average + 1) * count
      BY <2>2, <3>1, <3>2, NearestQuotient
    <3>q. QED BY <2>3, <2>5, <3>3 DEF total, count, approved
  <2>q. QED BY <2>4, <2>5
<1>2. TypeInv /\ UndisturbedInv => AverageIsNearest
  BY <1>1 DEF AverageIsNearest
<1>3. FeedbackInv /\ TypeInv /\ [Next]_vars => TypeInv'
  BY TypedStep
<1>q. QED BY <1>2, <1>3, TypedInit, UndisturbedInvHolds, PTL DEF Spec
=============================================================================
