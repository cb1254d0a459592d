----------------------------- MODULE ChatProofs -----------------------------
(***************************************************************************)
(* One chat per Nano and participant, for any number of panels that open   *)
(* it at once; and what a panel shows, for any number of messages, of      *)
(* overlapping polls and any size of a page.                               *)
(***************************************************************************)
EXTENDS Chat, Induction

PanelShape ==
    /\ DOMAIN panel = Panels
    /\ \A p \in Panels : DOMAIN panel[p] = {"step", "session", "shown"}

\* What OneChatSession rests on: there is at most one row, it never goes
\* away, and who is in a chat is in that one.
SessionIsUnique ==
    /\ \A a, b \in sessions : a = b
    /\ \A p \in Panels : panel[p].step = "open" =>
          sessions # {} /\ panel[p].session = sessions

ChatInv == PanelShape /\ SessionIsUnique

-----------------------------------------------------------------------------
\* Initially no panel is open.
LEMMA ChatInitInv == ChatInit => ChatInv
  BY DEF ChatInit, ChatInv, PanelShape, SessionIsUnique, Closed

\* A panel that opens or goes on opening
LEMMA PanelMoves ==
    ASSUME ChatInv, NEW p \in Panels, NEW step,
           panel' = [panel EXCEPT ![p].step = step], step # "open",
           sessions' = sessions
    PROVE  ChatInv'
  BY DEF ChatInv, PanelShape, SessionIsUnique

LEMMA PanelOpens ==
    ASSUME ChatInv, NEW p \in Panels, NEW row,
           panel' = [panel EXCEPT ![p] = Opened(row)],
           sessions' = sessions, sessions = {row}
    PROVE  ChatInv'
<1>1. /\ Opened(row).session = sessions
      /\ DOMAIN Opened(row) = {"step", "session", "shown"}
  BY DEF Opened, Closed
<1>q. QED BY <1>1 DEF ChatInv, PanelShape, SessionIsUnique

\* What a panel shows has no part in it.
LEMMA PanelShows ==
    ASSUME ChatInv, NEW p, NEW shown,
           panel' = [panel EXCEPT ![p].shown = shown], sessions' = sessions
    PROVE  ChatInv'
  BY DEF ChatInv, PanelShape, SessionIsUnique

LEMMA PanelStays ==
    ASSUME ChatInv, panel' = panel, sessions' = sessions
    PROVE  ChatInv'
  BY DEF ChatInv, PanelShape, SessionIsUnique

\* The only row there is
LEMMA OnlyRow ==
    ASSUME ChatInv, NEW row \in sessions PROVE sessions = {row}
  BY DEF ChatInv, SessionIsUnique

LEMMA ChatStep ==
    ASSUME ChatInv, [ChatNext]_chatVars
    PROVE  ChatInv'
<1>1. ASSUME NEW p \in Panels, LookForSession(p) PROVE ChatInv'
  <2>1. sessions' = sessions
    BY <1>1 DEF LookForSession
  <2>2. CASE \E row \in sessions : panel' = [panel EXCEPT ![p] = Opened(row)]
    BY <2>1, <2>2, PanelOpens, OnlyRow
  <2>3. CASE panel' = [panel EXCEPT ![p].step = "insert"]
    BY <2>1, <2>3, PanelMoves
  <2>q. QED BY <1>1, <2>2, <2>3 DEF LookForSession
<1>2. ASSUME NEW p \in Panels, InsertSession(p) PROVE ChatInv'
  <2>1. CASE sessions = {}
    <3>1. /\ sessions' = {p}
          /\ panel' = [panel EXCEPT ![p] = Opened(p)]
      BY <1>2, <2>1 DEF InsertSession
    <3>2. /\ Opened(p).session = {p}
          /\ DOMAIN Opened(p) = {"step", "session", "shown"}
      BY DEF Opened, Closed
    <3>3. PanelShape'
      BY <3>1, <3>2 DEF ChatInv, PanelShape
    <3>4. ASSUME NEW q \in Panels, panel'[q].step = "open"
          PROVE  panel'[q].session = sessions'
      <4>1. CASE q = p
        BY <3>1, <3>2, <4>1 DEF ChatInv, PanelShape
      <4>2. CASE q # p
        <5>1. panel[q].step = "open" /\ panel'[q] = panel[q]
          BY <3>1, <3>4, <4>2 DEF ChatInv, PanelShape
        <5>q. QED BY <2>1, <5>1 DEF ChatInv, SessionIsUnique
      <4>q. QED BY <4>1, <4>2
    <3>q. QED BY <3>1, <3>3, <3>4 DEF ChatInv, SessionIsUnique
  <2>2. CASE sessions # {}
    <3>1. /\ panel' = [panel EXCEPT ![p].step = "reselect"]
          /\ sessions' = sessions
      BY <1>2, <2>2 DEF InsertSession
    <3>q. QED BY <3>1, PanelMoves
  <2>q. QED BY <2>1, <2>2
<1>3. ASSUME NEW p \in Panels, ReselectSession(p) PROVE ChatInv'
  BY <1>3, PanelOpens, OnlyRow DEF ReselectSession
<1>4. ASSUME NEW p \in Panels, BeginSend(p) PROVE ChatInv'
  BY <1>4, PanelStays DEF BeginSend, SendUnchanged
<1>5. ASSUME NEW p \in Panels, NEW k \in PollSlots,
             SendPoll(p, k) \/ ReadPage(p, k) \/ PollFails(p, k)
      PROVE  ChatInv'
  BY <1>5, PanelStays DEF SendPoll, ReadPage, PollFails, PollUnchanged
<1>6. ASSUME NEW p \in Panels, NEW k \in PollSlots, ShowPage(p, k)
      PROVE  ChatInv'
  BY <1>6, PanelShows DEF ShowPage, PollUnchanged
<1>7. ASSUME NEW m \in DOMAIN message,
             CommitMessage(m) \/ StampSession(m) \/ SendFails(m) \/ GiveUp(m)
      PROVE  ChatInv'
  BY <1>7, PanelStays
     DEF CommitMessage, StampSession, SendFails, GiveUp, SendUnchanged
<1>8. ASSUME NEW m \in DOMAIN message, ShowSent(m) PROVE ChatInv'
  BY <1>8, PanelShows DEF ShowSent, SendUnchanged
<1>9. CASE UNCHANGED chatVars
  BY <1>9, PanelStays DEF chatVars
<1>q. QED
  BY <1>1, <1>2, <1>3, <1>4, <1>5, <1>6, <1>7, <1>8, <1>9 DEF ChatNext

\* Everybody who has the chat open is in the same one, however many requests
\* open it at once.
THEOREM OneChatSessionHolds == ChatSpec => []OneChatSession
<1>1. ChatInv => OneChatSession
  BY DEF ChatInv, SessionIsUnique, OneChatSession, IsOpen
<1>q. QED BY ChatInitInv, ChatStep, <1>1, PTL DEF ChatSpec

-----------------------------------------------------------------------------
(* Merging a page into what is shown *)

\* f[n] is what is shown once the first n messages of the page were merged.
Merging(f, shown, page) ==
    /\ f[0] = shown
    /\ \A n \in 1 .. Len(page) :
          f[n] = IF page[n] \in ToSet(shown) THEN f[n - 1]
                 ELSE Append(f[n - 1], page[n])

LEMMA MergeIs ==
    ASSUME NEW shown, NEW page \in Seq(Nat)
    PROVE  \E f : Merging(f, shown, page) /\ Merge(shown, page) = f[Len(page)]
<1> DEFINE Body(n, f) == IF n = 0 THEN shown
                         ELSE IF page[n] \in ToSet(shown) THEN f[n - 1]
                         ELSE Append(f[n - 1], page[n])
           Reached == {b \in 0 .. Len(page) :
                         \E f : f = [n \in 0 .. b |-> Body(n, f)]}
<1>1. Len(page) \in Nat
  OBVIOUS
<1>2. 0 \in Reached
  <2> DEFINE f0 == [n \in 0 .. 0 |-> shown]
  <2>1. f0 = [n \in 0 .. 0 |-> Body(n, f0)]
    OBVIOUS
  <2>2. \E f : f = [n \in 0 .. 0 |-> Body(n, f)]
    BY <2>1
  <2> HIDE DEF Body
  <2>q. QED BY <1>1, <2>2
<1>3. ASSUME NEW b \in 0 .. Len(page), b \in Reached, b < Len(page)
      PROVE  b + 1 \in Reached
  <2>1. PICK f : f = [n \in 0 .. b |-> Body(n, f)]
    BY <1>3
  <2> DEFINE g == [n \in 0 .. b + 1 |-> Body(n, f)]
  <2>2. \A n \in 0 .. b : g[n] = f[n]
    <3> HIDE DEF Body
    <3>1. \A n \in 0 .. b : f[n] = Body(n, f)
      BY <2>1
    <3>2. \A n \in 0 .. b : n \in 0 .. b + 1
      BY <1>1
    <3>q. QED BY <3>1, <3>2
  <2>3. \A n \in 0 .. b + 1 : Body(n, g) = Body(n, f)
    <3>1. \A n \in 1 .. b + 1 : n - 1 \in 0 .. b
      BY <1>1
    <3> HIDE DEF g
    <3>q. QED BY <2>2, <3>1
  <2>4. g = [n \in 0 .. b + 1 |-> Body(n, g)]
    <3> HIDE DEF Body
    <3>q. QED BY <2>3
  <2>5. b + 1 \in 0 .. Len(page)
    BY <1>1, <1>3
  <2>6. \E h : h = [n \in 0 .. b + 1 |-> Body(n, h)]
    BY <2>4
  <2> HIDE DEF g
  <2>q. QED BY <2>5, <2>6
<1>4. Len(page) \in Reached
  <2> HIDE DEF Reached
  <2>1. 0 .. Len(page) \subseteq Reached
    BY <1>1, <1>2, <1>3, BoundedInduction
  <2>q. QED BY <1>1, <2>1
<1>5. \E f : f = [n \in 0 .. Len(page) |-> Body(n, f)]
  BY <1>4
<1> DEFINE u == CHOOSE f : f = [n \in 0 .. Len(page) |-> Body(n, f)]
<1>6. u = [n \in 0 .. Len(page) |-> Body(n, u)]
  BY <1>5
<1>7. Merge(shown, page) = u[Len(page)]
  BY DEF Merge
<1>8. Merging(u, shown, page)
  <2> HIDE DEF u
  <2>1. \A n \in 0 .. Len(page) : u[n] = Body(n, u)
    BY <1>6
  <2>q. QED BY <1>1, <2>1 DEF Merging
<1>q. QED BY <1>7, <1>8

Distinct(s) == \A i, j \in DOMAIN s : i # j => s[i] # s[j]
Increasing(s) == \A i, j \in DOMAIN s : i < j => s[i] < s[j]

LEMMA AppendIs ==
    ASSUME NEW s \in Seq(Nat), NEW x \in Nat
    PROVE  /\ Append(s, x) \in Seq(Nat)
           /\ ToSet(Append(s, x)) = ToSet(s) \cup {x}
           /\ Distinct(s) /\ x \notin ToSet(s) => Distinct(Append(s, x))
           /\ Increasing(s) /\ (\A y \in ToSet(s) : y < x)
                 => Increasing(Append(s, x))
<1> DEFINE t == Append(s, x)
<1>1. /\ t \in Seq(Nat) /\ Len(s) \in Nat /\ DOMAIN s = 1 .. Len(s)
      /\ DOMAIN t = 1 .. Len(s) + 1
      /\ t[Len(s) + 1] = x /\ \A i \in 1 .. Len(s) : t[i] = s[i]
  OBVIOUS
<1> HIDE DEF t
<1>2. ToSet(t) = ToSet(s) \cup {x}
  <2>1. \A i \in DOMAIN t : t[i] \in ToSet(s) \cup {x}
    BY <1>1 DEF ToSet
  <2>2. \A i \in DOMAIN s : i \in DOMAIN t /\ t[i] = s[i]
    BY <1>1
  <2>3. x \in ToSet(t)
    <3>1. Len(s) + 1 \in DOMAIN t
      BY <1>1
    <3>q. QED BY <1>1, <3>1 DEF ToSet
  <2>4. ToSet(s) \subseteq ToSet(t)
    BY <2>2 DEF ToSet
  <2>q. QED BY <2>1, <2>3, <2>4 DEF ToSet
<1>3. \A i \in 1 .. Len(s) : t[i] \in ToSet(s)
  BY <1>1 DEF ToSet
<1>4. Distinct(s) /\ x \notin ToSet(s) => Distinct(t)
  BY <1>1, <1>3 DEF Distinct
<1>5. Increasing(s) /\ (\A y \in ToSet(s) : y < x) => Increasing(t)
  <2> SUFFICES ASSUME Increasing(s), \A y \in ToSet(s) : y < x,
                      NEW i \in DOMAIN t, NEW j \in DOMAIN t, i < j
               PROVE  t[i] < t[j]
    BY DEF Increasing
  <2>1. i \in 1 .. Len(s) /\ (j \in 1 .. Len(s) \/ j = Len(s) + 1)
    BY <1>1
  <2>2. CASE j \in 1 .. Len(s)
    BY <1>1, <2>1, <2>2 DEF Increasing
  <2>3. CASE j = Len(s) + 1
    BY <1>1, <1>3, <2>1, <2>3
  <2>q. QED BY <2>1, <2>2, <2>3
<1>q. QED BY <1>1, <1>2, <1>4, <1>5 DEF t

\* What merging a page preserves.
LEMMA MergeKeeps ==
    ASSUME NEW shown \in Seq(Nat), NEW page \in Seq(Nat), Distinct(page)
    PROVE  /\ Merge(shown, page) \in Seq(Nat)
           /\ ToSet(Merge(shown, page)) = ToSet(shown) \cup ToSet(page)
           /\ Distinct(shown) => Distinct(Merge(shown, page))
           /\ /\ Increasing(shown) /\ Increasing(page)
              /\ \A x \in ToSet(page) \ ToSet(shown), y \in ToSet(shown) : y < x
              => Increasing(Merge(shown, page))
<1> DEFINE Upto(n) == {page[k] : k \in 1 .. n}
           Ordered == /\ Increasing(shown) /\ Increasing(page)
                      /\ \A x \in ToSet(page) \ ToSet(shown), y \in ToSet(shown) :
                            y < x
<1>1. PICK f : Merging(f, shown, page) /\ Merge(shown, page) = f[Len(page)]
  BY MergeIs
<1>2. /\ Len(page) \in Nat /\ DOMAIN page = 1 .. Len(page)
      /\ \A k \in 1 .. Len(page) : page[k] \in Nat /\ page[k] \in ToSet(page)
  BY DEF ToSet
<1> DEFINE Kept(n) == /\ f[n] \in Seq(Nat)
                      /\ ToSet(f[n]) = ToSet(shown) \cup Upto(n)
                      /\ Distinct(shown) => Distinct(f[n])
                      /\ Ordered => Increasing(f[n])
           S == {n \in 0 .. Len(page) : Kept(n)}
<1>3. 0 \in S
  <2>1. f[0] = shown
    BY <1>1 DEF Merging
  <2>2. Upto(0) = {}
    OBVIOUS
  <2>q. QED BY <1>2, <2>1, <2>2
<1>4. ASSUME NEW n \in 0 .. Len(page), n \in S, n < Len(page)
      PROVE  n + 1 \in S
  <2> DEFINE x == page[n + 1]
  <2>1. /\ n + 1 \in 1 .. Len(page) /\ (n + 1) - 1 = n /\ x \in Nat
        /\ x \in ToSet(page) /\ n + 1 \in 0 .. Len(page)
    BY <1>2, <1>4
  <2>2. f[n + 1] = IF x \in ToSet(shown) THEN f[n] ELSE Append(f[n], x)
    BY <1>1, <2>1 DEF Merging
  <2>3. Upto(n + 1) = Upto(n) \cup {x}
    BY <2>1
  <2>0. \A k \in 1 .. n : k \in DOMAIN page /\ k # n + 1 /\ k < n + 1
    BY <1>2, <2>1
  <2>4. \A k \in 1 .. n : page[k] # x
    BY <1>2, <2>0, <2>1 DEF Distinct
  <2>5. Ordered => \A k \in 1 .. n : page[k] < x
    BY <1>2, <2>0, <2>1 DEF Increasing
  <2>6. Kept(n)
    BY <1>4
  <2> HIDE DEF x
  <2>7. CASE x \in ToSet(shown)
    BY <2>1, <2>2, <2>3, <2>6, <2>7
  <2>8. CASE x \notin ToSet(shown)
    <3>1. f[n + 1] = Append(f[n], x)
      BY <2>2, <2>8
    <3>2. x \notin ToSet(f[n])
      BY <2>4, <2>6, <2>8
    <3>3. Ordered => \A y \in ToSet(f[n]) : y < x
      BY <2>1, <2>5, <2>6, <2>8
    <3> HIDE DEF Ordered, Upto
    <3>4. Kept(n + 1)
      BY <2>1, <2>3, <2>6, <3>1, <3>2, <3>3, AppendIs
    <3>q. QED BY <2>1, <3>4
  <2>q. QED BY <2>7, <2>8
<1>5. Kept(Len(page))
  <2> HIDE DEF S
  <2>1. 0 .. Len(page) \subseteq S
    BY <1>2, <1>3, <1>4, BoundedInduction
  <2>2. Len(page) \in S
    BY <1>2, <2>1
  <2>q. QED BY <2>2 DEF S
<1>6. Upto(Len(page)) = ToSet(page)
  BY <1>2 DEF ToSet
<1>q. QED BY <1>1, <1>5, <1>6

LEMMA OldestIs ==
    ASSUME NEW n \in Nat, NEW newer \in SUBSET Nat, NEW page \in Oldest(n, newer)
    PROVE  /\ page \in Seq(Nat) /\ ToSet(page) \subseteq newer
           /\ Increasing(page) /\ Distinct(page)
           /\ \A m \in newer, x \in ToSet(page) : m <= x => m \in ToSet(page)
<1>1. PICK k \in 0 .. n : page \in [1 .. k -> newer]
  BY DEF Oldest, SeqOf
<1>2. page \in Seq(Nat) /\ DOMAIN page = 1 .. k /\ k \in Nat
  <2>1. k \in Nat /\ newer \subseteq Nat
    BY <1>1
  <2>2. page \in [1 .. k -> Nat]
    BY <1>1, <2>1
  <2>q. QED BY <2>1, <2>2
<1>3. \A i, j \in DOMAIN page : i < j => page[i] < page[j]
  BY DEF Oldest
<1>4. \A i \in DOMAIN page : page[i] \in newer /\ page[i] \in Nat
  BY <1>1
<1>5. Distinct(page)
  BY <1>2, <1>3, <1>4 DEF Distinct
<1>6. \A m \in newer \ ToSet(page), i \in DOMAIN page : page[i] < m
  BY DEF Oldest
<1>q. QED BY <1>2, <1>3, <1>4, <1>5, <1>6 DEF Increasing, ToSet

-----------------------------------------------------------------------------
(* What a panel that listens shows: an initial part of what was committed, *)
(* without gaps.                                                           *)

MessageSteps == {"begun", "committed", "stamped", "unstamped", "failed"}

Rows ==
    {row \in [from : talkers, step : MessageSteps, waiting : BOOLEAN,
              late : BOOLEAN] : row.step = "begun" => ~row.late}

\* The messages are those of the talkers.
MessagesSound ==
    /\ message \in Seq(Rows)
    /\ talkers \subseteq Panels

\* What any panel shows
ShownSound ==
    \A p \in Panels :
        /\ panel[p].shown \in Seq(Nat)
        /\ p \notin talkers =>
              /\ Distinct(panel[p].shown)
              /\ ~IsOpen(p) => panel[p].shown = << >>

\* The polls in flight
PollSound(q) ==
    /\ q.step = "sent" => q.since \in Nat
    /\ q.step = "read" => q.page \in Seq(Nat) /\ Distinct(q.page)

PollsSound ==
    /\ DOMAIN poll = Panels
    /\ \A p \in Panels :
          /\ DOMAIN poll[p] = PollSlots
          /\ \A k \in PollSlots :
                /\ poll[p][k] # NoPoll => IsOpen(p)
                /\ PollSound(poll[p][k])

\* A single sender waits for one message at a time.  What began after that one
\* was given up, and is not committed.
OneAtATime ==
    \A m, n \in DOMAIN message :
        message[m].waiting /\ m < n => ~message[n].waiting /\ n \notin Committed

\* Committed messages without gaps: with each all that were committed before
\* it, unless they are shown.
NoGap(set, shown) ==
    /\ set \subseteq Committed
    /\ \A m \in Committed, x \in set : m <= x => m \in set \cup shown

\* The poll q of a panel that shows the messages shown misses none.
PollFollows(q, shown) ==
    /\ q.step = "sent" =>
          /\ q.since \in Committed \cup {0}
          /\ \A m \in Committed : m <= q.since => m \in shown
    /\ q.step = "read" => Increasing(q.page) /\ NoGap(ToSet(q.page), shown)

\* A panel that listens shows all messages up to some, in their order.
Follows(p) ==
    /\ Increasing(panel[p].shown)
    /\ NoGap(ToSet(panel[p].shown), {})
    /\ \A k \in PollSlots : PollFollows(poll[p][k], ToSet(panel[p].shown))

OneTalkerInv ==
    OneTalker /\ Punctual =>
        OneAtATime /\ \A p \in Panels \ talkers : Follows(p)

ShownInv ==
    ChatInv /\ MessagesSound /\ ShownSound /\ PollsSound /\ OneTalkerInv

LEMMA ShownInit == ChatInit => ShownInv
<1> SUFFICES ASSUME ChatInit PROVE ShownInv
  OBVIOUS
<1>1. ChatInv
  BY ChatInitInv
<1>2. /\ message = << >> /\ talkers \subseteq Panels
      /\ DOMAIN poll = Panels
      /\ \A p \in Panels : /\ panel[p].shown = << >>
                           /\ DOMAIN poll[p] = PollSlots
                           /\ \A k \in PollSlots : poll[p][k] = NoPoll
  BY DEF ChatInit, Closed
<1>3. DOMAIN << >> = {} /\ << >> \in Seq(Nat) /\ ToSet(<< >>) = {}
  BY DEF ToSet
<1>4. MessagesSound
  <2>1. << >> \in Seq(Rows)
    OBVIOUS
  <2>q. QED BY <1>2, <2>1 DEF MessagesSound
<1>5. ShownSound
  BY <1>2, <1>3 DEF ShownSound, Distinct
<1>6. NoPoll.step = "none"
  BY DEF NoPoll
<1>7. PollsSound
  BY <1>2, <1>6 DEF PollsSound, PollSound
<1>8. OneAtATime
  BY <1>2, <1>3 DEF OneAtATime
<1>9. \A p \in Panels : Follows(p)
  BY <1>2, <1>3, <1>6 DEF Follows, Increasing, NoGap, PollFollows
<1>q. QED BY <1>1, <1>4, <1>5, <1>7, <1>8, <1>9 DEF ShownInv, OneTalkerInv

-----------------------------------------------------------------------------
(* Messages *)

\* What is committed is newer than what was committed before.
Grows ==
    /\ Committed \subseteq Committed'
    /\ Committed' \subseteq Nat
    /\ \A m \in Committed' \ Committed, x \in Committed \cup {0} : x < m

\* What happens to message m after it began
Proceeds(m) ==
    CommitMessage(m) \/ StampSession(m) \/ ShowSent(m) \/ SendFails(m) \/ GiveUp(m)

IsCommitted(row) == row.step \notin {"begun", "failed"}

LEMMA RowIs ==
    ASSUME MessagesSound, NEW m \in DOMAIN message
    PROVE  /\ message[m] \in Rows
           /\ message[m].from \in talkers /\ message[m].from \in Panels
           /\ message[m].waiting \in BOOLEAN /\ message[m].late \in BOOLEAN
           /\ m \in Nat /\ m # 0
<1>1. message \in Seq(Rows)
  BY DEF MessagesSound
<1>2. message[m] \in Rows /\ m \in Nat /\ m # 0
  BY <1>1
<1>q. QED BY <1>2 DEF MessagesSound, Rows

\* The panel stops waiting but never starts again, what is committed stays so
\* and was waited for or is late, and what is late stays so.
LEMMA RowProceeds ==
    ASSUME MessagesSound, NEW m \in DOMAIN message, Proceeds(m)
    PROVE  \E row \in Rows :
              /\ message' = [message EXCEPT ![m] = row]
              /\ row.waiting => message[m].waiting
              /\ message[m].late => row.late
              /\ IsCommitted(message[m]) => IsCommitted(row)
              /\ IsCommitted(row) =>
                    IsCommitted(message[m]) \/ message[m].waiting \/ row.late
<1> DEFINE old == message[m]
<1>1. old \in Rows /\ old.waiting \in BOOLEAN /\ old.late \in BOOLEAN
  BY RowIs
<1>2. CASE CommitMessage(m)
  <2> DEFINE row == [old EXCEPT !.step = "committed", !.late = ~old.waiting]
  <2>1. message' = [message EXCEPT ![m] = row] /\ old.step = "begun"
    BY <1>2 DEF CommitMessage
  <2>2. ~old.late
    BY <1>1, <2>1 DEF Rows
  <2> HIDE DEF old
  <2>3. (~old.waiting) \in BOOLEAN
    BY <1>1
  <2>4. /\ row \in Rows /\ row.waiting = old.waiting
        /\ row.late = ~old.waiting /\ row.step = "committed"
    BY <1>1, <2>3 DEF Rows, MessageSteps
  <2> HIDE DEF row
  <2>q. QED BY <1>1, <2>1, <2>2, <2>4 DEF IsCommitted, old
<1>3. CASE StampSession(m)
  <2> DEFINE row == [old EXCEPT !.step = "stamped"]
  <2>1. message' = [message EXCEPT ![m] = row] /\ old.step = "committed"
    BY <1>3 DEF StampSession
  <2> HIDE DEF old
  <2>3. row \in Rows /\ row.waiting = old.waiting /\ row.late = old.late
        /\ row.step = "stamped"
    BY <1>1 DEF Rows, MessageSteps
  <2> HIDE DEF row
  <2>q. QED BY <2>1, <2>3 DEF IsCommitted, old
<1>4. CASE ShowSent(m) \/ GiveUp(m)
  <2> DEFINE row == [old EXCEPT !.waiting = FALSE]
  <2>1. message' = [message EXCEPT ![m] = row]
    BY <1>4 DEF ShowSent, GiveUp
  <2> HIDE DEF old
  <2>3. row \in Rows /\ row.waiting = FALSE /\ row.late = old.late
        /\ row.step = old.step
    BY <1>1 DEF Rows
  <2> HIDE DEF row
  <2>q. QED BY <2>1, <2>3 DEF IsCommitted, old
<1>5. CASE SendFails(m)
  <2> DEFINE step == IF old.step = "begun" THEN "failed" ELSE "unstamped"
             row == [old EXCEPT !.step = step, !.waiting = FALSE]
  <2>1. message' = [message EXCEPT ![m] = row] /\ old.step \in {"begun", "committed"}
    BY <1>5 DEF SendFails
  <2> HIDE DEF old
  <2>2. step \in MessageSteps \ {"begun"}
    BY DEF MessageSteps
  <2>3. row \in Rows /\ row.waiting = FALSE /\ row.late = old.late
        /\ row.step = step
    <3> HIDE DEF step
    <3>q. QED BY <1>1, <2>2 DEF Rows
  <2> HIDE DEF row
  <2>q. QED BY <2>1, <2>3 DEF IsCommitted, old
<1>q. QED BY <1>2, <1>3, <1>4, <1>5 DEF Proceeds

LEMMA MessageMoves ==
    ASSUME MessagesSound, NEW m \in DOMAIN message, NEW row \in Rows,
           message' = [message EXCEPT ![m] = row], talkers' = talkers
    PROVE  /\ MessagesSound'
           /\ DOMAIN message' = DOMAIN message
           /\ \A n \in DOMAIN message :
                 message'[n] = IF n = m THEN row ELSE message[n]
<1>1. /\ message \in [1 .. Len(message) -> Rows] /\ Len(message) \in Nat
      /\ DOMAIN message = 1 .. Len(message)
  BY DEF MessagesSound
<1>2. message' \in [1 .. Len(message) -> Rows]
  BY <1>1
<1>3. message' \in Seq(Rows) /\ Rows' = Rows
  BY <1>1, <1>2 DEF Rows
<1>q. QED BY <1>1, <1>2, <1>3 DEF MessagesSound

LEMMA MessageBegins ==
    ASSUME MessagesSound, NEW p \in talkers, talkers' = talkers, BeginSend(p)
    PROVE  /\ MessagesSound'
           /\ Len(message) \in Nat
           /\ DOMAIN message = 1 .. Len(message)
           /\ DOMAIN message' = 1 .. Len(message) + 1
           /\ LET new == message'[Len(message) + 1]
              IN  /\ ~IsCommitted(new) /\ ~new.late
                  /\ new.waiting => ~Sending(p)
           /\ \A n \in DOMAIN message : message'[n] = message[n]
<1>1. message \in Seq(Rows)
  BY DEF MessagesSound
<1>2. PICK waiting \in BOOLEAN :
         /\ waiting => ~Sending(p)
         /\ message' = Append(message, [from |-> p, step |-> "begun",
                                        waiting |-> waiting, late |-> FALSE])
  BY DEF BeginSend
<1> DEFINE new == [from |-> p, step |-> "begun", waiting |-> waiting, late |-> FALSE]
<1>3. /\ new \in Rows /\ ~IsCommitted(new) /\ ~new.late
      /\ new.waiting => ~Sending(p)
  BY <1>2 DEF MessageSteps, Rows, IsCommitted
<1>4. message' = Append(message, new)
  BY <1>2
<1> HIDE DEF new
<1>5. message' \in Seq(Rows) /\ Rows' = Rows
  <2>1. message' \in Seq(Rows)
    BY <1>1, <1>3, <1>4
  <2>q. QED BY <2>1 DEF Rows
<1>6. MessagesSound'
  BY <1>5 DEF MessagesSound
<1>q. QED BY <1>1, <1>3, <1>4, <1>6

\* The steps of messages: what is late stays so, and while a single sender
\* commits nothing late, what is committed is newer than all before.
LEMMA MessageGrows ==
    ASSUME MessagesSound, talkers' = talkers,
           (\E p \in Panels : BeginSend(p)) \/ (\E m \in DOMAIN message : Proceeds(m))
    PROVE  /\ MessagesSound'
           /\ Punctual' => Punctual
           /\ OneAtATime /\ OneTalker /\ Punctual' => OneAtATime' /\ Grows
<1>0. Len(message) \in Nat /\ DOMAIN message = 1 .. Len(message)
  BY DEF MessagesSound
<1>c. Committed = {m \in DOMAIN message : IsCommitted(message[m])}
  BY DEF Committed, IsCommitted
<1>1. ASSUME NEW p \in Panels, BeginSend(p)
      PROVE  /\ MessagesSound'
             /\ Punctual' => Punctual
             /\ OneAtATime /\ OneTalker => OneAtATime' /\ Grows
  <2> DEFINE new == Len(message) + 1
  <2>1. /\ p \in talkers /\ MessagesSound'
        /\ DOMAIN message' = 1 .. Len(message) + 1
        /\ ~IsCommitted(message'[new]) /\ ~message'[new].late
        /\ message'[new].waiting => ~Sending(p)
        /\ \A n \in DOMAIN message : message'[n] = message[n]
    BY <1>1, MessageBegins DEF BeginSend
  <2>2. /\ DOMAIN message' = DOMAIN message \cup {new}
        /\ \A n \in DOMAIN message : n \in Nat /\ n < new
        /\ new \in Nat
    BY <1>0, <2>1
  <2> HIDE DEF new
  <2>3. Punctual' => Punctual
    BY <2>1, <2>2 DEF Punctual
  <2>4. Committed' = Committed
    <3>1. Committed' = {m \in DOMAIN message' : IsCommitted(message'[m])}
      BY DEF Committed, IsCommitted
    <3>q. QED BY <1>c, <2>1, <2>2, <3>1
  <2>5. Grows
    BY <1>0, <2>4 DEF Grows, Committed
  <2>6. ASSUME OneAtATime, OneTalker PROVE OneAtATime'
    <3>1. ASSUME NEW m \in DOMAIN message PROVE message[m].from = p
      <4>1. message[m].from \in talkers
        BY RowIs
      <4>q. QED BY <2>1, <2>6, <4>1 DEF OneTalker
    <3>2. \A m \in DOMAIN message :
             message[m].waiting => ~message'[new].waiting
      BY <2>1, <3>1 DEF Sending
    <3>3. new \notin Committed
      BY <2>1, <2>4 DEF Committed, IsCommitted
    <3>4. ASSUME NEW m \in DOMAIN message', NEW n \in DOMAIN message',
                 message'[m].waiting, m < n
          PROVE  ~message'[n].waiting /\ n \notin Committed
      <4>1. m \in DOMAIN message
        <5>1. ~(new < new) /\ \A k \in DOMAIN message : ~(new < k)
          BY <2>2
        <5>q. QED BY <2>2, <3>4, <5>1
      <4>2. CASE n \in DOMAIN message
        BY <2>1, <2>6, <3>4, <4>1, <4>2 DEF OneAtATime
      <4>3. CASE n = new
        BY <2>1, <3>2, <3>3, <3>4, <4>1, <4>3
      <4>q. QED BY <2>2, <4>2, <4>3
    <3>q. QED BY <2>4, <3>4 DEF OneAtATime
  <2>q. QED BY <2>1, <2>3, <2>5, <2>6
<1>2. ASSUME NEW m \in DOMAIN message, Proceeds(m)
      PROVE  /\ MessagesSound'
             /\ Punctual' => Punctual
             /\ OneAtATime /\ OneTalker /\ Punctual' => OneAtATime' /\ Grows
  <2>1. PICK row \in Rows :
           /\ message' = [message EXCEPT ![m] = row]
           /\ row.waiting => message[m].waiting
           /\ message[m].late => row.late
           /\ IsCommitted(message[m]) => IsCommitted(row)
           /\ IsCommitted(row) =>
                 IsCommitted(message[m]) \/ message[m].waiting \/ row.late
    BY <1>2, RowProceeds
  <2>2. /\ MessagesSound' /\ DOMAIN message' = DOMAIN message
        /\ \A n \in DOMAIN message :
              message'[n] = IF n = m THEN row ELSE message[n]
    BY <2>1, MessageMoves
  <2>3. Punctual' => Punctual
    BY <2>1, <2>2 DEF Punctual
  <2>4. /\ Committed \subseteq Committed' /\ Committed' \subseteq Committed \cup {m}
        /\ m \in Committed' => m \in Committed \/ message[m].waiting \/ row.late
    <3>1. Committed' = {n \in DOMAIN message' : IsCommitted(message'[n])}
      BY DEF Committed, IsCommitted
    <3>q. QED BY <1>c, <2>1, <2>2, <3>1
  <2>5. ASSUME OneAtATime, OneTalker, Punctual'
        PROVE  OneAtATime' /\ Grows
    <3>1. ~row.late
      BY <2>2, <2>5 DEF Punctual
    <3>2. Committed \subseteq 1 .. Len(message) /\ m \in 1 .. Len(message)
      BY <1>0 DEF Committed
    <3>3. m \in Committed' \ Committed => \A x \in Committed : ~(m < x)
      BY <2>4, <2>5, <3>1, <3>2, <1>0 DEF OneAtATime
    <3>4. Grows
      <4>1. ASSUME NEW n \in Committed' \ Committed, NEW x \in Committed \cup {0}
            PROVE  x < n
        <5>1. n = m /\ x # n
          BY <2>4, <3>2
        <5>2. CASE x = 0
          BY <3>2, <5>1, <5>2
        <5>3. CASE x \in Committed
          <6>1. ~(m < x) /\ x \in Nat /\ m \in Nat
            BY <1>0, <3>2, <3>3, <5>1, <5>3
          <6>q. QED BY <5>1, <6>1
        <5>q. QED BY <5>2, <5>3
      <4>2. Committed' \subseteq Nat
        BY <1>0, <2>4, <3>2
      <4>q. QED BY <2>4, <4>1, <4>2 DEF Grows
    <3>5. ASSUME NEW k \in DOMAIN message', NEW n \in DOMAIN message',
                 message'[k].waiting, k < n
          PROVE  ~message'[n].waiting /\ n \notin Committed'
      <4>1. message[k].waiting /\ k \in DOMAIN message /\ n \in DOMAIN message
        BY <2>1, <2>2, <3>5
      <4>2. ~message[n].waiting /\ n \notin Committed
        BY <2>5, <3>5, <4>1 DEF OneAtATime
      <4>3. ~message'[n].waiting
        BY <2>1, <2>2, <4>1, <4>2
      <4>4. n \notin Committed'
        BY <2>4, <3>1, <4>2
      <4>q. QED BY <4>3, <4>4
    <3>q. QED BY <3>4, <3>5 DEF OneAtATime
  <2>q. QED BY <2>2, <2>3, <2>5
<1>q. QED BY <1>1, <1>2

\* What a panel showed remains without gaps.
LEMMA FollowsOn ==
    ASSUME NEW p \in Panels, Follows(p), Grows,
           panel'[p].shown = panel[p].shown, poll'[p] = poll[p]
    PROVE  Follows(p)'
<1> DEFINE shown == ToSet(panel[p].shown)
<1>0. /\ Committed \subseteq Committed'
      /\ \A m \in Committed' \ Committed, x \in Committed \cup {0} : ~(m <= x)
  BY DEF Grows
<1>1. ASSUME NEW set, NEW s, NoGap(set, s)
      PROVE  /\ set \subseteq Committed'
             /\ \A m \in Committed', x \in set : m <= x => m \in set \cup s
  BY <1>0, <1>1 DEF NoGap
<1>2. shown' = shown
  OBVIOUS
<1>3. NoGap(ToSet(panel[p].shown), {})'
  BY <1>1 DEF NoGap, Follows
<1>4. ASSUME NEW k \in PollSlots
      PROVE  PollFollows(poll[p][k], ToSet(panel[p].shown))'
  <2>1. PollFollows(poll[p][k], shown) /\ poll'[p][k] = poll[p][k]
    BY DEF Follows
  <2>2. poll[p][k].step = "sent" =>
          /\ poll[p][k].since \in Committed' \cup {0}
          /\ \A m \in Committed' : m <= poll[p][k].since => m \in shown
    BY <1>0, <2>1 DEF PollFollows
  <2>3. poll[p][k].step = "read" =>
           /\ Increasing(poll[p][k].page)
           /\ NoGap(ToSet(poll[p][k].page), shown)
    BY <2>1 DEF PollFollows
  <2>q. QED BY <1>1, <1>2, <2>1, <2>2, <2>3 DEF PollFollows, NoGap
<1>q. QED BY <1>3, <1>4 DEF Follows

LEMMA CommittedIs ==
    ASSUME MessagesSound PROVE \A m \in Committed : m \in Nat /\ m # 0
  BY RowIs DEF Committed

-----------------------------------------------------------------------------
(* Panels and polls *)

\* A step that shows the listeners nothing and touches no poll.
LEMMA NothingShown ==
    ASSUME ShownInv, ChatInv', MessagesSound', UNCHANGED <<poll, talkers>>,
           Punctual' => Punctual,
           OneAtATime /\ OneTalker /\ Punctual' => OneAtATime' /\ Grows,
           \A p \in Panels :
              /\ panel'[p].shown \in Seq(Nat)
              /\ IsOpen(p) => IsOpen(p)'
              /\ p \notin talkers => panel'[p].shown = panel[p].shown
    PROVE  ShownInv'
<1>1. ShownSound'
  BY DEF ShownInv, ShownSound, Distinct
<1>2. PollsSound'
  BY DEF ShownInv, PollsSound
<1>3. OneTalkerInv'
  <2> SUFFICES ASSUME OneTalker', Punctual'
               PROVE  OneAtATime' /\ \A p \in Panels \ talkers : Follows(p)'
    BY DEF OneTalkerInv
  <2>1. OneTalker /\ Punctual
    BY DEF OneTalker
  <2>q. QED BY <2>1, FollowsOn DEF ShownInv, OneTalkerInv
<1>q. QED BY <1>1, <1>2, <1>3 DEF ShownInv

\* A poll goes on.
LEMMA PollMoves ==
    ASSUME ShownInv, ChatInv', NEW p \in Panels, NEW k \in PollSlots, NEW new,
           poll' = [poll EXCEPT ![p][k] = new], UNCHANGED <<panel, message, talkers>>,
           IsOpen(p), PollSound(new),
           OneTalker /\ Punctual /\ p \notin talkers => PollFollows(new, ToSet(panel[p].shown))
    PROVE  ShownInv'
<1>1. MessagesSound' /\ ShownSound' /\ (OneAtATime => OneAtATime')
      /\ Committed' = Committed /\ (\A q \in Panels : IsOpen(q)' <=> IsOpen(q))
      /\ (Punctual' <=> Punctual)
  BY DEF ShownInv, MessagesSound, Rows, ShownSound, OneAtATime, Committed, IsOpen,
         Distinct, Punctual
<1>2. /\ DOMAIN poll' = Panels
      /\ \A q \in Panels : /\ DOMAIN poll'[q] = PollSlots
                           /\ \A l \in PollSlots :
                                 poll'[q][l] = IF q = p /\ l = k THEN new
                                               ELSE poll[q][l]
  BY DEF ShownInv, PollsSound
<1>3. PollsSound'
  BY <1>1, <1>2 DEF ShownInv, PollsSound, PollSound, Distinct
<1>4. ASSUME OneTalker, Punctual, NEW q \in Panels \ talkers
      PROVE  Follows(q)'
  <2>1. Follows(q) /\ (q = p => PollFollows(new, ToSet(panel[p].shown)))
    BY <1>4 DEF ShownInv, OneTalkerInv
  <2>2. \A set, t : NoGap(set, t)' <=> NoGap(set, t)
    BY <1>1 DEF NoGap
  <2>3. \A l \in PollSlots : PollFollows(poll'[q][l], ToSet(panel[q].shown))
    BY <1>2, <2>1 DEF Follows
  <2>4. \A x, t : PollFollows(x, t)' <=> PollFollows(x, t)
    BY <1>1, <2>2 DEF PollFollows
  <2>q. QED BY <2>1, <2>2, <2>3, <2>4 DEF Follows
<1>q. QED BY <1>1, <1>3, <1>4 DEF ShownInv, OneTalkerInv, OneTalker

\* A page is shown.
LEMMA PageShown ==
    ASSUME ShownInv, ChatInv', NEW p \in Panels, NEW k \in PollSlots, ShowPage(p, k)
    PROVE  ShownInv'
<1> DEFINE page == poll[p][k].page
           shown == panel[p].shown
<1>1. /\ poll[p][k].step = "read"
      /\ poll' = [poll EXCEPT ![p][k] = NoPoll]
      /\ panel' = [panel EXCEPT ![p].shown = Merge(shown, page)]
      /\ UNCHANGED <<sessions, message, talkers>>
  BY DEF ShowPage, PollUnchanged
<1>2. /\ page \in Seq(Nat) /\ Distinct(page) /\ shown \in Seq(Nat) /\ IsOpen(p)
      /\ p \notin talkers => Distinct(shown)
  <2>1. PollSound(poll[p][k]) /\ (poll[p][k] # NoPoll => IsOpen(p))
    BY DEF ShownInv, PollsSound
  <2>2. poll[p][k] # NoPoll
    BY <1>1 DEF NoPoll
  <2>q. QED BY <1>1, <2>1, <2>2 DEF PollSound, ShownInv, ShownSound
<1>3. /\ Merge(shown, page) \in Seq(Nat)
      /\ ToSet(Merge(shown, page)) = ToSet(shown) \cup ToSet(page)
      /\ p \notin talkers => Distinct(Merge(shown, page))
      /\ /\ Increasing(shown) /\ Increasing(page)
         /\ \A x \in ToSet(page) \ ToSet(shown), y \in ToSet(shown) : y < x
         => Increasing(Merge(shown, page))
  <2> HIDE DEF page, shown
  <2>q. QED BY <1>2, MergeKeeps
<1> DEFINE merged == Merge(shown, page)
<1>4. /\ panel'[p].shown = merged
      /\ \A q \in Panels : /\ IsOpen(q)' <=> IsOpen(q)
                           /\ q # p => panel'[q] = panel[q]
  BY <1>1 DEF ShownInv, ChatInv, PanelShape, IsOpen
<1>5. /\ DOMAIN poll' = Panels
      /\ \A q \in Panels : /\ DOMAIN poll'[q] = PollSlots
                           /\ \A l \in PollSlots :
                                 poll'[q][l] = IF q = p /\ l = k THEN NoPoll
                                               ELSE poll[q][l]
  BY <1>1 DEF ShownInv, PollsSound
<1>6. NoPoll.step = "none"
  BY DEF NoPoll
<1>7. /\ MessagesSound' /\ (OneAtATime => OneAtATime') /\ Committed' = Committed
      /\ (Punctual' <=> Punctual)
  BY <1>1 DEF ShownInv, MessagesSound, Rows, OneAtATime, Committed, Punctual
<1> HIDE DEF merged
<1>8. ShownSound'
  <2>1. ASSUME NEW q \in Panels
        PROVE  /\ panel'[q].shown \in Seq(Nat)
               /\ q \notin talkers =>
                     /\ Distinct(panel'[q].shown)
                     /\ ~IsOpen(q)' => panel'[q].shown = << >>
    BY <1>2, <1>3, <1>4 DEF ShownInv, ShownSound, merged
  <2>q. QED BY <1>1, <2>1 DEF ShownSound, Distinct
<1>9. PollsSound'
  BY <1>4, <1>5, <1>6 DEF ShownInv, PollsSound, PollSound, Distinct
<1>10. ASSUME OneTalker, Punctual, NEW q \in Panels \ talkers
       PROVE  Follows(q)'
  <2>1. \A set, t : NoGap(set, t)' <=> NoGap(set, t)
    BY <1>7 DEF NoGap
  <2>2. \A x, t : PollFollows(x, t)' <=> PollFollows(x, t)
    BY <1>7, <2>1 DEF PollFollows
  <2>3. Follows(q)
    BY <1>10 DEF ShownInv, OneTalkerInv
  <2>4. CASE q # p
    <3>1. panel'[q] = panel[q] /\ \A l \in PollSlots : poll'[q][l] = poll[q][l]
      BY <1>4, <1>5, <2>4
    <3>q. QED BY <2>1, <2>2, <2>3, <3>1 DEF Follows
  <2>5. CASE q = p
    <3>1. /\ Increasing(shown) /\ NoGap(ToSet(shown), {})
          /\ Increasing(page) /\ NoGap(ToSet(page), ToSet(shown))
      BY <1>1, <2>3, <2>5 DEF Follows, PollFollows
    <3>2. Committed \subseteq Nat
      BY DEF ShownInv, MessagesSound, Committed
    <3>3. \A x \in ToSet(page) \ ToSet(shown), y \in ToSet(shown) : y < x
      <4> HIDE DEF page, shown
      <4>1. \A x \in ToSet(page), y \in ToSet(shown) :
               x \in Committed /\ y \in Committed /\ (x <= y => x \in ToSet(shown))
        BY <3>1 DEF NoGap
      <4> SUFFICES ASSUME NEW x \in ToSet(page) \ ToSet(shown),
                          NEW y \in ToSet(shown)
                   PROVE  y < x
        OBVIOUS
      <4>2. x \in Nat /\ y \in Nat /\ ~(x <= y)
        BY <3>2, <4>1
      <4>q. QED BY <4>2
    <3>4. Increasing(merged) /\ ToSet(merged) = ToSet(shown) \cup ToSet(page)
      BY <1>3, <3>1, <3>3 DEF merged
    <3>5. NoGap(ToSet(merged), {})
      <4> HIDE DEF page, shown
      <4>q. QED BY <3>1, <3>4 DEF NoGap
    <3>6. ASSUME NEW l \in PollSlots
          PROVE  PollFollows(poll'[p][l], ToSet(merged))
      <4> DEFINE b == poll[p][l]
      <4>1. PollFollows(b, ToSet(shown)) /\ (poll'[p][l] = NoPoll \/ poll'[p][l] = b)
        BY <1>5, <2>3, <2>5 DEF Follows
      <4> HIDE DEF page, shown, b
      <4>2. PollFollows(b, ToSet(merged))
        BY <3>4, <4>1 DEF PollFollows, NoGap
      <4>q. QED BY <1>6, <4>1, <4>2 DEF PollFollows
    <3>q. QED BY <1>4, <2>1, <2>2, <2>5, <3>4, <3>5, <3>6 DEF Follows
  <2>q. QED BY <2>4, <2>5
<1>q. QED BY <1>1, <1>7, <1>8, <1>9, <1>10 DEF ShownInv, OneTalkerInv, OneTalker

LEMMA ShownStep ==
    ASSUME ShownInv, [ChatNext]_chatVars
    PROVE  ShownInv'
<1>0. ChatInv' /\ MessagesSound /\ PanelShape /\ ShownSound /\ PollsSound
  BY ChatStep DEF ShownInv, ChatInv
<1>1. ASSUME NEW p \in Panels,
             LookForSession(p) \/ InsertSession(p) \/ ReselectSession(p)
      PROVE  ShownInv'
  <2>1. /\ panel[p].step # "open" /\ UNCHANGED <<message, poll, talkers>>
        /\ \/ \E row : panel' = [panel EXCEPT ![p] = Opened(row)]
           \/ \E step : panel' = [panel EXCEPT ![p].step = step]
    BY <1>1 DEF LookForSession, InsertSession, ReselectSession, OpeningUnchanged
  <2>2. \A row : Opened(row).shown = << >>
    BY DEF Opened, Closed
  <2>3. /\ panel'[p].shown \in {panel[p].shown, << >>}
        /\ \A q \in Panels : q # p => panel'[q] = panel[q]
    BY <1>0, <2>1, <2>2 DEF PanelShape
  <2>4. \A q \in Panels : /\ panel'[q].shown \in Seq(Nat)
                          /\ IsOpen(q) => IsOpen(q)'
                          /\ q \notin talkers => panel'[q].shown = panel[q].shown
    <3>1. << >> \in Seq(Nat)
      OBVIOUS
    <3>2. ~IsOpen(p) /\ panel[p].shown \in Seq(Nat)
          /\ (p \notin talkers => panel[p].shown = << >>)
      BY <1>0, <2>1 DEF ShownSound, IsOpen
    <3>3. \A q \in Panels : panel[q].shown \in Seq(Nat)
      BY <1>0 DEF ShownSound
    <3>q. QED BY <2>3, <3>1, <3>2, <3>3 DEF IsOpen
  <2>5. MessagesSound' /\ (OneAtATime => OneAtATime') /\ Grows
        /\ (Punctual' => Punctual)
    BY <1>0, <2>1 DEF MessagesSound, Rows, OneAtATime, Grows, Committed, Punctual
  <2>q. QED BY <1>0, <2>1, <2>4, <2>5, NothingShown DEF ShownInv, OneTalkerInv
<1>2. ASSUME UNCHANGED chatVars PROVE ShownInv'
  <2>1. MessagesSound' /\ (OneAtATime => OneAtATime') /\ Grows
        /\ (Punctual' => Punctual)
    BY <1>0, <1>2
       DEF chatVars, MessagesSound, Rows, OneAtATime, Grows, Committed, Punctual
  <2>2. \A q \in Panels : /\ panel'[q].shown \in Seq(Nat)
                          /\ IsOpen(q) => IsOpen(q)'
                          /\ q \notin talkers => panel'[q].shown = panel[q].shown
    BY <1>0, <1>2 DEF ShownSound, IsOpen, chatVars
  <2>q. QED BY <1>0, <1>2, <2>1, <2>2, NothingShown DEF ShownInv, OneTalkerInv, chatVars
<1>3. ASSUME \/ \E p \in Panels : BeginSend(p)
             \/ \E m \in DOMAIN message :
                   \/ CommitMessage(m) \/ StampSession(m)
                   \/ SendFails(m) \/ GiveUp(m)
      PROVE  ShownInv'
  <2>1. UNCHANGED <<panel, poll, talkers>>
    BY <1>3 DEF BeginSend, CommitMessage, StampSession, SendFails, GiveUp,
                SendUnchanged
  <2>2. /\ MessagesSound' /\ (Punctual' => Punctual)
        /\ OneAtATime /\ OneTalker /\ Punctual' => OneAtATime' /\ Grows
    BY <1>0, <1>3, <2>1, MessageGrows DEF Proceeds
  <2>4. \A q \in Panels : /\ panel'[q].shown \in Seq(Nat)
                          /\ IsOpen(q) => IsOpen(q)'
                          /\ q \notin talkers => panel'[q].shown = panel[q].shown
    BY <1>0, <2>1 DEF ShownSound, IsOpen
  <2>q. QED BY <1>0, <2>1, <2>2, <2>4, NothingShown
<1>4. ASSUME NEW m \in DOMAIN message, ShowSent(m) PROVE ShownInv'
  <2> DEFINE p == message[m].from
  <2>1. /\ UNCHANGED <<poll, talkers>>
        /\ panel' = [panel EXCEPT ![p].shown = Append(panel[p].shown, m)]
    BY <1>4 DEF ShowSent, SendUnchanged
  <2>2. /\ MessagesSound' /\ (Punctual' => Punctual)
        /\ OneAtATime /\ OneTalker /\ Punctual' => OneAtATime' /\ Grows
    BY <1>0, <1>4, <2>1, MessageGrows DEF Proceeds
  <2>4. p \in talkers /\ p \in Panels /\ m \in Nat
    BY <1>0, RowIs
  <2>5. Append(panel[p].shown, m) \in Seq(Nat)
    <3>1. panel[p].shown \in Seq(Nat)
      BY <1>0, <2>4 DEF ShownSound
    <3> HIDE DEF p
    <3>q. QED BY <2>4, <3>1
  <2>6. \A q \in Panels : /\ panel'[q].shown \in Seq(Nat)
                          /\ IsOpen(q) => IsOpen(q)'
                          /\ q \notin talkers => panel'[q].shown = panel[q].shown
    <3> HIDE DEF p
    <3>q. QED BY <1>0, <2>1, <2>4, <2>5 DEF ShownSound, IsOpen, PanelShape
  <2>q. QED BY <1>0, <2>1, <2>2, <2>6, NothingShown
<1>5. ASSUME NEW p \in Panels, NEW k \in PollSlots, SendPoll(p, k) PROVE ShownInv'
  <2> DEFINE new == [step |-> "sent", since |-> Cursor(p)]
             shown == panel[p].shown
  <2>1. /\ IsOpen(p) /\ UNCHANGED <<panel, message, talkers>>
        /\ poll' = [poll EXCEPT ![p][k] = new]
    BY <1>5 DEF SendPoll, PollUnchanged
  <2>2. shown \in Seq(Nat)
    BY <1>0 DEF ShownSound
  <2>3. Cursor(p) \in Nat /\ Cursor(p) \in ToSet(shown) \cup {0}
    <3>1. CASE shown = << >>
      BY <3>1 DEF Cursor
    <3>2. CASE shown # << >>
      <4>1. Cursor(p) = shown[Len(shown)]
        BY <3>2 DEF Cursor, Last
      <4> HIDE DEF shown
      <4>2. Len(shown) \in DOMAIN shown /\ shown[Len(shown)] \in Nat
        BY <2>2, <3>2
      <4>q. QED BY <4>1, <4>2 DEF ToSet
    <3>q. QED BY <3>1, <3>2
  <2>4. PollSound(new)
    BY <2>3 DEF PollSound
  <2>5. ASSUME OneTalker, Punctual, p \notin talkers
        PROVE  PollFollows(new, ToSet(shown))
    <3>1. NoGap(ToSet(shown), {})
      BY <2>5 DEF ShownInv, OneTalkerInv, Follows
    <3>2. \A m \in Committed : m # 0 /\ m \in Nat
      BY <1>0, CommittedIs
    <3>3. Cursor(p) \in Committed \cup {0}
      BY <2>3, <3>1 DEF NoGap
    <3>4. \A m \in Committed : m <= Cursor(p) => m \in ToSet(shown)
      BY <2>3, <3>1, <3>2 DEF NoGap
    <3>q. QED BY <3>3, <3>4 DEF PollFollows
  <2> HIDE DEF new
  <2>q. QED BY <1>0, <2>1, <2>4, <2>5, PollMoves
<1>6. ASSUME NEW p \in Panels, NEW k \in PollSlots, ReadPage(p, k) PROVE ShownInv'
  <2> DEFINE newer == {m \in Committed : m > poll[p][k].since}
             shown == ToSet(panel[p].shown)
  <2>1. PICK page \in Oldest(PageSize, newer) :
           poll' = [poll EXCEPT ![p][k] = [step |-> "read", page |-> page]]
    BY <1>6 DEF ReadPage, FirstPage
  <2>2. /\ poll[p][k].step = "sent" /\ UNCHANGED <<panel, message, talkers>>
    BY <1>6 DEF ReadPage, PollUnchanged
  <2>3. IsOpen(p) /\ poll[p][k].since \in Nat
    BY <1>0, <2>2 DEF PollsSound, PollSound, NoPoll
  <2>4. \A m \in Committed : m \in Nat
    BY <1>0, CommittedIs
  <2> DEFINE new == [step |-> "read", page |-> page]
  <2>5. /\ page \in Seq(Nat) /\ ToSet(page) \subseteq newer
        /\ Increasing(page) /\ Distinct(page)
        /\ \A m \in newer, x \in ToSet(page) : m <= x => m \in ToSet(page)
    <3>1. newer \in SUBSET Nat /\ PageSize \in Nat
      BY <2>4, ChatAssumption
    <3> HIDE DEF newer
    <3>q. QED BY <3>1, OldestIs
  <2>6. PollSound(new)
    BY <2>5 DEF PollSound
  <2>7. ASSUME OneTalker, Punctual, p \notin talkers
        PROVE  PollFollows(new, shown)
    <3>1. \A m \in Committed : m <= poll[p][k].since => m \in shown
      BY <2>2, <2>7 DEF ShownInv, OneTalkerInv, Follows, PollFollows
    <3>2. NoGap(ToSet(page), shown)
      BY <2>3, <2>4, <2>5, <3>1 DEF NoGap
    <3>q. QED BY <2>5, <3>2 DEF PollFollows
  <2> HIDE DEF new
  <2>q. QED BY <1>0, <2>1, <2>2, <2>3, <2>6, <2>7, PollMoves DEF new
<1>7. ASSUME NEW p \in Panels, NEW k \in PollSlots, PollFails(p, k) PROVE ShownInv'
  <2>1. /\ poll[p][k].step = "read" /\ UNCHANGED <<panel, message, talkers>>
        /\ poll' = [poll EXCEPT ![p][k] = NoPoll]
    BY <1>7 DEF PollFails, PollUnchanged
  <2>2. NoPoll.step = "none"
    BY DEF NoPoll
  <2>3. IsOpen(p)
    BY <1>0, <2>1, <2>2 DEF PollsSound
  <2>4. PollSound(NoPoll) /\ \A shown : PollFollows(NoPoll, shown)
    BY <2>2 DEF PollSound, PollFollows
  <2>q. QED BY <1>0, <2>1, <2>3, <2>4, PollMoves
<1>q. QED
  BY <1>0, <1>1, <1>2, <1>3, <1>4, <1>5, <1>6, <1>7, PageShown DEF ChatNext

\* A panel that listens shows nothing twice, and the messages of a single
\* sender who commits none after it was given up in order, however many polls overlap, of pages of any size.
THEOREM ShownOnceHolds == ChatSpec => []ShownOnce
<1>1. ShownInv => ShownOnce
  <2> SUFFICES ASSUME ShownInv, NEW p \in Panels \ talkers,
                      NEW i \in DOMAIN panel[p].shown,
                      NEW j \in DOMAIN panel[p].shown, i < j
               PROVE  /\ panel[p].shown[i] # panel[p].shown[j]
                      /\ OneTalker /\ Punctual =>
                            panel[p].shown[i] < panel[p].shown[j]
    BY DEF ShownOnce
  <2>1. Distinct(panel[p].shown) /\ panel[p].shown \in Seq(Nat)
    BY DEF ShownInv, ShownSound
  <2>2. i # j
    BY <2>1
  <2>3. OneTalker /\ Punctual => Increasing(panel[p].shown)
    BY DEF ShownInv, OneTalkerInv, Follows
  <2>q. QED BY <2>1, <2>2, <2>3 DEF Distinct, Increasing
<1>q. QED BY ShownInit, ShownStep, <1>1, PTL DEF ChatSpec
=============================================================================
