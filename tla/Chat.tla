-------------------------------- MODULE Chat --------------------------------
(***************************************************************************)
(* The chat between the creator of a published Nano and one participant    *)
(* (app/modules/chat/service.py), and the panels that show it, which poll  *)
(* for messages newer than the last one they show (ChatPanel.tsx).         *)
(*                                                                         *)
(* Messages are numbered by created_at, which PostgreSQL sets to the start *)
(* of the sender's transaction.  A panel that was opened stays open.  What *)
(* the rate limiter or the content filter refuses is no step.              *)
(***************************************************************************)
EXTENDS Integers, Sequences, SequencesExt

CONSTANTS
    CreatorPanels,      \* panels the creator may open
    ParticipantPanels,  \* panels the participant may open
    PollSlots,          \* slots for polls of one panel in flight
    PageSize,           \* MESSAGE_PAGE_SIZE
    MessageBound        \* bound: messages sent

ASSUME ChatAssumption == PageSize \in Nat \ {0} /\ MessageBound \in Nat

Panels == CreatorPanels \cup ParticipantPanels

VARIABLES
    sessions,       \* the rows of chat_sessions, named by who inserted them
    panel,          \* panel[p]: the panel and its request to open
    message,        \* message[m]: the m-th message
    lastMessageAt,  \* last_message_at of the session
    poll,           \* poll[p][k]: the poll in slot k of panel p
    talkers         \* the panels messages are sent from

chatVars == <<sessions, panel, message, lastMessageAt, poll, talkers>>

-----------------------------------------------------------------------------
(* Opening a chat: create_or_get_chat_session *)

Closed == [step |-> "closed", session |-> {}, shown |-> <<>>]

Opened(row) == [Closed EXCEPT !.step = "open", !.session = {row}]

IsOpen(p) == panel[p].step = "open"

OpeningUnchanged == UNCHANGED <<message, lastMessageAt, poll, talkers>>

\* The session is found; or it is missing, and the participant goes on to
\* insert it.  The creator is refused (403) and starts again later.
LookForSession(p) ==
    /\ panel[p].step = "closed"
    /\ \/ \E row \in sessions : panel' = [panel EXCEPT ![p] = Opened(row)]
       \/ /\ sessions = {}
          /\ p \in ParticipantPanels
          /\ panel' = [panel EXCEPT ![p].step = "insert"]
    /\ UNCHANGED sessions
    /\ OpeningUnchanged

\* Variant: no unique constraint on Nano, creator and participant.
InsertSession_NotUnique(p) ==
    /\ panel[p].step = "insert"
    /\ sessions' = sessions \cup {p}
    /\ panel' = [panel EXCEPT ![p] = Opened(p)]
    /\ OpeningUnchanged

\* The INSERT, which violates the unique constraint when a row is there.
InsertSession(p) ==
    /\ panel[p].step = "insert"
    /\ IF sessions = {}
       THEN /\ sessions' = {p}
            /\ panel' = [panel EXCEPT ![p] = Opened(p)]
       ELSE /\ panel' = [panel EXCEPT ![p].step = "reselect"]
            /\ UNCHANGED sessions
    /\ OpeningUnchanged

\* After the rollback the row of the other request is selected.
ReselectSession(p) ==
    /\ panel[p].step = "reselect"
    /\ \E row \in sessions : panel' = [panel EXCEPT ![p] = Opened(row)]
    /\ UNCHANGED sessions
    /\ OpeningUnchanged

-----------------------------------------------------------------------------
(* Sending: send_message and handleSendMessage *)

\* lastMessageTimeRef: what the panel appended last, by a poll or a send.
Cursor(p) ==
    IF panel[p].shown = <<>> THEN 0 ELSE Last(panel[p].shown)

SendUnchanged == UNCHANGED <<sessions, poll, talkers>>

\* The button is disabled while the panel waits for the answer to a message.
Sending(p) == \E m \in DOMAIN message :
                 message[m].from = p /\ message[m].waiting

\* A transaction that sends begins.  Its panel may have given it up already,
\* and be waiting for another.
BeginSend(p) ==
    /\ p \in talkers
    /\ IsOpen(p)
    /\ Len(message) < MessageBound
    /\ \E waiting \in BOOLEAN :
          /\ waiting => ~Sending(p)
          /\ message' = Append(message, [from |-> p, step |-> "begun",
                                        waiting |-> waiting, late |-> FALSE])
    /\ UNCHANGED <<panel, lastMessageAt>>
    /\ SendUnchanged

\* late records that the panel had given up.
CommitMessage(m) ==
    /\ message[m].step = "begun"
    /\ message' = [message EXCEPT ![m].step = "committed",
                                  ![m].late = ~message[m].waiting]
    /\ UNCHANGED <<panel, lastMessageAt>>
    /\ SendUnchanged

\* The second commit: last_message_at becomes created_at.
StampSession(m) ==
    /\ message[m].step = "committed"
    /\ message' = [message EXCEPT ![m].step = "stamped"]
    /\ lastMessageAt' = m
    /\ UNCHANGED panel
    /\ SendUnchanged

\* The panel appends its own message and moves its cursor to it.
ShowSent(m) ==
    LET p == message[m].from IN
    /\ message[m].step = "stamped"
    /\ message[m].waiting
    /\ message' = [message EXCEPT ![m].waiting = FALSE]
    /\ panel' = [panel EXCEPT ![p].shown = Append(@, m)]
    /\ UNCHANGED lastMessageAt
    /\ SendUnchanged

\* A database error or a crash of the server: the panel shows an error.  What
\* was committed stays.
SendFails(m) ==
    /\ message[m].step \in {"begun", "committed"}
    /\ message' = [message EXCEPT
                     ![m].step = IF @ = "begun" THEN "failed" ELSE "unstamped",
                     ![m].waiting = FALSE]
    /\ UNCHANGED <<panel, lastMessageAt>>
    /\ SendUnchanged

\* The request times out at the panel, or the answer is lost: the panel shows
\* an error, and the server goes on.
GiveUp(m) ==
    /\ message[m].waiting
    /\ message' = [message EXCEPT ![m].waiting = FALSE]
    /\ UNCHANGED <<panel, lastMessageAt>>
    /\ SendUnchanged

Committed == {m \in DOMAIN message :
                message[m].step \notin {"begun", "failed"}}

-----------------------------------------------------------------------------
(* Polling: list_messages and loadMessages *)

\* A poll: none; sent with the cursor as "since"; answered with a page.
NoPoll == [step |-> "none"]

\* The at most n oldest of the messages newer, oldest first, the only
\* element of a set: ORDER BY created_at LIMIT n
Oldest(n, newer) ==
    {page \in SeqOf(newer, n) :
        /\ \A i, j \in DOMAIN page : i < j => page[i] < page[j]
        /\ \A m \in newer \ ToSet(page) :
              Len(page) = n /\ \A i \in DOMAIN page : page[i] < m}

PollUnchanged == UNCHANGED <<sessions, message, lastMessageAt, talkers>>

\* Variant: the offset is page * limit.
FirstPage_Offset(newer) ==
    {SubSeq(both, PageSize + 1, Len(both)) : both \in Oldest(2 * PageSize, newer)}

\* The first page of what is newer than the cursor
FirstPage(newer) == Oldest(PageSize, newer)

SendPoll(p, k) ==
    /\ IsOpen(p)
    /\ poll[p][k] = NoPoll
    /\ poll' = [poll EXCEPT ![p][k] = [step |-> "sent", since |-> Cursor(p)]]
    /\ UNCHANGED panel
    /\ PollUnchanged

ReadPage(p, k) ==
    /\ poll[p][k].step = "sent"
    /\ \E page \in FirstPage({m \in Committed : m > poll[p][k].since}) :
          poll' = [poll EXCEPT ![p][k] = [step |-> "read", page |-> page]]
    /\ UNCHANGED panel
    /\ PollUnchanged

\* Variant: the page is appended as it is.
Merge_All(shown, page) == shown \o page

\* What is not shown yet is appended.
Merge(shown, page) ==
    LET upTo[n \in 0 .. Len(page)] ==
          IF n = 0 THEN shown
          ELSE IF page[n] \in ToSet(shown) THEN upTo[n - 1]
          ELSE Append(upTo[n - 1], page[n])
    IN upTo[Len(page)]

ShowPage(p, k) ==
    /\ poll[p][k].step = "read"
    /\ poll' = [poll EXCEPT ![p][k] = NoPoll]
    /\ panel' = [panel EXCEPT ![p].shown = Merge(@, poll[p][k].page)]
    /\ PollUnchanged

\* Errors of a poll are silent; the next poll follows.  What fails before
\* the page is read shows no more than what fails after.
PollFails(p, k) ==
    /\ poll[p][k].step = "read"
    /\ poll' = [poll EXCEPT ![p][k] = NoPoll]
    /\ UNCHANGED panel
    /\ PollUnchanged

-----------------------------------------------------------------------------
ChatInit ==
    /\ sessions = {}
    /\ panel = [p \in Panels |-> Closed]
    /\ message = <<>>
    /\ lastMessageAt = 0
    /\ poll = [p \in Panels |-> [k \in PollSlots |-> NoPoll]]
    /\ talkers \in SUBSET Panels \ {{}}

ChatNext ==
    \/ \E p \in Panels :
          \/ LookForSession(p)
          \/ InsertSession(p)
          \/ ReselectSession(p)
          \/ BeginSend(p)
          \/ \E k \in PollSlots : \/ SendPoll(p, k)
                                 \/ ReadPage(p, k)
                                 \/ ShowPage(p, k)
                                 \/ PollFails(p, k)
    \/ \E m \in DOMAIN message :
          \/ CommitMessage(m)
          \/ StampSession(m)
          \/ ShowSent(m)
          \/ SendFails(m)
          \/ GiveUp(m)

\* Panels poll every three seconds, and not every poll fails.
ChatSpec ==
    /\ ChatInit
    /\ [][ChatNext]_chatVars
    /\ \A p \in Panels :
          /\ WF_chatVars(\E k \in PollSlots : SendPoll(p, k))
          /\ WF_chatVars(\E k \in PollSlots : ReadPage(p, k))
          /\ SF_chatVars(\E k \in PollSlots : ShowPage(p, k))

-----------------------------------------------------------------------------
(* Properties *)

OneTalker == \E p \in Panels : talkers = {p}

\* No message was committed that its panel had given up: such a one appears
\* behind messages that were sent later, and polls may have passed it.
Punctual == \A m \in DOMAIN message : ~message[m].late

\* One session per Nano and participant: everybody who opens the chat, at
\* the same moment or later, is in the same one.
OneChatSession ==
    \A p, q \in Panels : IsOpen(p) /\ IsOpen(q) =>
        panel[p].session = panel[q].session

\* However polls overlap, a panel that only listens shows every message once,
\* and those of a single sender in the order they were sent, unless one was
\* committed late.
ShownOnce ==
    \A p \in Panels \ talkers : \A i, j \in DOMAIN panel[p].shown :
        i < j => /\ panel[p].shown[i] # panel[p].shown[j]
                 /\ OneTalker /\ Punctual =>
                       panel[p].shown[i] < panel[p].shown[j]

\* While one panel sends, and commits nothing late, every message it committed
\* reaches every other open panel, also when the sender was told of an error:
\* no page, overlapping poll, failed poll or failed send skips one.
EventuallyDelivered ==
    \A m \in 1 .. MessageBound :
        (m \in Committed /\ OneTalker)
            ~> (Punctual => \A p \in Panels \ talkers :
                               IsOpen(p) => m \in ToSet(panel[p].shown))
=============================================================================
