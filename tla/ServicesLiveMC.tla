--------------------------- MODULE ServicesLiveMC ---------------------------
(***************************************************************************)
(* What must eventually happen, side by side in one run: each behaviour    *)
(* works on the service that "service" names.  The fairness of each is     *)
(* the one its module states.                                              *)
(***************************************************************************)
EXTENDS SessionClient, Search, Chat

VARIABLE service    \* the service this behaviour works on

allVars == <<clientVars, searchVars, chatVars, service>>

LiveInit ==
    /\ service \in {"client", "search", "chat"}
    /\ ClientInit
    /\ service # "client" => patient
    /\ SearchInit
    /\ ChatInit
    /\ talkers = CreatorPanels

AtClient(A) ==
    service = "client" /\ A /\ UNCHANGED <<searchVars, chatVars, service>>

AtSearch(A) ==
    service = "search" /\ A /\ UNCHANGED <<clientVars, chatVars, service>>

\* What the panel that sends would poll is no concern of the properties, nor is
\* what follows once a message was committed late.
AtChat(A) ==
    /\ service = "chat"
    /\ A
    /\ Punctual
    /\ \A p \in talkers : poll'[p] = poll[p]
    /\ UNCHANGED <<clientVars, searchVars, service>>

LiveNext == AtClient(ClientNext) \/ AtSearch(SearchNext) \/ AtChat(ChatNext)

LiveSpec ==
    /\ LiveInit
    /\ [][LiveNext]_allVars
    /\ \A c \in Calls : WF_allVars(AtClient(Respond(c)))
    /\ \A h \in Handlers : WF_allVars(AtClient(Advance(h)))
    /\ WF_allVars(AtSearch(CacheExpires))
    /\ \A p \in Panels :
          /\ WF_allVars(AtChat(\E k \in PollSlots : SendPoll(p, k)))
          /\ WF_allVars(AtChat(\E k \in PollSlots : ReadPage(p, k)))
          /\ SF_allVars(AtChat(\E k \in PollSlots : ShowPage(p, k)))
=============================================================================
