----------------------------- MODULE ServicesMC -----------------------------
(***************************************************************************)
(* The services around the publishing workflow, side by side in one run:   *)
(* each behaviour works on one of them, the one that "service" names, and  *)
(* leaves the others in their initial states.                              *)
(***************************************************************************)
EXTENDS Sessions, Accounts, Search, Chat, MailTransport, RateLimiter,
        UploadStorage

VARIABLE service    \* the service this behaviour works on

allVars == <<sessionVars, accountVars, searchVars, chatVars, mailVars,
             limiterVars, uploadVars, service>>

\* What is chosen initially is chosen for the service at work only.
ServicesInit ==
    /\ service \in {"sessions", "accounts", "search", "chat", "mail",
                    "limiter", "upload"}
    /\ SessionInit
    /\ service # "sessions" => ~hardship.outages /\ ~hardship.overlap
    /\ AccountsInit
    /\ SearchInit
    /\ ChatInit
    /\ service # "chat" => talkers = CreatorPanels
    /\ MailInit
    /\ service # "mail" => smtp.starttls /\ smtp.credentials
    /\ LimiterInit
    /\ UploadInit

ServicesNext ==
    \/ /\ service = "sessions"
       /\ SessionNext
       /\ UNCHANGED <<accountVars, searchVars, chatVars, mailVars, limiterVars,
                      uploadVars, service>>
    \/ /\ service = "accounts"
       /\ AccountsNext
       /\ UNCHANGED <<sessionVars, searchVars, chatVars, mailVars, limiterVars,
                      uploadVars, service>>
    \/ /\ service = "search"
       /\ SearchNext
       /\ UNCHANGED <<sessionVars, accountVars, chatVars, mailVars,
                      limiterVars, uploadVars, service>>
    \/ /\ service = "chat"
       /\ ChatNext
       /\ UNCHANGED <<sessionVars, accountVars, searchVars, mailVars,
                      limiterVars, uploadVars, service>>
    \/ /\ service = "mail"
       /\ MailNext
       /\ UNCHANGED <<sessionVars, accountVars, searchVars, chatVars,
                      limiterVars, uploadVars, service>>
    \/ /\ service = "limiter"
       /\ LimiterNext
       /\ UNCHANGED <<sessionVars, accountVars, searchVars, chatVars, mailVars,
                      uploadVars, service>>
    \/ /\ service = "upload"
       /\ UploadNext
       /\ UNCHANGED <<sessionVars, accountVars, searchVars, chatVars, mailVars,
                      limiterVars, service>>

ServicesSpec == ServicesInit /\ [][ServicesNext]_allVars

\* Slots, ids and panels of one kind are interchangeable.  The services share
\* their model values, two pairs, so that there are four permutations.
ServicesSymmetry == Permutations(Handlers) \cup Permutations(Users)
=============================================================================
