--------------------------- MODULE MailTransport ---------------------------
(***************************************************************************)
(* The delivery of one e-mail over SMTP with a bounded number of attempts  *)
(* (app/modules/mail/transport.py): the calls of an attempt, the errors    *)
(* that are tried again, and what the caller is told.                      *)
(***************************************************************************)
EXTENDS Integers

CONSTANT MailAttempts   \* max(1, smtp_retry_max_attempts)

ASSUME MailAttemptsAssumption == MailAttempts \in Nat \ {0}

VARIABLES
    smtp,       \* starttls is used; credentials are set and AUTH is offered
    delivery,   \* the attempt, its next call, and the error it met
    accepted    \* how often the server accepted the message

mailVars == <<smtp, delivery, accepted>>

\* An answer 4xx, any other error answer, a refused login (or a 535), and
\* no answer: a timeout or a lost connection.
Errors == {"4xx", "5xx", "auth", "none"}

Calling(call) == delivery.call = call

\* The next call of an attempt.
NextCall(call) ==
    CASE call = "connect" /\ smtp.starttls -> "starttls"
      [] call \in {"connect", "starttls"} /\ smtp.credentials -> "login"
      [] OTHER -> "send"

CallSucceeds ==
    /\ delivery.call \in {"connect", "starttls", "login"}
    /\ delivery' = [delivery EXCEPT !.call = NextCall(@)]
    /\ UNCHANGED <<smtp, accepted>>

\* Without a connection there is nothing to quit.
CallFails ==
    /\ delivery.call \in {"connect", "starttls", "login"}
    /\ \E error \in Errors :
          delivery' = [delivery EXCEPT
                         !.error = error,
                         !.call = IF @ = "connect" THEN "decide" ELSE "quit"]
    /\ UNCHANGED <<smtp, accepted>>

\* send_message: an error answer means the message was not accepted, no
\* answer leaves it open.
SendMessage ==
    /\ Calling("send")
    /\ \E error \in Errors \cup {"ok"} :
          /\ delivery' = [delivery EXCEPT !.error = error, !.call = "quit"]
          /\ \E taken \in {error = "ok"} \cup {error \in {"ok", "none"}} :
                accepted' = IF taken THEN accepted + 1 ELSE accepted
    /\ UNCHANGED smtp

\* quit(): its errors are swallowed.
Quit ==
    /\ Calling("quit")
    /\ delivery' = [delivery EXCEPT !.call = "decide"]
    /\ UNCHANGED <<smtp, accepted>>

\* Variant: a timeout or a lost connection is tried again, too.
IsTransient_Timeouts(error) == error \in {"4xx", "none"}

\* _is_transient_error, for what _is_auth_error left over
IsTransient(error) == error = "4xx"

\* Success, or the error that is raised.
Conclude ==
    /\ Calling("decide")
    /\ ~(IsTransient(delivery.error) /\ delivery.attempt < MailAttempts)
    /\ delivery' = [delivery EXCEPT
                      !.call = IF delivery.error = "ok" THEN "sent"
                               ELSE "failed"]
    /\ UNCHANGED <<smtp, accepted>>

\* The backoff, and the next attempt with a new connection.
TryAgain ==
    /\ Calling("decide")
    /\ IsTransient(delivery.error)
    /\ delivery.attempt < MailAttempts
    /\ delivery' = [attempt |-> delivery.attempt + 1, call |-> "connect",
                    error |-> "ok"]
    /\ UNCHANGED <<smtp, accepted>>

MailInit ==
    /\ smtp \in [starttls : BOOLEAN, credentials : BOOLEAN]
    /\ delivery = [attempt |-> 1, call |-> "connect", error |-> "ok"]
    /\ accepted = 0

MailNext ==
    \/ CallSucceeds
    \/ CallFails
    \/ SendMessage
    \/ Quit
    \/ Conclude
    \/ TryAgain

MailSpec == MailInit /\ [][MailNext]_mailVars

-----------------------------------------------------------------------------
(* Properties *)

\* Whatever fails and is tried again, the server takes the message at most
\* once, and it has taken it when the caller is told that it was sent.
MailAcceptedOnce == accepted <= 1 /\ (Calling("sent") => accepted = 1)
=============================================================================
