-------------------------- MODULE PublicationRecord -------------------------
(***************************************************************************)
(* What readers may rely on about the publication of a Nano: whether it is *)
(* public, and since when.  There are no requests and no moderation here.  *)
(***************************************************************************)
CONSTANT Nanos

VARIABLES
    visible,      \* visible[n]: anyone may read Nano n
    stamp         \* stamp[n]: when it was published: never, lately, long ago

Init ==
    /\ visible = [n \in Nanos |-> FALSE]
    /\ stamp = [n \in Nanos |-> "null"]

\* The time is kept from an earlier publication, or set to now; two requests
\* that both find none may both set it.
Publish(n) ==
    /\ visible' = [visible EXCEPT ![n] = TRUE]
    /\ \/ stamp[n] # "null" /\ stamp' = stamp
       \/ stamp' = [stamp EXCEPT ![n] = "recent"]

Hide(n) ==
    /\ visible' = [visible EXCEPT ![n] = FALSE]
    /\ stamp' = stamp

Age(n) ==
    /\ stamp[n] = "recent"
    /\ stamp' = [stamp EXCEPT ![n] = "old"]
    /\ visible' = visible

Next == \E n \in Nanos : Publish(n) \/ Hide(n) \/ Age(n)

Spec == Init /\ [][Next]_<<visible, stamp>>
=============================================================================
