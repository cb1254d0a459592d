---------------------------- MODULE NanoLifecycle ---------------------------
(***************************************************************************)
(* What the status of a Nano promises to its readers: the state machine    *)
(* that the docstring of _validate_status_transition lays down, without    *)
(* requests, rows or moderation cases.  "absent" is a Nano not yet         *)
(* uploaded; a Nano may also have been in review when the system started.  *)
(***************************************************************************)
CONSTANT Nanos

VARIABLE status

Successors ==
    [absent |-> {"draft"},
     draft |-> {"pending_review", "published", "archived", "deleted"},
     pending_review |-> {"draft", "published", "archived"},
     published |-> {"archived", "draft"},
     archived |-> {"deleted"},
     deleted |-> {}]

Init == status \in [Nanos -> {"absent", "pending_review"}]

Move(n, s) ==
    /\ s \in Successors[status[n]]
    /\ status' = [status EXCEPT ![n] = s]

Next == \E n \in Nanos, s \in DOMAIN Successors : Move(n, s)

Spec == Init /\ [][Next]_status
=============================================================================
