------------------------------ MODULE SearchMC ------------------------------
(***************************************************************************)
(* Search when nothing fails: Redis answers, rebuilds succeed, and no Nano *)
(* changes while the index is rebuilt.                                     *)
(***************************************************************************)
EXTENDS Search

CalmNext ==
    /\ SearchNext
    /\ ~RebuildFail
    /\ \A e \in Editors : change[e] # Idling /\ change'[e] = Idling =>
                             ChangeDelete(e)
    /\ rebuild # Idling => UNCHANGED changes

CalmSpec == SearchInit /\ [][CalmNext]_searchVars
=============================================================================
