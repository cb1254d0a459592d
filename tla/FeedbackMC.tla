----------------------------- MODULE FeedbackMC -----------------------------
(***************************************************************************)
(* Instances of Feedback for TLC: one Nano of the moderator m.  The first  *)
(* item is by the plain user a, a second rating is by m.                   *)
(***************************************************************************)
EXTENDS Feedback, TLC

CONSTANTS i1, i2, i3, a, m

NanoOfItem == [i \in Items |-> CHOOSE n \in Nanos : TRUE]
AuthorOfItem ==
    [i \in Items |-> IF i \in Ratings \ {i1} THEN m ELSE a]
CreatorOfNano == [n \in Nanos |-> m]

RequestSymmetry == Permutations(Requests)
=============================================================================
