------------------------------ MODULE MCRewards ------------------------------
(***************************************************************************)
(* Instances of Rewards for TLC.  An answer is its time and its limit.      *)
(***************************************************************************)
EXTENDS Rewards, TLC

AllTimer == [m \in Rooms |-> "timer"]

AllRace == [m \in Rooms |-> "race"]

Hardest == [q \in Questions |-> 5]

(* One second of a minute: quick, and worth 50 points on the hardest        *)
(* question, so that the second answer reaches a level and 100 points.      *)
Quickly == {<<1, 60>>}

(* The best score and the worst one.                                        *)
InstantOrLate == {<<0, 4>>, <<9, 4>>}

InstantOnly == {<<0, 4>>}

(* A quick answer, and one long after the time ran out.                    *)
QuickOrLate == {<<1, 60>>, <<9, 4>>}

RequestSymmetry == Permutations(Requests)
=============================================================================
