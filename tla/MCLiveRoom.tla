----------------------------- MODULE MCLiveRoom -----------------------------
(***************************************************************************)
(* Instances of LiveRoom for TLC: the content of the bank.                 *)
(***************************************************************************)
EXTENDS LiveRoom, TLC

CONSTANTS q1, q2

TwoQuestions == [b \in Banks |-> {q1, q2}]

Symmetry == Permutations(Questions) \cup Permutations(Students)
=============================================================================
