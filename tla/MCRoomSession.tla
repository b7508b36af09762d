---------------------------- MODULE MCRoomSession ----------------------------
(***************************************************************************)
(* Instances of RoomSession for TLC: the contents of the banks.            *)
(***************************************************************************)
EXTENDS RoomSession, TLC

CONSTANTS q1, q2, q3, b1, b2

(* Every bank holds the same number of questions; q3 is left for an append, *)
(* or is the whole of a second bank.                                        *)
OneQuestion == [b \in Banks |-> {q1}]

TwoQuestions == [b \in Banks |-> {q1, q2}]

TwoBanks == (b1 :> {q1, q2}) @@ (b2 :> {q3})

(* Every statement of every handler.                                        *)
Statements ==
  {"start", "finish", "join", "activate", "review", "list_bank", "restart", "append",
   "enqueue", "first_join", "rejoin", "answer", "my_answer", "delete", "reset", "insert",
   "advance", "check", "auto_finish", "announce"}

(* Students are interchangeable: no action orders them.  Only used by runs  *)
(* without liveness properties.                                             *)
StudentSymmetry == Permutations(Students)

HostSymmetry == Permutations(HostReqs)

Symmetry == StudentSymmetry \cup HostSymmetry
=============================================================================
