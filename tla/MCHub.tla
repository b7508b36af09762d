-------------------------------- MODULE MCHub --------------------------------
(***************************************************************************)
(* Instances of Hub for TLC: two connections to one room, and events for   *)
(* the room or for the user of the first connection alone.                 *)
(***************************************************************************)
EXTENDS Hub, TLC

CONSTANTS c1, c2, everyone, user1

TwoClients == (c1 :> {everyone, user1}) @@ (c2 :> {everyone})

SameUser == [c \in Clients |-> Targets]
=============================================================================
