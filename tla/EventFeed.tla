------------------------------ MODULE EventFeed ------------------------------
(***************************************************************************)
(* What the WebSocket hub promises to a connection, without its channels:  *)
(* while a client listens, every event published to it is put in its       *)
(* mailbox, and it receives them in that order.  A client may be cut off   *)
(* at any time, and then loses the end of its mailbox; it is never made to *)
(* miss an event and receive a later one.                                  *)
(***************************************************************************)
EXTENDS Naturals, Sequences, FiniteSets

CONSTANTS
  Clients,   (* connections                                                 *)
  Targets,   (* what an event is addressed to: a room, or a user in a room  *)
  Listens,   (* Clients -> sets of targets: the ones a client belongs to    *)
  MaxEvents  (* bound: how many events are ever published                   *)

VARIABLES
  published, (* the targets of the events published, in order               *)
  listening, (* the clients that get the next event                         *)
  joinedAt,  (* how many events had been published when a client came       *)
  mailbox,   (* the events, by number, a client has not received yet        *)
  received   (* the events, by number, a client has received                *)

vars == <<published, listening, joinedAt, mailbox, received>>

Init ==
  /\ published = <<>>
  /\ listening = {}
  /\ joinedAt = [c \in Clients |-> 0]
  /\ mailbox = [c \in Clients |-> <<>>]
  /\ received = [c \in Clients |-> <<>>]

Addressed(c, target) == target \in Listens[c]

(* A connection is used once; it may be gone already when it joins.         *)
Join(c) ==
  /\ c \notin listening
  /\ mailbox[c] = <<>> /\ received[c] = <<>>
  /\ listening' \in {listening, listening \cup {c}}
  /\ joinedAt' = [joinedAt EXCEPT ![c] = Len(published)]
  /\ UNCHANGED <<published, mailbox, received>>

Publish(target) ==
  /\ Len(published) < MaxEvents
  /\ published' = Append(published, target)
  /\ mailbox' = [c \in Clients |->
                   IF c \in listening /\ Addressed(c, target)
                   THEN Append(mailbox[c], Len(published')) ELSE mailbox[c]]
  /\ UNCHANGED <<listening, joinedAt, received>>

Receive(c) ==
  /\ mailbox[c] # <<>>
  /\ received' = [received EXCEPT ![c] = Append(@, Head(mailbox[c]))]
  /\ mailbox' = [mailbox EXCEPT ![c] = Tail(@)]
  /\ UNCHANGED <<published, listening, joinedAt>>

(* The end of the mailbox is lost, all of it perhaps.                       *)
CutOff(c) ==
  /\ \E n \in 0 .. Len(mailbox[c]) : mailbox' = [mailbox EXCEPT ![c] = SubSeq(@, 1, n)]
  /\ listening' = listening \ {c}
  /\ UNCHANGED <<published, joinedAt, received>>

Next ==
  \/ \E target \in Targets : Publish(target)
  \/ \E c \in Clients : Join(c) \/ Receive(c) \/ CutOff(c)

Spec == Init /\ [][Next]_vars

-----------------------------------------------------------------------------
(* The numbers of the events for c published since it came.                 *)
Due(c) == {n \in joinedAt[c] + 1 .. Len(published) : Addressed(c, published[n])}

(* What a client has received, and what waits for it, is in the order of    *)
(* publication and without a gap: if it has event n it has, before it,      *)
(* every event for it published since it came.                              *)
NoGaps ==
  \A c \in Clients :
    LET stream == received[c] \o mailbox[c]
    IN  \A i \in DOMAIN stream :
          /\ stream[i] \in Due(c)
          /\ Cardinality({n \in Due(c) : n < stream[i]}) = i - 1
=============================================================================
