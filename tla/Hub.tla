--------------------------------- MODULE Hub ---------------------------------
(***************************************************************************)
(* internal/ws: the hub's reactor (Hub.Run), which alone owns the map of   *)
(* registered clients, and the two goroutines (readPump, writePump) of     *)
(* every connection, around four kinds of bounded channel.  The handlers   *)
(* enter only as the callers of Broadcast and SendTo.                      *)
(*                                                                         *)
(* A client is one connection and never returns: the browser reconnects as *)
(* another client.  An event is its number in the order in which the       *)
(* reactor takes events; it stands for the JSON document.                  *)
(***************************************************************************)
EXTENDS Naturals, Integers, Sequences, FiniteSets

CONSTANTS
  Clients,
  Targets,       (* a room, or a user in a room                             *)
  Listens,       (* Clients -> the room and the user of the connection      *)
  SendCap,       (* 32 in the code: buffer of a client's send channel       *)
  RegisterCap,   (* 64                                                      *)
  UnregisterCap, (* 64                                                      *)
  BroadcastCap,  (* 256                                                     *)
  MaxEvents      (* bound: how many calls of Broadcast and SendTo           *)

ASSUME HubAssumption ==
  /\ IsFiniteSet(Clients)
  /\ Listens \in [Clients -> SUBSET Targets]
  /\ {SendCap, RegisterCap, UnregisterCap, BroadcastCap, MaxEvents} \subseteq Nat

VARIABLES
  register, unregister, broadcast, (* the hub's channels                    *)
  registered, (* the clients in the map rooms of Run                        *)
  connCount,
  todo,       (* the clients a broadcast under way has still to be sent to  *)
  send,       (* the contents of each client's channel                      *)
  sendClosed, (* ... and whether close(c.send) was called                   *)
  panicked,   (* a send on a closed channel, or a second close of one       *)
  conn,       (* the socket: none, open, broken (peer gone), closed         *)
  reader,     (* readPump:  off, running, closing (in c.close), done        *)
  writer,     (* writePump: the same                                        *)
  calls,      (* how often Broadcast or SendTo was called                   *)
  taken,      (* history: the targets of the events the reactor took        *)
  joinedAt,   (* history: how many it had taken when it registered a client *)
  received    (* history: the events that reached the peer                  *)

channels == <<register, unregister, broadcast>>
hubVars == <<registered, connCount, todo, sendClosed, panicked>>
clientVars == <<conn, reader, writer>>
history == <<taken, joinedAt, received>>
vars == <<channels, hubVars, send, clientVars, calls, history>>

PumpStates == {"off", "running", "closing", "done"}

TypeOK ==
  /\ register \in Seq(Clients) /\ Len(register) <= RegisterCap
  /\ unregister \in Seq(Clients) /\ Len(unregister) <= UnregisterCap
  /\ broadcast \in Seq(Targets) /\ Len(broadcast) <= BroadcastCap
  /\ registered \subseteq Clients
  /\ connCount \in Int
  /\ todo \subseteq Clients
  /\ send \in [Clients -> Seq(Nat)] /\ \A c \in Clients : Len(send[c]) <= SendCap
  /\ sendClosed \in [Clients -> BOOLEAN]
  /\ panicked \in BOOLEAN
  /\ conn \in [Clients -> {"none", "open", "broken", "closed"}]
  /\ reader \in [Clients -> PumpStates]
  /\ writer \in [Clients -> PumpStates]
  /\ calls \in Nat
  /\ taken \in Seq(Targets)
  /\ joinedAt \in [Clients -> Nat]
  /\ received \in [Clients -> Seq(Nat)]

Init ==
  /\ register = <<>> /\ unregister = <<>> /\ broadcast = <<>>
  /\ registered = {} /\ connCount = 0 /\ todo = {}
  /\ send = [c \in Clients |-> <<>>]
  /\ sendClosed = [c \in Clients |-> FALSE]
  /\ panicked = FALSE
  /\ conn = [c \in Clients |-> "none"]
  /\ reader = [c \in Clients |-> "off"]
  /\ writer = [c \in Clients |-> "off"]
  /\ calls = 0
  /\ taken = <<>>
  /\ joinedAt = [c \in Clients |-> 0]
  /\ received = [c \in Clients |-> <<>>]

-----------------------------------------------------------------------------
(* The handlers *)

(* Faulty variant: nothing is lost, the queue grows.                        *)
BroadcastUnbounded(target) ==
  /\ calls < MaxEvents
  /\ calls' = calls + 1
  /\ broadcast' = Append(broadcast, target)
  /\ UNCHANGED <<register, unregister, hubVars, send, clientVars, history>>

(* Broadcast and SendTo never wait: a full queue loses the event.           *)
Broadcast(target) ==
  /\ calls < MaxEvents
  /\ calls' = calls + 1
  /\ broadcast' = IF Len(broadcast) < BroadcastCap THEN Append(broadcast, target) ELSE broadcast
  /\ UNCHANGED <<register, unregister, hubVars, send, clientVars, history>>

(* ServeWS: the upgrade, "register <- client" (which waits for room in the  *)
(* channel) and the start of the pumps, which come after it.                *)
ServeWS(c) ==
  /\ conn[c] = "none"
  /\ Len(register) < RegisterCap
  /\ register' = Append(register, c)
  /\ conn' = [conn EXCEPT ![c] = "open"]
  /\ reader' = [reader EXCEPT ![c] = "running"]
  /\ writer' = [writer EXCEPT ![c] = "running"]
  /\ UNCHANGED <<unregister, broadcast, hubVars, send, calls, history>>

-----------------------------------------------------------------------------
(* The reactor: select takes any channel that is ready *)

(* delete(set, c); close(c.send); connCount.Add(-1)                         *)
Evict(c) ==
  /\ registered' = registered \ {c}
  /\ panicked' = (panicked \/ sendClosed[c])
  /\ sendClosed' = [sendClosed EXCEPT ![c] = TRUE]
  /\ connCount' = connCount - 1

HubRegister ==
  /\ todo = {} /\ register # <<>>
  /\ LET c == Head(register)
     IN  /\ registered' = registered \cup {c}
         /\ joinedAt' = [joinedAt EXCEPT ![c] = Len(taken)]
  /\ register' = Tail(register)
  /\ connCount' = connCount + 1
  /\ UNCHANGED <<unregister, broadcast, todo, send, sendClosed, panicked, clientVars, calls,
                 taken, received>>

(* Faulty variant: whether the client is still in the map is not tested.    *)
HubUnregisterUntested ==
  /\ todo = {} /\ unregister # <<>>
  /\ Evict(Head(unregister))
  /\ unregister' = Tail(unregister)
  /\ UNCHANGED <<register, broadcast, todo, send, clientVars, calls, history>>

HubUnregister ==
  /\ todo = {} /\ unregister # <<>>
  /\ IF Head(unregister) \in registered
     THEN Evict(Head(unregister))
     ELSE UNCHANGED <<registered, panicked, sendClosed, connCount>>
  /\ unregister' = Tail(unregister)
  /\ UNCHANGED <<register, broadcast, todo, send, clientVars, calls, history>>

HubBroadcast ==
  /\ todo = {} /\ broadcast # <<>>
  /\ todo' = {c \in registered : Head(broadcast) \in Listens[c]}
  /\ taken' = Append(taken, Head(broadcast))
  /\ broadcast' = Tail(broadcast)
  /\ UNCHANGED <<register, unregister, registered, connCount, sendClosed, panicked, send,
                 clientVars, calls, joinedAt, received>>

Enqueue(c) ==
  /\ send' = [send EXCEPT ![c] = Append(@, Len(taken))]
  /\ panicked' = (panicked \/ sendClosed[c])
  /\ UNCHANGED <<registered, connCount, sendClosed>>

(* Faulty variant: the event is skipped and the slow client kept.           *)
DeliverSkipping(c) ==
  /\ c \in todo
  /\ todo' = todo \ {c}
  /\ \/ Len(send[c]) < SendCap /\ Enqueue(c)
     \/ Len(send[c]) >= SendCap /\ UNCHANGED <<registered, connCount, sendClosed, panicked, send>>
  /\ UNCHANGED <<channels, clientVars, calls, history>>

(* Faulty variant: the slow client is forgotten, its channel left open.     *)
DeliverLeavingOpen(c) ==
  /\ c \in todo
  /\ todo' = todo \ {c}
  /\ \/ Len(send[c]) < SendCap /\ Enqueue(c)
     \/ /\ Len(send[c]) >= SendCap
        /\ registered' = registered \ {c} /\ connCount' = connCount - 1
        /\ UNCHANGED <<send, sendClosed, panicked>>
  /\ UNCHANGED <<channels, clientVars, calls, history>>

(* Faulty variant: the connection is not uncounted.                         *)
DeliverMiscounting(c) ==
  /\ c \in todo
  /\ todo' = todo \ {c}
  /\ \/ Len(send[c]) < SendCap /\ Enqueue(c)
     \/ /\ Len(send[c]) >= SendCap
        /\ registered' = registered \ {c}
        /\ sendClosed' = [sendClosed EXCEPT ![c] = TRUE]
        /\ UNCHANGED <<send, connCount, panicked>>
  /\ UNCHANGED <<channels, clientVars, calls, history>>

(* Faulty variant: the reactor waits for the slow client.                   *)
DeliverWaiting(c) ==
  /\ c \in todo
  /\ todo' = todo \ {c}
  /\ Len(send[c]) < SendCap /\ Enqueue(c)
  /\ UNCHANGED <<channels, clientVars, calls, history>>

(* One turn of the loop over the clients of the room, in any order.         *)
Deliver(c) ==
  /\ c \in todo
  /\ todo' = todo \ {c}
  /\ \/ Len(send[c]) < SendCap /\ Enqueue(c)
     \/ Len(send[c]) >= SendCap /\ Evict(c) /\ UNCHANGED send
  /\ UNCHANGED <<channels, clientVars, calls, history>>

-----------------------------------------------------------------------------
(* A connection *)

(* The peer goes away, or answers no ping within pongWait.                  *)
Break(c) ==
  /\ conn[c] = "open"
  /\ conn' = [conn EXCEPT ![c] = "broken"]
  /\ UNCHANGED <<channels, hubVars, send, reader, writer, calls, history>>

ReadFails(c) ==
  /\ reader[c] = "running" /\ conn[c] \in {"broken", "closed"}
  /\ reader' = [reader EXCEPT ![c] = "closing"]
  /\ UNCHANGED <<channels, hubVars, send, conn, writer, calls, history>>

(* A write to a peer that has gone may still succeed.                       *)
Write(c) ==
  /\ writer[c] = "running" /\ send[c] # <<>>
  /\ send' = [send EXCEPT ![c] = Tail(@)]
  /\ \/ /\ conn[c] = "open"
        /\ received' = [received EXCEPT ![c] = Append(@, Head(send[c]))]
        /\ UNCHANGED writer
     \/ conn[c] = "broken" /\ UNCHANGED <<writer, received>>
     \/ /\ conn[c] \in {"broken", "closed"}
        /\ writer' = [writer EXCEPT ![c] = "closing"]
        /\ UNCHANGED received
  /\ UNCHANGED <<channels, hubVars, conn, reader, calls, taken, joinedAt>>

(* A receive on a closed channel, once it is drained.                       *)
SendIsClosed(c) ==
  /\ writer[c] = "running" /\ sendClosed[c] /\ send[c] = <<>>
  /\ writer' = [writer EXCEPT ![c] = "closing"]
  /\ UNCHANGED <<channels, hubVars, send, conn, reader, calls, history>>

PingFails(c) ==
  /\ writer[c] = "running" /\ conn[c] \in {"broken", "closed"}
  /\ writer' = [writer EXCEPT ![c] = "closing"]
  /\ UNCHANGED <<channels, hubVars, send, conn, reader, calls, history>>

(* Client.close under closeOnce: the first pump to come sends "unregister   *)
(* <- c", waiting for room in the channel, and closes the socket; the other *)
(* waits for it.                                                            *)
Close(c) ==
  \/ /\ conn[c] # "closed"
     /\ Len(unregister) < UnregisterCap
     /\ unregister' = Append(unregister, c)
     /\ conn' = [conn EXCEPT ![c] = "closed"]
  \/ conn[c] = "closed" /\ UNCHANGED <<unregister, conn>>

CloseByReader(c) ==
  /\ reader[c] = "closing"
  /\ Close(c)
  /\ reader' = [reader EXCEPT ![c] = "done"]
  /\ UNCHANGED <<register, broadcast, hubVars, send, writer, calls, history>>

CloseByWriter(c) ==
  /\ writer[c] = "closing"
  /\ Close(c)
  /\ writer' = [writer EXCEPT ![c] = "done"]
  /\ UNCHANGED <<register, broadcast, hubVars, send, reader, calls, history>>

Reactor == HubRegister \/ HubUnregister \/ HubBroadcast \/ \E c \in Clients : Deliver(c)

ReadPump(c) == ReadFails(c) \/ CloseByReader(c)

WritePump(c) == Write(c) \/ SendIsClosed(c) \/ PingFails(c) \/ CloseByWriter(c)

Next ==
  \/ \E target \in Targets : Broadcast(target)
  \/ \E c \in Clients : ServeWS(c) \/ Break(c) \/ ReadPump(c) \/ WritePump(c)
  \/ Reactor

Spec == Init /\ [][Next]_vars

(* The scheduler runs every goroutine that can go on, and select picks at   *)
(* random among the ready channels, so none of the reactor's is passed over *)
(* for ever.  Nobody has to connect, to call, or to break a connection.     *)
Fairness ==
  /\ SF_vars(HubRegister) /\ SF_vars(HubUnregister) /\ SF_vars(HubBroadcast)
  /\ \A c \in Clients : WF_vars(Deliver(c)) /\ WF_vars(ReadPump(c)) /\ WF_vars(WritePump(c))

FairSpec == Spec /\ Fairness

-----------------------------------------------------------------------------
(* Properties *)

(* The hub never sends on a closed channel and never closes one twice,      *)
(* whichever of the slow-client rule and the two pumps comes first.         *)
NoPanic == ~panicked

(* The metric follows the map.                                              *)
CountsRegistered == connCount = Cardinality(registered)

(* The abstract feed: the mailbox of a client is its channel and the event  *)
(* the reactor is about to put there.  A client whose socket or whose       *)
(* writePump is gone has no mailbox any more.                               *)
Mailbox(c) ==
  IF conn[c] \in {"none", "broken", "closed"} \/ writer[c] # "running" THEN <<>>
  ELSE send[c] \o (IF c \in todo THEN <<Len(taken)>> ELSE <<>>)

Feed == INSTANCE EventFeed WITH
  published <- taken,
  listening <- {c \in registered : conn[c] = "open" /\ writer[c] = "running"},
  mailbox <- [c \in Clients |-> Mailbox(c)]

(* The channels, the drops of slow clients and the closing of sockets       *)
(* implement the feed: no client misses an event and gets a later one.      *)
ImplementsFeed == Feed!Spec

(* So what a connection has received, and what waits for it, is the events  *)
(* due to it since it was registered, in order and without a gap.           *)
NoGaps == Feed!NoGaps

(* A client the reactor has thrown out is told: its socket is closed in the *)
(* end, by its own pumps, and the browser can reconnect.                    *)
EvictedIsClosed ==
  \A c \in Clients :
    conn[c] = "open" /\ c \notin registered /\ (\A i \in DOMAIN register : register[i] # c)
      ~> conn[c] = "closed"

(* No goroutine is left behind: when the peer is gone both pumps end, for   *)
(* the reactor, waiting for no client, always makes room in unregister.     *)
PumpsEnd ==
  \A c \in Clients : conn[c] = "broken" ~> reader[c] = "done" /\ writer[c] = "done"
=============================================================================
