------------------------------ MODULE HubProofs ------------------------------
(***************************************************************************)
(* Theorems about Hub for every set of connections and every capacity of   *)
(* the channels.                                                           *)
(***************************************************************************)
EXTENDS Hub, FiniteSetTheorems, SequenceTheorems, TLAPS

-----------------------------------------------------------------------------
(* Type correctness *)

(* What the two pumps and the hub do to a queue.                            *)
LEMMA QueueOps ==
  ASSUME NEW T, NEW s \in Seq(T)
  PROVE  /\ Len(s) \in Nat
         /\ \A e \in T : Append(s, e) \in Seq(T) /\ Len(Append(s, e)) = Len(s) + 1
         /\ s # <<>> => /\ Head(s) \in T /\ Tail(s) \in Seq(T)
                        /\ Len(Tail(s)) = Len(s) - 1 /\ Len(s) > 0
  OBVIOUS

(* c.close leaves the unregister channel within its capacity.               *)
LEMMA CloseKeepsType ==
  ASSUME TypeOK, NEW c \in Clients, Close(c)
  PROVE  /\ unregister' \in Seq(Clients) /\ Len(unregister') <= UnregisterCap
         /\ conn' \in [Clients -> {"none", "open", "broken", "closed"}]
<1>0. UnregisterCap \in Nat
  BY HubAssumption DEF HubAssumption
<1>1. CASE UNCHANGED <<unregister, conn>>
  BY <1>1 DEF TypeOK
<1>2. CASE /\ Len(unregister) < UnregisterCap
           /\ unregister' = Append(unregister, c)
           /\ conn' = [conn EXCEPT ![c] = "closed"]
  <2>1. unregister \in Seq(Clients) /\ conn \in [Clients -> {"none", "open", "broken", "closed"}]
    BY DEF TypeOK
  <2>2. unregister' \in Seq(Clients) /\ Len(unregister') <= UnregisterCap
    BY <1>0, <1>2, <2>1, QueueOps
  <2> QED
    BY <1>2, <2>1, <2>2
<1> QED
  BY <1>1, <1>2 DEF Close

(* Every channel keeps within its capacity and every variable its type.     *)
THEOREM TypeCorrect == Spec => []TypeOK
<1>1. Init => TypeOK
  <2>1. /\ Len(<<>>) = 0 /\ 0 \in Nat /\ 0 \in Int
        /\ <<>> \in Seq(Clients) /\ <<>> \in Seq(Targets) /\ <<>> \in Seq(Nat)
        /\ 0 <= SendCap /\ 0 <= RegisterCap /\ 0 <= UnregisterCap /\ 0 <= BroadcastCap
    BY HubAssumption DEF HubAssumption
  <2> SUFFICES ASSUME Init PROVE TypeOK
    OBVIOUS
  <2>2. /\ register \in Seq(Clients) /\ Len(register) <= RegisterCap
        /\ unregister \in Seq(Clients) /\ Len(unregister) <= UnregisterCap
        /\ broadcast \in Seq(Targets) /\ Len(broadcast) <= BroadcastCap
        /\ taken \in Seq(Targets)
    BY <2>1, Zenon DEF Init
  <2>3. /\ send \in [Clients -> Seq(Nat)] /\ received \in [Clients -> Seq(Nat)]
        /\ \A c \in Clients : Len(send[c]) <= SendCap
    BY <2>1 DEF Init
  <2>4. /\ registered \subseteq Clients /\ todo \subseteq Clients
        /\ sendClosed \in [Clients -> BOOLEAN] /\ panicked \in BOOLEAN
    BY DEF Init
  <2>5. connCount \in Int /\ calls \in Nat /\ joinedAt \in [Clients -> Nat]
    BY <2>1 DEF Init
  <2>6. /\ conn \in [Clients -> {"none", "open", "broken", "closed"}]
        /\ reader \in [Clients -> PumpStates] /\ writer \in [Clients -> PumpStates]
    BY DEF Init, PumpStates
  <2> QED
    BY <2>2, <2>3, <2>4, <2>5, <2>6 DEF TypeOK
<1>2. TypeOK /\ [Next]_vars => TypeOK'
  <2> SUFFICES ASSUME TypeOK, [Next]_vars PROVE TypeOK'
    OBVIOUS
  <2> USE DEF TypeOK
  <2>0. /\ SendCap \in Nat /\ RegisterCap \in Nat /\ UnregisterCap \in Nat
        /\ BroadcastCap \in Nat /\ MaxEvents \in Nat
        /\ PumpStates = {"off", "running", "closing", "done"}
    BY HubAssumption DEF HubAssumption, PumpStates
  <2>1. ASSUME NEW target \in Targets, Broadcast(target)
        PROVE  TypeOK'
    <3>1. broadcast' \in Seq(Targets) /\ Len(broadcast') <= BroadcastCap /\ calls' \in Nat
      BY <2>0, <2>1, QueueOps DEF Broadcast
    <3> QED
      BY <2>1, <3>1 DEF Broadcast, hubVars, clientVars, history
  <2>2. ASSUME NEW c \in Clients, ServeWS(c)
        PROVE  TypeOK'
    <3>1. register' \in Seq(Clients) /\ Len(register') <= RegisterCap
      BY <2>0, <2>2, QueueOps DEF ServeWS
    <3>2. /\ conn' \in [Clients -> {"none", "open", "broken", "closed"}]
          /\ reader' \in [Clients -> PumpStates] /\ writer' \in [Clients -> PumpStates]
      BY <2>0, <2>2 DEF ServeWS
    <3> QED
      BY <2>2, <3>1, <3>2 DEF ServeWS, hubVars, history
  <2>3. ASSUME NEW c \in Clients, Break(c)
        PROVE  TypeOK'
    BY <2>3 DEF Break, channels, hubVars, history
  <2>4. ASSUME NEW c \in Clients, ReadPump(c)
        PROVE  TypeOK'
    <3>1. CASE ReadFails(c)
      BY <2>0, <3>1 DEF ReadFails, channels, hubVars, history
    <3>2. CASE CloseByReader(c)
      <4>1. /\ unregister' \in Seq(Clients) /\ Len(unregister') <= UnregisterCap
            /\ conn' \in [Clients -> {"none", "open", "broken", "closed"}]
        BY <3>2, CloseKeepsType DEF CloseByReader
      <4> QED
        BY <2>0, <3>2, <4>1 DEF CloseByReader, hubVars, history
    <3> QED
      BY <2>4, <3>1, <3>2 DEF ReadPump
  <2>5. ASSUME NEW c \in Clients, WritePump(c)
        PROVE  TypeOK'
    <3>1. CASE Write(c)
      <4>0. /\ send[c] \in Seq(Nat) /\ send[c] # <<>> /\ Len(send[c]) <= SendCap
            /\ send' = [send EXCEPT ![c] = Tail(send[c])]
        BY <2>0, <3>1 DEF Write
      <4>1. /\ send' \in [Clients -> Seq(Nat)]
            /\ \A d \in Clients : Len(send'[d]) <= SendCap
            /\ Head(send[c]) \in Nat
        <5>1. /\ Head(send[c]) \in Nat /\ Tail(send[c]) \in Seq(Nat)
              /\ Len(Tail(send[c])) <= SendCap
          BY <2>0, <4>0, QueueOps
        <5> QED
          BY <2>0, <4>0, <5>1
      <4>2. received' \in [Clients -> Seq(Nat)]
        <5>1. Append(received[c], Head(send[c])) \in Seq(Nat)
          BY <4>1
        <5>2. \/ received' = [received EXCEPT ![c] = Append(received[c], Head(send[c]))]
              \/ received' = received
          BY <3>1, Zenon DEF Write
        <5> QED
          BY <5>1, <5>2
      <4>3. writer' \in [Clients -> PumpStates]
        BY <2>0, <3>1 DEF Write
      <4> QED
        BY <3>1, <4>1, <4>2, <4>3 DEF Write, channels, hubVars
    <3>2. CASE SendIsClosed(c) \/ PingFails(c)
      BY <2>0, <3>2 DEF SendIsClosed, PingFails, channels, hubVars, history
    <3>3. CASE CloseByWriter(c)
      <4>1. /\ unregister' \in Seq(Clients) /\ Len(unregister') <= UnregisterCap
            /\ conn' \in [Clients -> {"none", "open", "broken", "closed"}]
        BY <3>3, CloseKeepsType DEF CloseByWriter
      <4> QED
        BY <2>0, <3>3, <4>1 DEF CloseByWriter, hubVars, history
    <3> QED
      BY <2>5, <3>1, <3>2, <3>3 DEF WritePump
  <2>6. CASE HubRegister
    <3>1. /\ register' \in Seq(Clients) /\ Len(register') <= RegisterCap
          /\ Head(register) \in Clients /\ Len(taken) \in Nat
      BY <2>0, <2>6, QueueOps DEF HubRegister
    <3>2. registered' \subseteq Clients /\ joinedAt' \in [Clients -> Nat] /\ connCount' \in Int
      BY <2>6, <3>1 DEF HubRegister
    <3> QED
      BY <2>6, <3>1, <3>2 DEF HubRegister, clientVars
  <2>7. CASE HubUnregister
    <3>1. /\ unregister' \in Seq(Clients) /\ Len(unregister') <= UnregisterCap
          /\ Head(unregister) \in Clients
      BY <2>0, <2>7, QueueOps DEF HubUnregister
    <3>2. CASE Evict(Head(unregister))
      <4>1. /\ registered' = registered \ {Head(unregister)} /\ connCount' = connCount - 1
            /\ sendClosed' = [sendClosed EXCEPT ![Head(unregister)] = TRUE]
            /\ panicked' \in BOOLEAN
        BY <3>2, Zenon DEF Evict
      <4>2. /\ registered' \subseteq Clients /\ connCount' \in Int
            /\ sendClosed' \in [Clients -> BOOLEAN]
        <5>1. registered \subseteq Clients /\ connCount \in Int /\ sendClosed \in [Clients -> BOOLEAN]
          OBVIOUS
        <5> HIDE DEF TypeOK
        <5> QED
          BY <3>1, <4>1, <5>1
      <4> QED
        BY <2>7, <3>1, <4>1, <4>2 DEF HubUnregister, clientVars, history
    <3>3. CASE UNCHANGED <<registered, panicked, sendClosed, connCount>>
      BY <2>7, <3>1, <3>3 DEF HubUnregister, clientVars, history
    <3> QED
      BY <2>7, <3>2, <3>3 DEF HubUnregister
  <2>8. CASE HubBroadcast
    <3>1. /\ broadcast' \in Seq(Targets) /\ Len(broadcast') <= BroadcastCap
          /\ taken' \in Seq(Targets)
      BY <2>0, <2>8, QueueOps DEF HubBroadcast
    <3> QED
      BY <2>8, <3>1 DEF HubBroadcast, clientVars
  <2>9. ASSUME NEW c \in Clients, Deliver(c)
        PROVE  TypeOK'
    <3>1. CASE Len(send[c]) < SendCap /\ Enqueue(c)
      <4>1. Len(taken) \in Nat
        BY QueueOps
      <4>2. /\ send' \in [Clients -> Seq(Nat)] /\ \A d \in Clients : Len(send'[d]) <= SendCap
        BY <2>0, <3>1, <4>1, QueueOps DEF Enqueue
      <4> QED
        BY <2>9, <3>1, <4>2 DEF Deliver, Enqueue, channels, clientVars, history
    <3>2. CASE Evict(c) /\ UNCHANGED send
      BY <2>9, <3>2 DEF Deliver, Evict, channels, clientVars, history
    <3> QED
      BY <2>9, <3>1, <3>2 DEF Deliver
  <2>10. CASE UNCHANGED vars
    BY <2>10 DEF vars, channels, hubVars, clientVars, history
  <2> QED
    BY <2>1, <2>2, <2>3, <2>4, <2>5, <2>6, <2>7, <2>8, <2>9, <2>10 DEF Next, Reactor
<1> QED
  BY <1>1, <1>2, PTL DEF Spec

-----------------------------------------------------------------------------
(* Closed channels *)

(* Why neither panic can happen: a client comes to the reactor once, so it  *)
(* is either unknown, on its way in the channel, in the map with an open    *)
(* channel, or gone for good.                                               *)
OpenInv ==
  /\ ~panicked
  /\ todo \subseteq registered
  /\ \A c \in registered : ~sendClosed[c]
  /\ \A i \in 1 .. Len(register) : ~sendClosed[register[i]] /\ register[i] \notin registered
  /\ \A i, j \in 1 .. Len(register) : register[i] = register[j] => i = j
  /\ \A c \in Clients :
       conn[c] = "none" => /\ c \notin registered /\ ~sendClosed[c]
                           /\ \A i \in 1 .. Len(register) : register[i] # c

(* The three variables of the reactor that OpenInv and the count are about, *)
(* and the register channel, are not touched by the pumps.                  *)
LEMMA OpenQuiet ==
  ASSUME TypeOK, OpenInv, UNCHANGED <<register, hubVars>>,
         \A c \in Clients : conn'[c] = "none" => conn[c] = "none"
  PROVE  OpenInv'
  BY DEF OpenInv, hubVars

(* Every step keeps the open channels open: only the clients that leave the *)
(* map have theirs closed, and none of them comes back.                     *)
LEMMA OpenStep == TypeOK /\ OpenInv /\ [Next]_vars => OpenInv'
<1> SUFFICES ASSUME TypeOK, OpenInv, [Next]_vars PROVE OpenInv'
  OBVIOUS
<1>0. /\ register \in Seq(Clients) /\ conn \in [Clients -> {"none", "open", "broken", "closed"}]
      /\ sendClosed \in [Clients -> BOOLEAN] /\ registered \subseteq Clients
      /\ Len(register) \in Nat
      /\ \A i \in 1 .. Len(register) : register[i] \in Clients
  BY DEF TypeOK
<1>1. ASSUME NEW target \in Targets, Broadcast(target)
      PROVE  OpenInv'
  BY <1>1, OpenQuiet DEF Broadcast, clientVars
<1>2. ASSUME NEW c \in Clients, ServeWS(c)
      PROVE  OpenInv'
  <2>1. /\ Len(register') = Len(register) + 1
        /\ register'[Len(register')] = c
        /\ \A i \in 1 .. Len(register) : register'[i] = register[i]
    BY <1>0, <1>2 DEF ServeWS
  <2>2. conn[c] = "none" /\ conn'[c] = "open" /\ \A d \in Clients : d # c => conn'[d] = conn[d]
    BY <1>0, <1>2 DEF ServeWS
  <2>3. UNCHANGED <<panicked, todo, registered, sendClosed>>
    BY <1>2 DEF ServeWS, hubVars
  <2>4. c \notin registered /\ ~sendClosed[c] /\ \A i \in 1 .. Len(register) : register[i] # c
    BY <2>2 DEF OpenInv
  <2>5. \A i \in 1 .. Len(register') : i \in 1 .. Len(register) \/ i = Len(register')
    BY <1>0, <2>1
  <2> QED
    BY <1>0, <2>1, <2>2, <2>3, <2>4, <2>5 DEF OpenInv
<1>3. ASSUME NEW c \in Clients, Break(c)
      PROVE  OpenInv'
  BY <1>0, <1>3, OpenQuiet DEF Break, channels
<1>4. ASSUME NEW c \in Clients, ReadPump(c) \/ WritePump(c)
      PROVE  OpenInv'
  <2>1. CASE ReadFails(c) \/ Write(c) \/ SendIsClosed(c) \/ PingFails(c)
    BY <2>1, OpenQuiet DEF ReadFails, Write, SendIsClosed, PingFails, channels
  <2>2. CASE CloseByReader(c) \/ CloseByWriter(c)
    BY <1>0, <2>2, OpenQuiet DEF CloseByReader, CloseByWriter, Close
  <2> QED
    BY <1>4, <2>1, <2>2 DEF ReadPump, WritePump
<1>5. CASE HubRegister
  <2> DEFINE c == Head(register)
  <2>1. /\ Len(register') = Len(register) - 1 /\ Len(register) > 0
        /\ c = register[1] /\ c \in Clients
        /\ \A i \in 1 .. Len(register') : register'[i] = register[i + 1]
    BY <1>0, <1>5 DEF HubRegister
  <2>2. /\ registered' = registered \cup {c}
        /\ UNCHANGED <<panicked, todo, sendClosed, conn>>
    BY <1>5 DEF HubRegister, clientVars
  <2>3. \A i \in 1 .. Len(register') : i + 1 \in 1 .. Len(register) /\ i + 1 # 1
    BY <1>0, <2>1
  <2>4. ~sendClosed[c] /\ \A i \in 1 .. Len(register') : register'[i] # c
    BY <1>0, <2>1, <2>3 DEF OpenInv
  <2>5. conn[c] # "none"
    BY <1>0, <2>1 DEF OpenInv
  <2> HIDE DEF c
  <2>6. \A i, j \in 1 .. Len(register') : register'[i] = register'[j] => i = j
    BY <1>0, <2>1, <2>3 DEF OpenInv
  <2> QED
    BY <1>0, <2>1, <2>2, <2>3, <2>4, <2>5, <2>6 DEF OpenInv
<1>6. ASSUME NEW c \in registered, Evict(c), UNCHANGED <<register, conn>>,
             todo' \subseteq todo \ {c}
      PROVE  OpenInv'
  <2>1. \A i \in 1 .. Len(register) : register[i] # c
    BY <1>6 DEF OpenInv
  <2>2. /\ ~panicked' /\ registered' = registered \ {c}
        /\ \A d \in Clients : d # c => sendClosed'[d] = sendClosed[d]
    BY <1>0, <1>6 DEF OpenInv, Evict
  <2>3. conn[c] # "none"
    BY <1>0, <1>6 DEF OpenInv
  <2> QED
    BY <1>0, <1>6, <2>1, <2>2, <2>3 DEF OpenInv
<1>7. CASE HubUnregister
  <2>1. CASE Head(unregister) \in registered
    <3>1. UNCHANGED <<register, conn, todo>> /\ todo = {}
      BY <1>7 DEF HubUnregister, clientVars
    <3> QED
      BY <1>6, <1>7, <2>1, <3>1 DEF HubUnregister
  <2>2. CASE Head(unregister) \notin registered
    BY <1>7, <2>2, OpenQuiet DEF HubUnregister, hubVars, clientVars
  <2> QED
    BY <2>1, <2>2
<1>8. CASE HubBroadcast
  BY <1>8 DEF HubBroadcast, OpenInv, clientVars
<1>9. ASSUME NEW c \in Clients, Deliver(c)
      PROVE  OpenInv'
  <2>1. c \in registered /\ UNCHANGED <<register, conn>> /\ todo' = todo \ {c}
    BY <1>9 DEF Deliver, OpenInv, channels, clientVars
  <2>2. CASE Enqueue(c)
    BY <2>1, <2>2 DEF Enqueue, OpenInv
  <2>3. CASE Evict(c)
    BY <1>6, <2>1, <2>3
  <2> QED
    BY <1>9, <2>2, <2>3 DEF Deliver
<1>10. CASE UNCHANGED vars
  BY <1>10, OpenQuiet DEF vars, channels, clientVars
<1> QED
  BY <1>1, <1>2, <1>3, <1>4, <1>5, <1>7, <1>8, <1>9, <1>10 DEF Next, Reactor

(* So OpenInv is an invariant.                                              *)
LEMMA OpenAlways == Spec => [](TypeOK /\ OpenInv)
<1>1. Init => OpenInv
  BY DEF Init, OpenInv
<1> QED
  BY <1>1, OpenStep, TypeCorrect, PTL DEF Spec

(* Run never sends on a closed channel and never closes one twice, however  *)
(* the drop of a slow client interleaves with its own pumps' unregister.    *)
THEOREM HubNeverPanics == Spec => []NoPanic
<1>1. OpenInv => NoPanic
  BY DEF OpenInv, NoPanic
<1> QED
  BY <1>1, OpenAlways, PTL

-----------------------------------------------------------------------------
(* The metric *)

(* connCount is the size of the map after every case of select.             *)
THEOREM CountIsRegistered == Spec => []CountsRegistered
<1>1. Init => CountsRegistered
  BY FS_EmptySet DEF Init, CountsRegistered
<1>2. TypeOK /\ OpenInv /\ CountsRegistered /\ [Next]_vars => CountsRegistered'
  <2> SUFFICES ASSUME TypeOK, OpenInv, CountsRegistered, [Next]_vars PROVE CountsRegistered'
    OBVIOUS
  <2>0. IsFiniteSet(registered) /\ Cardinality(registered) \in Nat
    BY HubAssumption, FS_Subset, FS_CardinalityType DEF HubAssumption, TypeOK
  <2>1. ASSUME NEW c \in registered, Evict(c)
        PROVE  CountsRegistered'
    BY <2>0, <2>1, FS_RemoveElement DEF Evict, CountsRegistered
  <2>2. CASE HubRegister
    <3>1. Head(register) = register[1] /\ 1 \in 1 .. Len(register)
      BY <2>2 DEF HubRegister, TypeOK
    <3>2. Head(register) \notin registered
      BY <3>1 DEF OpenInv
    <3> QED
      BY <2>0, <2>2, <3>2, FS_AddElement DEF HubRegister, CountsRegistered
  <2>3. CASE HubUnregister
    BY <2>1, <2>3 DEF HubUnregister, CountsRegistered
  <2>4. ASSUME NEW c \in Clients, Deliver(c)
        PROVE  CountsRegistered'
    <3>1. c \in registered
      BY <2>4 DEF Deliver, OpenInv
    <3> QED
      BY <2>1, <2>4, <3>1 DEF Deliver, Enqueue, CountsRegistered
  <2>5. CASE UNCHANGED <<registered, connCount>>
    BY <2>5 DEF CountsRegistered
  <2>6. ASSUME NEW target \in Targets, Broadcast(target)
        PROVE  UNCHANGED <<registered, connCount>>
    BY <2>6 DEF Broadcast, hubVars
  <2>7. ASSUME NEW c \in Clients, ServeWS(c) \/ Break(c) \/ ReadPump(c) \/ WritePump(c)
        PROVE  UNCHANGED <<registered, connCount>>
    BY <2>7 DEF ServeWS, Break, ReadPump, WritePump, ReadFails, CloseByReader, Write, SendIsClosed,
                PingFails, CloseByWriter, hubVars
  <2>8. HubBroadcast => UNCHANGED <<registered, connCount>>
    BY DEF HubBroadcast
  <2>9. UNCHANGED vars => UNCHANGED <<registered, connCount>>
    BY DEF vars, hubVars
  <2> QED
    BY <2>2, <2>3, <2>4, <2>5, <2>6, <2>7, <2>8, <2>9 DEF Next, Reactor
<1> QED
  BY <1>1, <1>2, OpenAlways, PTL DEF Spec
-----------------------------------------------------------------------------
(* The feed *)

(* EventFeed again, with its lemmas.                                        *)
Feeds == INSTANCE EventFeedProofs WITH
  published <- taken,
  listening <- {c \in registered : conn[c] = "open" /\ writer[c] = "running"},
  mailbox <- [c \in Clients |-> Mailbox(c)]

(* Besides the open channels: nothing is in the channel of a client the     *)
(* reactor has not seen yet, and every event taken was called for.          *)
ReadyInv ==
  /\ calls <= MaxEvents /\ Len(taken) + Len(broadcast) <= calls
  /\ \A c \in Clients : conn[c] = "none" => send[c] = <<>> /\ received[c] = <<>>
  /\ \A i \in 1 .. Len(register) : send[register[i]] = <<>> /\ received[register[i]] = <<>>

(* Steps that touch none of these but a socket.                             *)
LEMMA ReadyQuiet ==
  ASSUME TypeOK, ReadyInv, UNCHANGED <<register, broadcast, send, calls, taken, received>>,
         \A c \in Clients : conn'[c] = "none" => conn[c] = "none"
  PROVE  ReadyInv'
  BY DEF ReadyInv

(* Every step keeps ReadyInv: only clients in the map are written to, and   *)
(* those are not in the channel of the newcomers.                           *)
LEMMA ReadyStep == TypeOK /\ OpenInv /\ ReadyInv /\ [Next]_vars => ReadyInv'
<1> SUFFICES ASSUME TypeOK, OpenInv, ReadyInv, [Next]_vars PROVE ReadyInv'
  OBVIOUS
<1>0. /\ register \in Seq(Clients) /\ Len(register) \in Nat
      /\ \A i \in 1 .. Len(register) : register[i] \in Clients
      /\ conn \in [Clients -> {"none", "open", "broken", "closed"}]
      /\ send \in [Clients -> Seq(Nat)] /\ received \in [Clients -> Seq(Nat)]
      /\ broadcast \in Seq(Targets) /\ taken \in Seq(Targets) /\ calls \in Nat /\ MaxEvents \in Nat
      /\ Len(broadcast) \in Nat /\ Len(taken) \in Nat /\ todo \subseteq registered
      /\ registered \subseteq Clients
  BY HubAssumption DEF TypeOK, OpenInv, HubAssumption
<1>1. ASSUME NEW target \in Targets, Broadcast(target)
      PROVE  ReadyInv'
  <2>1. calls' = calls + 1 /\ calls < MaxEvents /\ Len(broadcast') <= Len(broadcast) + 1 /\ Len(broadcast') \in Nat
    BY <1>0, <1>1 DEF Broadcast
  <2>2. UNCHANGED <<register, send, taken, received, conn>>
    BY <1>1 DEF Broadcast, clientVars, history
  <2> QED
    BY <1>0, <2>1, <2>2 DEF ReadyInv
<1>2. ASSUME NEW c \in Clients, ServeWS(c)
      PROVE  ReadyInv'
  <2>1. /\ Len(register') = Len(register) + 1 /\ register'[Len(register')] = c
        /\ \A i \in 1 .. Len(register) : register'[i] = register[i]
    BY <1>0, <1>2 DEF ServeWS
  <2>2. conn[c] = "none" /\ conn'[c] = "open" /\ \A d \in Clients : d # c => conn'[d] = conn[d]
    BY <1>0, <1>2 DEF ServeWS
  <2>3. UNCHANGED <<broadcast, send, calls, taken, received>>
    BY <1>2 DEF ServeWS, history
  <2>4. \A i \in 1 .. Len(register') : i \in 1 .. Len(register) \/ i = Len(register')
    BY <1>0, <2>1
  <2> QED
    BY <1>0, <2>1, <2>2, <2>3, <2>4 DEF ReadyInv
<1>3. ASSUME NEW c \in Clients,
             Break(c) \/ ReadFails(c) \/ SendIsClosed(c) \/ PingFails(c)
      PROVE  ReadyInv'
  <2>1. UNCHANGED <<register, broadcast, send, calls, taken, received>>
    BY <1>3 DEF Break, ReadFails, SendIsClosed, PingFails, channels, history
  <2>2. \A d \in Clients : conn'[d] = "none" => conn[d] = "none"
    BY <1>0, <1>3 DEF Break, ReadFails, SendIsClosed, PingFails
  <2> QED
    BY <2>1, <2>2, ReadyQuiet
<1>4. ASSUME NEW c \in Clients, CloseByReader(c) \/ CloseByWriter(c)
      PROVE  ReadyInv'
  <2>1. UNCHANGED <<register, broadcast, send, calls, taken, received>>
    BY <1>4 DEF CloseByReader, CloseByWriter, history
  <2>2. \A d \in Clients : conn'[d] = "none" => conn[d] = "none"
    BY <1>0, <1>4 DEF CloseByReader, CloseByWriter, Close
  <2> QED
    BY <2>1, <2>2, ReadyQuiet
<1>5. ASSUME NEW c \in Clients, Write(c)
      PROVE  ReadyInv'
  <2>1. UNCHANGED <<register, broadcast, calls, taken, conn>>
    BY <1>5 DEF Write, channels
  <2>2. \A d \in Clients : d # c => send'[d] = send[d] /\ received'[d] = received[d]
    BY <1>0, <1>5 DEF Write
  <2>3. send[c] # <<>> /\ conn[c] # "none"
    BY <1>5 DEF Write
  <2> QED
    BY <1>0, <2>1, <2>2, <2>3 DEF ReadyInv
<1>6. CASE HubRegister
  <2>1. /\ Len(register') = Len(register) - 1
        /\ \A i \in 1 .. Len(register') : register'[i] = register[i + 1] /\ i + 1 \in 1 .. Len(register)
    BY <1>0, <1>6 DEF HubRegister
  <2>2. UNCHANGED <<broadcast, send, calls, taken, received, conn>>
    BY <1>6 DEF HubRegister, clientVars
  <2> QED
    BY <2>1, <2>2 DEF ReadyInv
<1>7. CASE HubUnregister
  BY <1>7, ReadyQuiet DEF HubUnregister, clientVars, history
<1>8. CASE HubBroadcast
  <2>1. Len(broadcast') = Len(broadcast) - 1 /\ Len(taken') = Len(taken) + 1
    BY <1>0, <1>8 DEF HubBroadcast
  <2>2. UNCHANGED <<register, send, calls, received, conn>>
    BY <1>8 DEF HubBroadcast, clientVars
  <2> QED
    BY <1>0, <2>1, <2>2 DEF ReadyInv
<1>9. ASSUME NEW c \in Clients, Deliver(c)
      PROVE  ReadyInv'
  <2>1. UNCHANGED <<register, broadcast, calls, taken, received, conn>>
    BY <1>9 DEF Deliver, channels, clientVars, history
  <2>2. \A d \in Clients : d # c => send'[d] = send[d]
    BY <1>0, <1>9 DEF Deliver, Enqueue
  <2>3. c \in registered
    BY <1>0, <1>9 DEF Deliver
  <2>4. conn[c] # "none" /\ \A i \in 1 .. Len(register) : register[i] # c
    BY <1>0, <2>3 DEF OpenInv
  <2> QED
    BY <1>0, <2>1, <2>2, <2>4 DEF ReadyInv
<1>10. CASE UNCHANGED vars
  BY <1>10, ReadyQuiet DEF vars, channels, clientVars, history
<1> QED
  BY <1>1, <1>2, <1>3, <1>4, <1>5, <1>6, <1>7, <1>8, <1>9, <1>10 DEF Next, Reactor, ReadPump, WritePump

(* So the three are invariants together.                                    *)
LEMMA ReadyAlways == Spec => [](TypeOK /\ OpenInv /\ ReadyInv)
<1>1. Init => ReadyInv
  <2>1. MaxEvents \in Nat
    BY HubAssumption DEF HubAssumption
  <2>2. Len(<<>>) = 0
    OBVIOUS
  <2> QED
    BY <2>1, <2>2 DEF Init, ReadyInv
<1> QED
  BY <1>1, ReadyStep, OpenAlways, PTL DEF Spec

-----------------------------------------------------------------------------
(* What a step of the reactor or of a pump is for the feed *)

(* The clients the feed takes for listening.                                *)
Listening == {c \in registered : conn[c] = "open" /\ writer[c] = "running"}

(* Nothing that a mailbox is made of changes.                               *)
LEMMA MailboxQuiet ==
  ASSUME NEW c, conn'[c] = conn[c], writer'[c] = writer[c], send'[c] = send[c],
         c \in todo' <=> c \in todo, UNCHANGED taken
  PROVE  Mailbox(c)' = Mailbox(c)
  BY DEF Mailbox

(* A mailbox is a sequence of event numbers.                                *)
LEMMA MailboxType ==
  ASSUME TypeOK, NEW c \in Clients
  PROVE  Mailbox(c) \in Seq(Nat)
<1>1. send[c] \in Seq(Nat) /\ Len(taken) \in Nat /\ <<>> \in Seq(Nat)
  BY DEF TypeOK
<1>2. <<Len(taken)>> \in Seq(Nat)
  BY <1>1
<1> QED
  BY <1>1, <1>2 DEF Mailbox

(* The feed stands still.                                                   *)
LEMMA FeedStutters ==
  ASSUME \A c \in Clients : Mailbox(c)' = Mailbox(c), Listening' = Listening,
         UNCHANGED <<taken, joinedAt, received>>
  PROVE  UNCHANGED Feeds!vars
  BY DEF Feeds!vars, Listening

(* One client, listening or not, is cut off and keeps n events.             *)
LEMMA FeedCutsOff ==
  ASSUME NEW c \in Clients, NEW n \in 0 .. Len(Mailbox(c)),
         Mailbox(c)' = SubSeq(Mailbox(c), 1, n),
         \A d \in Clients : d # c => Mailbox(d)' = Mailbox(d),
         Listening' = Listening \ {c}, UNCHANGED <<taken, joinedAt, received>>
  PROVE  Feeds!Next
<1> DEFINE boxes == [d \in Clients |-> Mailbox(d)]
<1>1. boxes[c] = Mailbox(c)
  OBVIOUS
<1>2. boxes' = [boxes EXCEPT ![c] = SubSeq(boxes[c], 1, n)]
  OBVIOUS
<1>3. \E m \in 0 .. Len(boxes[c]) : boxes' = [boxes EXCEPT ![c] = SubSeq(boxes[c], 1, m)]
  BY <1>1, <1>2
<1>4. Feeds!CutOff(c)
  BY <1>3 DEF Feeds!CutOff, Listening
<1> QED
  BY <1>4 DEF Feeds!Next

(* A client without a mailbox loses nothing when its socket or its          *)
(* writePump goes.                                                          *)
LEMMA FeedLoses ==
  ASSUME TypeOK, NEW c \in Clients, Mailbox(c)' = <<>>,
         \A d \in Clients : d # c => Mailbox(d)' = Mailbox(d),
         Listening' = Listening \ {c}, UNCHANGED <<taken, joinedAt, received>>
  PROVE  Feeds!Next
<1>1. Mailbox(c) \in Seq(Nat)
  BY MailboxType
<1>2. 0 \in 0 .. Len(Mailbox(c)) /\ SubSeq(Mailbox(c), 1, 0) = <<>>
  BY <1>1
<1> QED
  BY <1>2, FeedCutsOff

(* The steps of the reactor: a client joins, an event is published, a slow  *)
(* client is cut off.                                                       *)
LEMMA ReactorImplements ==
  ASSUME TypeOK, OpenInv, ReadyInv, Reactor
  PROVE  Feeds!Next \/ UNCHANGED Feeds!vars
<1>0. /\ register \in Seq(Clients) /\ Len(register) \in Nat /\ registered \subseteq Clients
      /\ send \in [Clients -> Seq(Nat)] /\ joinedAt \in [Clients -> Nat]
      /\ broadcast \in Seq(Targets) /\ taken \in Seq(Targets) /\ Len(taken) \in Nat
      /\ todo \subseteq registered /\ calls \in Nat /\ MaxEvents \in Nat
      /\ \A c \in Clients : send[c] \in Seq(Nat) /\ Len(send[c]) \in Nat
  BY HubAssumption DEF TypeOK, OpenInv, HubAssumption
<1>1. CASE HubRegister
  <2>0. PICK c \in Clients : c = Head(register)
    BY <1>0, <1>1 DEF HubRegister
  <2>1. /\ 1 \in 1 .. Len(register) /\ c = register[1]
        /\ todo = {} /\ registered' = registered \cup {c}
        /\ joinedAt' = [joinedAt EXCEPT ![c] = Len(taken)]
        /\ UNCHANGED <<todo, send, conn, writer, taken, received>>
    BY <1>0, <1>1, <2>0 DEF HubRegister, clientVars
  <2>2. c \notin registered /\ send[c] = <<>> /\ received[c] = <<>>
    BY <2>1 DEF OpenInv, ReadyInv
  <2>3. Mailbox(c) = <<>>
    <3>1. <<>> \o <<>> = <<>>
      OBVIOUS
    <3> QED
      BY <2>1, <2>2, <3>1 DEF Mailbox
  <2>4. \A d \in Clients : Mailbox(d)' = Mailbox(d)
    BY <2>1, MailboxQuiet
  <2>5. c \notin Listening /\ Listening' \in {Listening, Listening \cup {c}}
    BY <2>1, <2>2 DEF Listening
  <2>6. Feeds!Join(c)
    BY <2>1, <2>2, <2>3, <2>4, <2>5 DEF Feeds!Join, Listening
  <2> QED
    BY <2>6 DEF Feeds!Next
<1>2. CASE HubBroadcast
  <2> DEFINE target == Head(broadcast)
  <2>1. /\ target \in Targets /\ Len(broadcast) > 0 /\ Len(broadcast) \in Nat
        /\ todo = {} /\ todo' = {c \in registered : target \in Listens[c]}
        /\ taken' = Append(taken, target) /\ Len(taken') = Len(taken) + 1
        /\ UNCHANGED <<registered, send, conn, writer, joinedAt, received>>
    BY <1>0, <1>2 DEF HubBroadcast, clientVars
  <2> HIDE DEF target
  <2>2. Len(taken) < MaxEvents
    BY <1>0, <2>1 DEF ReadyInv
  <2>3. \A c \in Clients :
          Mailbox(c)' = IF c \in Listening /\ Feeds!Addressed(c, target)
                        THEN Append(Mailbox(c), Len(taken')) ELSE Mailbox(c)
    <3> SUFFICES ASSUME NEW c \in Clients
                 PROVE  Mailbox(c)' = IF c \in Listening /\ Feeds!Addressed(c, target)
                                      THEN Append(Mailbox(c), Len(taken')) ELSE Mailbox(c)
      OBVIOUS
    <3>0. send[c] \o <<>> = send[c] /\ send[c] \o <<Len(taken')>> = Append(send[c], Len(taken'))
      BY <1>0
    <3>1. c \in todo' <=> c \in registered /\ Feeds!Addressed(c, target)
      BY <2>1 DEF Feeds!Addressed
    <3>2. CASE conn[c] \in {"none", "broken", "closed"} \/ writer[c] # "running"
      BY <2>1, <3>2 DEF Mailbox, Listening
    <3>3. CASE conn[c] \notin {"none", "broken", "closed"} /\ writer[c] = "running"
      <4>1. conn[c] = "open"
        BY <3>3 DEF TypeOK
      <4>2. c \in Listening <=> c \in registered
        BY <3>3, <4>1 DEF Listening
      <4>3. Mailbox(c) = send[c]
        BY <2>1, <3>0, <3>3 DEF Mailbox
      <4>4. Mailbox(c)' = send[c] \o (IF c \in todo' THEN <<Len(taken')>> ELSE <<>>)
        BY <2>1, <3>3 DEF Mailbox
      <4> QED
        BY <3>0, <3>1, <4>2, <4>3, <4>4
    <3> QED
      BY <3>2, <3>3
  <2>4. Listening' = Listening
    BY <2>1 DEF Listening
  <2>5. Feeds!Publish(target)
    BY <2>1, <2>2, <2>3, <2>4 DEF Feeds!Publish, Listening
  <2> QED
    BY <2>1, <2>5 DEF Feeds!Next
<1>3. ASSUME NEW c \in Clients, Evict(c), todo' = todo \ {c},
             UNCHANGED <<send, conn, writer, taken, joinedAt, received>>
      PROVE  Feeds!Next
  <2>1. Listening' = Listening \ {c}
    BY <1>3 DEF Evict, Listening
  <2>2. \A d \in Clients : d # c => Mailbox(d)' = Mailbox(d)
    BY <1>3, MailboxQuiet
  <2>3. CASE conn[c] \in {"none", "broken", "closed"} \/ writer[c] # "running"
    <3>1. Mailbox(c)' = <<>>
      BY <1>3, <2>3 DEF Mailbox
    <3> QED
      BY <1>3, <2>1, <2>2, <3>1, FeedLoses
  <2>4. CASE conn[c] \notin {"none", "broken", "closed"} /\ writer[c] = "running"
    <3>1. /\ send[c] \o <<>> = send[c]
          /\ Len(send[c] \o <<Len(taken)>>) = Len(send[c]) + 1
          /\ SubSeq(send[c] \o <<Len(taken)>>, 1, Len(send[c])) = send[c]
          /\ SubSeq(send[c], 1, Len(send[c])) = send[c]
      BY <1>0
    <3>2. Mailbox(c)' = send[c]
      BY <1>3, <2>4, <3>1 DEF Mailbox
    <3>3. Mailbox(c) \in {send[c], send[c] \o <<Len(taken)>>}
      BY <2>4, <3>1 DEF Mailbox
    <3>4. Len(send[c]) \in 0 .. Len(Mailbox(c)) /\ Mailbox(c)' = SubSeq(Mailbox(c), 1, Len(send[c]))
      BY <1>0, <3>1, <3>2, <3>3
    <3> QED
      BY <1>3, <2>1, <2>2, <3>4, FeedCutsOff
  <2> QED
    BY <2>3, <2>4
<1>4. CASE HubUnregister
  <2>0. todo = {} /\ UNCHANGED <<todo, send, conn, writer, taken, joinedAt, received>>
    BY <1>4 DEF HubUnregister, clientVars, history
  <2>1. CASE Head(unregister) \in registered
    <3>1. Evict(Head(unregister)) /\ Head(unregister) \in Clients
      BY <1>0, <1>4, <2>1 DEF HubUnregister
    <3> QED
      BY <1>3, <2>0, <3>1
  <2>2. CASE Head(unregister) \notin registered
    <3>1. UNCHANGED registered
      BY <1>4, <2>2 DEF HubUnregister
    <3>2. \A d \in Clients : Mailbox(d)' = Mailbox(d)
      BY <2>0, MailboxQuiet
    <3>3. Listening' = Listening
      BY <2>0, <3>1 DEF Listening
    <3> QED
      BY <2>0, <3>2, <3>3, FeedStutters
  <2> QED
    BY <2>1, <2>2
<1>5. ASSUME NEW c \in Clients, Deliver(c)
      PROVE  Feeds!Next \/ UNCHANGED Feeds!vars
  <2>1. c \in todo /\ todo' = todo \ {c} /\ UNCHANGED <<conn, writer, taken, joinedAt, received>>
    BY <1>5 DEF Deliver, clientVars, history
  <2>2. CASE Evict(c) /\ UNCHANGED send
    BY <1>3, <2>1, <2>2
  <2>3. CASE Enqueue(c)
    <3>1. send' = [send EXCEPT ![c] = Append(send[c], Len(taken))] /\ UNCHANGED registered
      BY <2>3 DEF Enqueue
    <3>2. \A d \in Clients : d # c => Mailbox(d)' = Mailbox(d)
      BY <1>0, <2>1, <3>1, MailboxQuiet
    <3>3. Mailbox(c)' = Mailbox(c)
      <4>1. /\ send'[c] = Append(send[c], Len(taken))
            /\ Append(send[c], Len(taken)) \o <<>> = send[c] \o <<Len(taken)>>
        BY <1>0, <3>1
      <4> QED
        BY <2>1, <4>1 DEF Mailbox
    <3>4. Listening' = Listening
      BY <2>1, <3>1 DEF Listening
    <3> QED
      BY <2>1, <3>2, <3>3, <3>4, FeedStutters
  <2> QED
    BY <1>5, <2>2, <2>3 DEF Deliver
<1> QED
  BY <1>1, <1>2, <1>4, <1>5 DEF Reactor

(* The first of what waits in two queues is the first of the first one.     *)
LEMMA TakeFirst ==
  ASSUME NEW u \in Seq(Nat), NEW v \in Seq(Nat), u # <<>>
  PROVE  /\ u \o v # <<>> /\ Head(u \o v) = Head(u)
         /\ Tail(u \o v) = Tail(u) \o v
<1>1. Len(u) \in Nat /\ Len(v) \in Nat /\ Len(u) > 0
  OBVIOUS
<1>2. /\ u \o v \in Seq(Nat) /\ Len(u \o v) = Len(u) + Len(v)
      /\ \A i \in 1 .. Len(u) + Len(v) : (u \o v)[i] = IF i <= Len(u) THEN u[i] ELSE v[i - Len(u)]
  BY ConcatProperties
<1>3. u \o v # <<>> /\ Head(u \o v) = Head(u)
  BY <1>1, <1>2
<1>4. /\ Tail(u \o v) \in Seq(Nat) /\ Len(Tail(u \o v)) = Len(u) + Len(v) - 1
      /\ \A i \in 1 .. Len(Tail(u \o v)) : Tail(u \o v)[i] = (u \o v)[i + 1]
  BY <1>2, <1>3, HeadTailProperties
<1>5. /\ Tail(u) \in Seq(Nat) /\ Len(Tail(u)) = Len(u) - 1
      /\ \A i \in 1 .. Len(Tail(u)) : Tail(u)[i] = u[i + 1]
  BY HeadTailProperties
<1>6. /\ Tail(u) \o v \in Seq(Nat) /\ Len(Tail(u) \o v) = Len(Tail(u)) + Len(v)
      /\ \A i \in 1 .. Len(Tail(u)) + Len(v) :
           (Tail(u) \o v)[i] = IF i <= Len(Tail(u)) THEN Tail(u)[i] ELSE v[i - Len(Tail(u))]
  BY <1>5, ConcatProperties
<1>7. ASSUME NEW i \in 1 .. Len(Tail(u \o v))
      PROVE  Tail(u \o v)[i] = (Tail(u) \o v)[i]
  <2>1. i + 1 \in 1 .. Len(u) + Len(v) /\ i \in 1 .. Len(Tail(u)) + Len(v)
    BY <1>1, <1>4, <1>5
  <2>2. Tail(u \o v)[i] = IF i + 1 <= Len(u) THEN u[i + 1] ELSE v[i + 1 - Len(u)]
    BY <1>2, <1>4, <2>1
  <2>3. (Tail(u) \o v)[i] = IF i <= Len(Tail(u)) THEN Tail(u)[i] ELSE v[i - Len(Tail(u))]
    BY <1>6, <2>1
  <2>4. CASE i + 1 <= Len(u)
    BY <1>1, <1>5, <2>1, <2>2, <2>3, <2>4
  <2>5. CASE ~(i + 1 <= Len(u))
    <3>1. i + 1 - Len(u) = i - Len(Tail(u)) /\ ~(i <= Len(Tail(u)))
      BY <1>1, <1>5, <2>1, <2>5
    <3> QED
      BY <2>2, <2>3, <2>5, <3>1
  <2> QED
    BY <2>4, <2>5
<1>8. Tail(u \o v) = Tail(u) \o v
  BY <1>1, <1>4, <1>5, <1>6, <1>7, SeqEqual
<1> QED
  BY <1>3, <1>8

(* The steps of a connection: its writePump receives, or it is cut off.     *)
LEMMA ConnectionImplements ==
  ASSUME TypeOK, OpenInv, ReadyInv, NEW c \in Clients,
         ServeWS(c) \/ Break(c) \/ ReadPump(c) \/ WritePump(c)
  PROVE  Feeds!Next \/ UNCHANGED Feeds!vars
<1>0. /\ registered \subseteq Clients /\ todo \subseteq registered
      /\ send \in [Clients -> Seq(Nat)] /\ Len(taken) \in Nat
      /\ conn \in [Clients -> {"none", "open", "broken", "closed"}]
      /\ writer \in [Clients -> PumpStates]
      /\ received \in [Clients -> Seq(Nat)]
  BY DEF TypeOK, OpenInv
<1>1. UNCHANGED <<registered, todo, taken, joinedAt>>
  <2>1. UNCHANGED <<hubVars, taken, joinedAt>>
    BY DEF ServeWS, Break, ReadPump, WritePump, ReadFails, CloseByReader, Write, SendIsClosed,
           PingFails, CloseByWriter, history
  <2> QED
    BY <2>1 DEF hubVars
<1>2. \A d \in Clients : d # c => /\ conn'[d] = conn[d] /\ writer'[d] = writer[d]
                                  /\ send'[d] = send[d] /\ received'[d] = received[d]
  BY <1>0 DEF ServeWS, Break, ReadPump, WritePump, ReadFails, CloseByReader, Write, SendIsClosed,
              PingFails, CloseByWriter, Close, history
<1>3. \A d \in Clients : d # c => Mailbox(d)' = Mailbox(d)
  BY <1>1, <1>2, MailboxQuiet
<1>4. \A d \in Clients : d # c => (d \in Listening' <=> d \in Listening)
  BY <1>1, <1>2 DEF Listening
<1>5. Listening \subseteq Clients /\ Listening' \subseteq Clients
  BY <1>0, <1>1 DEF Listening
<1>6. ASSUME Mailbox(c)' = Mailbox(c), c \in Listening' <=> c \in Listening, UNCHANGED received
      PROVE  UNCHANGED Feeds!vars
  <2>1. Listening' = Listening
    BY <1>4, <1>5, <1>6
  <2> QED
    BY <1>1, <1>3, <1>6, <2>1, FeedStutters
<1>7. ASSUME Mailbox(c)' = <<>>, c \notin Listening', UNCHANGED received
      PROVE  Feeds!Next
  <2>1. Listening' = Listening \ {c}
    BY <1>4, <1>5, <1>7
  <2> QED
    BY <1>1, <1>3, <1>7, <2>1, FeedLoses
<1>8. CASE ServeWS(c)
  <2>1. conn[c] = "none" /\ UNCHANGED <<send, received>>
    BY <1>8 DEF ServeWS, history
  <2>2. c \notin registered /\ c \notin todo /\ send[c] = <<>>
    BY <1>0, <2>1 DEF OpenInv, ReadyInv
  <2>3. <<>> \o <<>> = <<>>
    OBVIOUS
  <2>4. Mailbox(c)' = <<>> /\ c \notin Listening'
    BY <1>1, <2>1, <2>2, <2>3 DEF Mailbox, Listening
  <2> QED
    BY <1>7, <2>1, <2>4
<1>9. CASE Break(c)
  <2>1. conn'[c] = "broken" /\ UNCHANGED received
    BY <1>0, <1>9 DEF Break, history
  <2>2. Mailbox(c)' = <<>> /\ c \notin Listening'
    BY <2>1 DEF Mailbox, Listening
  <2> QED
    BY <1>7, <2>1, <2>2
<1>10. CASE ReadFails(c)
  <2>1. UNCHANGED <<conn, writer, send, received>>
    BY <1>10 DEF ReadFails, history
  <2> QED
    BY <1>1, <1>6, <2>1, MailboxQuiet DEF Listening
<1>11. CASE CloseByReader(c) \/ CloseByWriter(c)
  <2>1. conn'[c] = "closed" /\ UNCHANGED received
    BY <1>0, <1>11 DEF CloseByReader, CloseByWriter, Close, history
  <2>2. Mailbox(c)' = <<>> /\ c \notin Listening'
    BY <2>1 DEF Mailbox, Listening
  <2> QED
    BY <1>7, <2>1, <2>2
<1>12. CASE SendIsClosed(c) \/ PingFails(c)
  <2>1. writer'[c] = "closing" /\ UNCHANGED received
    BY <1>0, <1>12 DEF SendIsClosed, PingFails, history
  <2>2. Mailbox(c)' = <<>> /\ c \notin Listening'
    BY <2>1 DEF Mailbox, Listening
  <2> QED
    BY <1>7, <2>1, <2>2
<1>13. CASE Write(c)
  <2>1. writer[c] = "running" /\ send[c] # <<>> /\ send'[c] = Tail(send[c]) /\ UNCHANGED conn
    BY <1>0, <1>13 DEF Write
  <2>2. CASE conn[c] # "open"
    <3>1. conn[c] \in {"broken", "closed"} /\ UNCHANGED received
      BY <1>13, <2>2 DEF Write
    <3>2. Mailbox(c)' = <<>> /\ c \notin Listening'
      BY <2>1, <2>2, <3>1 DEF Mailbox, Listening
    <3> QED
      BY <1>7, <3>1, <3>2
  <2>3. CASE conn[c] = "open"
    <3> DEFINE next == IF c \in todo THEN <<Len(taken)>> ELSE <<>>
               boxes == [d \in Clients |-> Mailbox(d)]
    <3>1. /\ UNCHANGED writer
          /\ received' = [received EXCEPT ![c] = Append(received[c], Head(send[c]))]
      BY <1>13, <2>3 DEF Write
    <3>2. Mailbox(c) = send[c] \o next /\ Mailbox(c)' = Tail(send[c]) \o next
      BY <1>1, <2>1, <2>3, <3>1 DEF Mailbox
    <3>3. next \in Seq(Nat) /\ send[c] \in Seq(Nat)
      BY <1>0
    <3> HIDE DEF next
    <3>4. /\ send[c] \o next # <<>> /\ Head(send[c] \o next) = Head(send[c])
          /\ Tail(send[c] \o next) = Tail(send[c]) \o next
      BY <2>1, <3>3, TakeFirst
    <3>5. Listening' = Listening
      BY <1>1, <2>1, <3>1 DEF Listening
    <3>6. boxes[c] = Mailbox(c) /\ boxes' = [boxes EXCEPT ![c] = Tail(boxes[c])]
      <4>1. \A d \in Clients : Mailbox(d)' = IF d = c THEN Tail(Mailbox(c)) ELSE Mailbox(d)
        BY <1>3, <3>2, <3>4
      <4> QED
        BY <4>1
    <3>7. boxes[c] # <<>> /\ Head(boxes[c]) = Head(send[c])
      BY <3>2, <3>4, <3>6
    <3>8. Feeds!Receive(c)
      BY <1>1, <3>1, <3>5, <3>6, <3>7 DEF Feeds!Receive, Listening
    <3> QED
      BY <3>8 DEF Feeds!Next
  <2> QED
    BY <2>2, <2>3
<1> QED
  BY <1>6, <1>7, <1>8, <1>9, <1>10, <1>11, <1>12, <1>13 DEF ReadPump, WritePump

(* The channels, the drops of slow clients and the closing of sockets       *)
(* implement the feed: whatever the order of the goroutines, no client      *)
(* misses an event and gets a later one.                                    *)
THEOREM HubImplementsFeed == Spec => ImplementsFeed
<1>1. Init => Feed!Init
  <2> SUFFICES ASSUME Init PROVE Feed!Init
    OBVIOUS
  <2>1. \A c \in Clients : Mailbox(c) = <<>>
    BY DEF Init, Mailbox
  <2> QED
    BY <2>1 DEF Init, Feed!Init
<1>2. TypeOK /\ OpenInv /\ ReadyInv /\ [Next]_vars => [Feeds!Next]_(Feeds!vars)
  <2> SUFFICES ASSUME TypeOK, OpenInv, ReadyInv, [Next]_vars PROVE Feeds!Next \/ UNCHANGED Feeds!vars
    OBVIOUS
  <2>1. ASSUME NEW target \in Targets, Broadcast(target)
        PROVE  UNCHANGED Feeds!vars
    <3>1. UNCHANGED <<hubVars, send, clientVars, history>>
      BY <2>1 DEF Broadcast
    <3>2. \A c \in Clients : Mailbox(c)' = Mailbox(c)
      BY <3>1, MailboxQuiet DEF hubVars, clientVars, history
    <3> QED
      BY <3>1, <3>2, FeedStutters DEF hubVars, clientVars, history, Listening
  <2>2. CASE UNCHANGED vars
    <3>1. \A c \in Clients : Mailbox(c)' = Mailbox(c)
      BY <2>2, MailboxQuiet DEF vars, hubVars, clientVars, history
    <3> QED
      BY <2>2, <3>1, FeedStutters DEF vars, hubVars, clientVars, history, Listening
  <2> QED
    BY <2>1, <2>2, ReactorImplements, ConnectionImplements DEF Next
<1>3. [Feeds!Next]_(Feeds!vars) => [Feed!Next]_(Feed!vars)
  BY DEF Feeds!Next, Feed!Next, Feeds!vars, Feed!vars, Feeds!Publish, Feed!Publish, Feeds!Join, Feed!Join,
         Feeds!Receive, Feed!Receive, Feeds!CutOff, Feed!CutOff, Feeds!Addressed, Feed!Addressed
<1> QED
  BY <1>1, <1>2, <1>3, ReadyAlways, PTL DEF Spec, ImplementsFeed, Feed!Spec

(* What a connection has received, and what waits for it, is the events due *)
(* to it since it was registered, in order and without a gap: the hub has   *)
(* it from the feed.                                                        *)
THEOREM HubHasNoGaps == Spec => []NoGaps
<1>1. Feed!Spec => Feeds!Spec
  <2>1. Feed!Init => Feeds!Init
    BY DEF Feed!Init, Feeds!Init
  <2>2. [Feed!Next]_(Feed!vars) => [Feeds!Next]_(Feeds!vars)
    BY DEF Feeds!Next, Feed!Next, Feeds!vars, Feed!vars, Feeds!Publish, Feed!Publish, Feeds!Join, Feed!Join,
           Feeds!Receive, Feed!Receive, Feeds!CutOff, Feed!CutOff, Feeds!Addressed, Feed!Addressed
  <2> QED
    BY <2>1, <2>2, PTL DEF Feed!Spec, Feeds!Spec
<1>2. Feeds!NoGaps => NoGaps
  BY DEF Feeds!Cardinality, Feed!Cardinality, Feeds!NoGaps, NoGaps, Feed!NoGaps, Feeds!Due, Feed!Due, Feeds!Addressed, Feed!Addressed
<1>3. Feeds!Spec => []Feeds!NoGaps
  BY Feeds!FeedHasNoGaps
<1> QED
  BY <1>1, <1>2, <1>3, HubImplementsFeed, PTL DEF ImplementsFeed
=============================================================================
