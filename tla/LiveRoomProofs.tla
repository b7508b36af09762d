---------------------------- MODULE LiveRoomProofs ----------------------------
(***************************************************************************)
(* Theorems about LiveRoom for every set of students, questions, requests  *)
(* and screens, every choice of mishaps, and a teacher in any hurry.  What *)
(* was proved of the steps of the handlers alone is taken over.            *)
(***************************************************************************)
EXTENDS LiveRoom, TLAPS

(* RoomSession again, with its lemmas.                                      *)
Handlers == INSTANCE RoomProgressProofs

-----------------------------------------------------------------------------
(* Server and Handlers are the same module: their definitions agree. *)

(* What the actions are made of: calls, reads, statements.                  *)
LEMMA SamePlumbing ==
  /\ Server!Idle = Handlers!Idle /\ Server!Requests = Handlers!Requests
  /\ \A r, e : Server!Calls(r, e) <=> Handlers!Calls(r, e)
  /\ \A r, p : Server!Reads(r, p) <=> Handlers!Reads(r, p)
  /\ \A r, p : Server!Then(r, p) <=> Handlers!Then(r, p)
  /\ \A status : Server!Announcing(status) = Handlers!Announcing(status)
  /\ \A from, to : Server!SetStatus(from, to) <=> Handlers!SetStatus(from, to)
  /\ \A q, asked : Server!SetCurrentQuestion(q, asked) <=> Handlers!SetCurrentQuestion(q, asked)
  /\ \A s, q, n : Server!InsertAnswer(s, q, n) <=> Handlers!InsertAnswer(s, q, n)
  /\ \A order, asked : Server!Unasked(order, asked) = Handlers!Unasked(order, asked)
  BY DEF Server!Idle, Handlers!Idle, Server!Requests, Handlers!Requests,
     Server!Calls, Handlers!Calls, Server!Reads, Handlers!Reads, Server!Then, Handlers!Then,
     Server!storeVars, Handlers!storeVars, Server!Announcing, Handlers!Announcing,
     Server!SetStatus, Handlers!SetStatus, Server!SetCurrentQuestion, Handlers!SetCurrentQuestion,
     Server!InsertAnswer, Handlers!InsertAnswer, Server!Answered, Handlers!Answered,
     Server!Unasked, Handlers!Unasked, Server!ToSet, Handlers!ToSet

(* The actions of the teacher's handlers, and a request that is cut off.    *)
LEMMA SameHostActions ==
  ASSUME NEW h
  PROVE  /\ Server!StartRoom(h) <=> Handlers!StartRoom(h)
         /\ Server!NextQuestion(h) <=> Handlers!NextQuestion(h)
         /\ Server!ReviewQuestion(h) <=> Handlers!ReviewQuestion(h)
         /\ Server!FinishRoom(h) <=> Handlers!FinishRoom(h)
         /\ Server!ActivateQuestion(h) <=> Handlers!ActivateQuestion(h)
         /\ Server!CloseRoom(h) <=> Handlers!CloseRoom(h)
         /\ Server!ShowReview(h) <=> Handlers!ShowReview(h)
         /\ Server!Announce(h) <=> Handlers!Announce(h)
         /\ Server!Abort(h) <=> Handlers!Abort(h)
  BY SamePlumbing
  DEF Server!StartRoom, Handlers!StartRoom, Server!SoloModes, Handlers!SoloModes,
      Server!NextQuestion, Handlers!NextQuestion, Server!ReviewQuestion, Handlers!ReviewQuestion,
      Server!FinishRoom, Handlers!FinishRoom, Server!ActivateQuestion, Handlers!ActivateQuestion,
      Server!CloseRoom, Handlers!CloseRoom, Server!ShowReview, Handlers!ShowReview,
      Server!Announce, Handlers!Announce, Server!Abort, Handlers!Abort

(* The actions of the handler SubmitAnswer.                                 *)
LEMMA SameStudentActions ==
  ASSUME NEW s, NEW t
  PROVE  /\ Server!SubmitAnswer(s, t) <=> Handlers!SubmitAnswer(s, t)
         /\ Server!SaveAnswer(s, t) <=> Handlers!SaveAnswer(s, t)
  BY SamePlumbing
  DEF Server!SubmitAnswer, Handlers!SubmitAnswer, Server!SaveAnswer, Handlers!SaveAnswer

(* The types of the tables and of the statements in flight.                 *)
LEMMA SameTypes ==
  /\ Server!TypeOK <=> Handlers!TypeOK
  /\ Server!Pending = Handlers!Pending
  BY DEF Server!TypeOK, Handlers!TypeOK, Server!StoreTypeOK, Handlers!StoreTypeOK,
     Server!Room, Handlers!Room, Server!Participant, Handlers!Participant,
     Server!Answer, Handlers!Answer, Server!Pending, Handlers!Pending,
     Server!Statuses, Handlers!Statuses, Server!Requests, Handlers!Requests

(* The two properties of the queue.                                         *)
LEMMA SameProperties ==
  /\ Server!AskedOnce <=> Handlers!AskedOnce
  /\ Server!AskedInOrder <=> Handlers!AskedInOrder
  BY DEF Server!AskedOnce, Handlers!AskedOnce, Server!AskedInOrder, Handlers!AskedInOrder,
     Server!IsInjective, Handlers!IsInjective, Server!Last, Handlers!Last,
     Server!IsPrefix, Handlers!IsPrefix

(* The assumptions of RoomSession hold of this instance of it.              *)
LEMMA ServerAssumptions == Handlers!StoreAssumption /\ Handlers!SessionAssumption
<1>1. Handlers!IsFiniteSet(Questions)
  BY LiveAssumption DEF LiveAssumption, Handlers!IsFiniteSet, IsFiniteSet
<1>2. Handlers!StoreAssumption
  BY <1>1, LiveAssumption DEF LiveAssumption, Handlers!StoreAssumption
<1>3. Handlers!SessionAssumption
  BY LiveAssumption DEF LiveAssumption, Handlers!SessionAssumption
<1> QED
  BY <1>2, <1>3

-----------------------------------------------------------------------------
(* Every step is a step of the server, or leaves it alone *)

(* What a step of the classroom is for the tables and the handlers.         *)
ServerSteps ==
  \/ UNCHANGED serverVars
  \/ \E h \in HostReqs :
       \/ Server!StartRoom(h) \/ Server!NextQuestion(h) \/ Server!ReviewQuestion(h)
       \/ Server!FinishRoom(h) \/ Server!ActivateQuestion(h) \/ Server!CloseRoom(h)
       \/ Server!ShowReview(h) \/ Server!Announce(h)
  \/ \E s \in Students, t \in Tabs : Server!SubmitAnswer(s, t) \/ Server!SaveAnswer(s, t)
  \/ \E c \in Screens : Server!Abort(c)

(* Every action of LiveRoom contains one action of RoomSession, or says     *)
(* that the server's variables do not change.                               *)
LEMMA StepOfServer == [Next]_vars => ServerSteps
<1> SUFFICES ASSUME [Next]_vars PROVE ServerSteps
  OBVIOUS
<1>1. CASE UNCHANGED vars
  BY <1>1 DEF vars, serverVars, ServerSteps
<1>2. CASE Press
  BY <1>2 DEF Press, PressStart, PressNext, PressFinish, AskReview, PressAnswer, Sends, ServerSteps
<1>3. ASSUME NEW c \in Screens, Answering(c)
      PROVE  ServerSteps
  <2>1. CASE c \in HostReqs /\ Serve(c)
    BY <2>1 DEF Serve, ServerSteps
  <2>2. CASE c \in HostReqs /\ Execute(c)
    BY <2>2 DEF Execute, ServerSteps
  <2>3. CASE c \in HostReqs /\ Publish(c)
    BY <2>3 DEF Publish, ServerSteps
  <2>4. CASE c \in HostReqs /\ Reply(c)
    BY <2>4 DEF Reply, ServerSteps
  <2>5. CASE \E s \in Students, t \in Tabs : c = <<s, t>> /\ (ServeAnswer(s, t) \/ SaveAnswer(s, t))
    BY <2>5 DEF ServeAnswer, SaveAnswer, ServerSteps
  <2>6. CASE Decline(c) \/ GetReply(c)
    BY <2>6 DEF Decline, GetReply, ServerSteps
  <2> QED
    BY <1>3, <2>1, <2>2, <2>3, <2>4, <2>5, <2>6 DEF Answering
<1>4. ASSUME NEW c \in Screens, Hear(c) \/ Reloading(c) \/ Connect(c) \/ LoadPage(c)
      PROVE  ServerSteps
  BY <1>4 DEF Hear, Reloading, ServeReload, Reloaded, Connect, LoadPage, ServerSteps
<1>5. ASSUME NEW c \in Screens, Mishap(c)
      PROVE  ServerSteps
  BY <1>5 DEF Mishap, Abort, LoseReply, CutOff, OpenPage, ServerSteps
<1> QED
  BY <1>1, <1>2, <1>3, <1>4, <1>5 DEF Next

(* Screens, events, reloads and lost connections add nothing to what the    *)
(* handlers may do to the tables: every step of the classroom is a step of  *)
(* RoomSession, or none of it.                                              *)
THEOREM ServerRefined == Spec => [][Server!Next]_serverVars
<1>1. ServerSteps => [Server!Next]_serverVars
  BY DEF ServerSteps, Server!Next, Server!HostCalls, Server!HostContinues,
     Server!StudentCalls, Server!StudentContinues, Screens
<1> QED
  BY <1>1, StepOfServer, PTL DEF Spec

(* So what is inductive for the handlers is inductive for the classroom.    *)
LEMMA StepOfHandlers == [Next]_vars => [Handlers!Next]_(Handlers!vars)
<1> SUFFICES ASSUME ServerSteps PROVE Handlers!Next \/ UNCHANGED Handlers!vars
  BY StepOfServer
<1>1. CASE UNCHANGED serverVars
  BY <1>1 DEF serverVars, Handlers!vars
<1>2. ASSUME NEW h \in HostReqs,
             \/ Server!StartRoom(h) \/ Server!NextQuestion(h) \/ Server!ReviewQuestion(h)
             \/ Server!FinishRoom(h) \/ Server!ActivateQuestion(h) \/ Server!CloseRoom(h)
             \/ Server!ShowReview(h) \/ Server!Announce(h)
      PROVE  Handlers!Next
  BY <1>2, SameHostActions DEF Handlers!Next, Handlers!HostCalls, Handlers!HostContinues
<1>3. ASSUME NEW s \in Students, NEW t \in Tabs, Server!SubmitAnswer(s, t) \/ Server!SaveAnswer(s, t)
      PROVE  Handlers!Next
  BY <1>3, SameStudentActions DEF Handlers!Next, Handlers!StudentCalls, Handlers!StudentContinues
<1>4. ASSUME NEW c \in Screens, Server!Abort(c)
      PROVE  Handlers!Next
  BY <1>4, SameHostActions, SamePlumbing DEF Handlers!Next, Screens
<1> QED
  BY <1>1, <1>2, <1>3, <1>4 DEF ServerSteps

-----------------------------------------------------------------------------
(* What the handlers keep, the classroom keeps *)

(* A queue the room is created with, in the terms of the lemmas on queues.  *)
LEMMA SameOrderings ==
  ASSUME NEW b \in Banks, NEW o \in Server!Orderings(InitialBank[b])
  PROVE  o \in Seq(Questions) /\ Handlers!IsInjective(o) /\ Handlers!ToSet(o) \subseteq InitialBank[b]
<1>1. InitialBank[b] \in SUBSET Questions
  BY LiveAssumption DEF LiveAssumption
<1>2. o \in Handlers!Orderings(InitialBank[b])
  BY DEF Server!Orderings, Handlers!Orderings, Server!Cardinality, Handlers!Cardinality,
     Server!IsInjective, Handlers!IsInjective
<1>3. Handlers!ToSet(o) \subseteq InitialBank[b]
  BY DEF Server!Orderings, Handlers!ToSet
<1> QED
  BY <1>1, <1>2, <1>3, Handlers!OrderingIsSeq, ServerAssumptions

(* The room as it is created satisfies the invariants of the handlers.      *)
LEMMA ServerInit == Init => Handlers!TypeOK /\ Handlers!AskedInv /\ Handlers!OrderInv
<1> SUFFICES ASSUME Init PROVE Handlers!TypeOK /\ Handlers!AskedInv /\ Handlers!OrderInv
  OBVIOUS
<1>1. PICK b \in Banks : \E o \in Server!Orderings(InitialBank[b]) :
        room = [status |-> "waiting", mode |-> "classic", bank |-> b, order |-> o,
                asked |-> <<>>, current |-> NoQuestion, started |-> FALSE, ended |-> FALSE]
  BY DEF Init
<1>2. PICK o \in Server!Orderings(InitialBank[b]) :
        room = [status |-> "waiting", mode |-> "classic", bank |-> b, order |-> o,
                asked |-> <<>>, current |-> NoQuestion, started |-> FALSE, ended |-> FALSE]
  BY <1>1
<1>3. o \in Seq(Questions) /\ Handlers!IsInjective(o) /\ Handlers!ToSet(o) \subseteq InitialBank[b]
  BY SameOrderings
<1>4. pending = [c \in Handlers!Requests |-> [op |-> "idle"]]
  BY SamePlumbing DEF Init, Screens, Server!Idle
<1>5. Handlers!TypeOK
  <2>1. room \in Handlers!Room
    <3>1. "waiting" \in Handlers!Statuses /\ "classic" \in Modes /\ <<>> \in Seq(Questions)
      BY LiveAssumption DEF Handlers!Statuses, LiveAssumption
    <3> QED
      BY <1>2, <1>3, <3>1 DEF Handlers!Room
  <2>2. part \in [Students -> Handlers!Participant]
    BY DEF Init, Handlers!Participant
  <2>3. answers \subseteq Handlers!Answer /\ bank \in [Banks -> SUBSET Questions] /\ round \in Nat
    BY LiveAssumption DEF Init, LiveAssumption
  <2>4. pending \in [Handlers!Requests -> Handlers!Pending]
    BY <1>4 DEF Handlers!Pending
  <2> QED
    BY <2>1, <2>2, <2>3, <2>4 DEF Handlers!TypeOK, Handlers!StoreTypeOK
<1>6. Handlers!AskedInv
  BY <1>2, <1>4 DEF Handlers!AskedInv, Handlers!AskedOnce, Handlers!IsInjective
<1>7. Handlers!OrderInv
  <2>1. Handlers!QueueInv
    BY <1>2, <1>3, <1>4 DEF Init, Handlers!QueueInv, Handlers!Stored
  <2>2. Handlers!IsPrefix(<<>>, o)
    <3> DEFINE none == <<>>
    <3>1. none \in Seq(Questions) /\ Len(none) = 0
      OBVIOUS
    <3> HIDE DEF none
    <3>2. Len(none) <= Len(o) /\ \A i \in 1 .. Len(none) : none[i] = o[i]
      BY <1>3, <3>1
    <3>3. Handlers!IsPrefix(none, o)
      BY <1>3, <3>1, <3>2, Handlers!PrefixIfElements, ServerAssumptions
    <3> QED
      BY <3>3 DEF none
  <2>3. Handlers!PrefixInv
    BY <1>2, <1>4, <2>2 DEF Handlers!PrefixInv
  <2> QED
    BY <2>1, <2>3 DEF Handlers!OrderInv
<1> QED
  BY <1>5, <1>6, <1>7

(* The invariants of the handlers hold in the classroom.                    *)
LEMMA ServerInv == Spec => [](Handlers!TypeOK /\ Handlers!AskedInv /\ Handlers!OrderInv)
<1>1. Handlers!TypeOK /\ [Handlers!Next]_(Handlers!vars) => Handlers!TypeOK'
  BY Handlers!TypeStep, ServerAssumptions
<1>2. Handlers!TypeOK /\ Handlers!AskedInv /\ [Handlers!Next]_(Handlers!vars) => Handlers!AskedInv'
  BY Handlers!AskedStep, ServerAssumptions
<1>3. Handlers!TypeOK /\ Handlers!OrderInv /\ [Handlers!Next]_(Handlers!vars) => Handlers!OrderInv'
  BY Handlers!OrderStep, ServerAssumptions
<1> QED
  BY <1>1, <1>2, <1>3, ServerInit, StepOfHandlers, PTL DEF Spec

(* With screens that press by themselves, replies and reloads that come     *)
(* late and pages opened again, no question is asked twice all the same,    *)
(* and none is passed over.                                                 *)
THEOREM ClassroomAsksInOrder == Spec => [](Server!AskedOnce /\ Server!AskedInOrder)
<1>1. Handlers!AskedInv => Server!AskedOnce
  BY SameProperties DEF Handlers!AskedInv
<1>2. Handlers!OrderInv => Server!AskedInOrder
  BY SameProperties DEF Handlers!OrderInv, Handlers!PrefixInv, Handlers!AskedInOrder
<1> QED
  BY <1>1, <1>2, ServerInv, PTL

-----------------------------------------------------------------------------
(* Type correctness *)

MaybeQuestion == Questions \cup {NoQuestion}

(* The events there are, and the fields each of them has.                   *)
LEMMA EventTypes ==
  /\ \A q \in Questions : Activated(q) \in Events /\ Reviewed(q) \in Events
  /\ \A status \in Server!Statuses : StateChanged(status) \in Events
  /\ \A e \in Events :
       \/ e.event \in {"question.activated", "question.reviewed"} /\ e.q \in Questions
       \/ e.event = "room.state_changed" /\ e.status \in Server!Statuses
<1>1. \A q \in Questions : Activated(q) \in Events /\ Reviewed(q) \in Events
  BY DEF Events
<1>2. \A status \in Server!Statuses : StateChanged(status) \in Events
  BY DEF Events
<1>3. ASSUME NEW e \in Events
      PROVE  \/ \E q \in Questions : e = Activated(q) \/ e = Reviewed(q)
             \/ \E status \in Server!Statuses : e = StateChanged(status)
  BY <1>3 DEF Events
<1>4. \A e \in Events :
        \/ e.event \in {"question.activated", "question.reviewed"} /\ e.q \in Questions
        \/ e.event = "room.state_changed" /\ e.status \in Server!Statuses
  BY <1>3 DEF Activated, Reviewed, StateChanged
<1> QED
  BY <1>1, <1>2, <1>4

(* What a handler broadcasts are events, provided what it is about to       *)
(* execute has the right type.                                              *)
LEMMA BroadcastTypes ==
  ASSUME NEW p \in Server!Pending, room.current \in Questions \/ p.op # "review"
  PROVE  Broadcasts(p) \in Seq(Events)
<1>1. "active" \in Server!Statuses /\ "review" \in Server!Statuses /\ "finished" \in Server!Statuses
  BY DEF Server!Statuses
<1>2. p.op = "activate" => p.q \in Questions
  BY SameTypes, Handlers!PendingFields, ServerAssumptions
<1>3. CASE p.op = "activate" /\ p.by = "start"
  BY <1>1, <1>2, <1>3, EventTypes DEF Broadcasts
<1>4. CASE p.op = "activate" /\ p.by = "next"
  BY <1>2, <1>4, EventTypes DEF Broadcasts
<1>5. CASE p.op = "review"
  BY <1>1, <1>5, EventTypes DEF Broadcasts
<1>6. CASE p.op = "finish"
  BY <1>1, <1>6, EventTypes DEF Broadcasts
<1>7. CASE p.op \notin {"activate", "review", "finish"}
  BY <1>7 DEF Broadcasts
<1>8. p.op = "activate" => p.by \in {"start", "next"}
  BY DEF Server!Pending
<1> QED
  BY <1>3, <1>4, <1>5, <1>6, <1>7, <1>8

(* A call of another phase, or with another question, is a call.            *)
LEMMA CallTypes ==
  ASSUME NEW k \in Call, k # NoCall
  PROVE  /\ k.kind \in {"start", "next", "review", "finish", "answer"}
         /\ k.q \in MaybeQuestion
         /\ \A phase \in {"sent", "serving", "done", "failed"} : [k EXCEPT !.phase = phase] \in Call
         /\ \A phase \in {"sent", "serving", "done", "failed"}, q \in MaybeQuestion :
              [k EXCEPT !.phase = phase, !.q = q] \in Call
  BY DEF Call, NoCall, MaybeQuestion

(* An event, a reply, a failure and the changes of one field turn a screen  *)
(* into a screen.                                                           *)
LEMMA ScreenTypes ==
  ASSUME NEW s \in Screen
  PROVE  /\ \A e \in Events : After(e, s) \in Screen
         /\ \A k \in Call \ {NoCall} : Replied(k, s) \in Screen /\ Failed(k, s) \in Screen
         /\ \A status \in Server!Statuses : [s EXCEPT !.status = status] \in Screen
         /\ [s EXCEPT !.reviewing = TRUE] \in Screen
         /\ [s EXCEPT !.answered = TRUE] \in Screen
<1>1. /\ \A status \in Server!Statuses : [s EXCEPT !.status = status] \in Screen
      /\ \A b \in BOOLEAN : /\ [s EXCEPT !.reviewing = b] \in Screen
                            /\ [s EXCEPT !.answered = b] \in Screen
      /\ \A q \in MaybeQuestion : [status |-> "active", x |-> q, reviewing |-> FALSE, answered |-> FALSE] \in Screen
      /\ {"active", "review", "finished"} \subseteq Server!Statuses
  BY DEF Screen, Server!Statuses, MaybeQuestion
<1>2. ASSUME NEW e \in Events
      PROVE  After(e, s) \in Screen
  <2>1. CASE e.event = "question.activated"
    BY <1>1, <2>1, EventTypes DEF After, MaybeQuestion
  <2>2. CASE e.event = "question.reviewed"
    BY <1>1, <2>2, EventTypes DEF After
  <2>3. CASE e.event = "room.state_changed"
    BY <1>1, <2>3, EventTypes DEF After
  <2> QED
    BY <2>1, <2>2, <2>3, EventTypes
<1>3. ASSUME NEW k \in Call \ {NoCall}
      PROVE  Replied(k, s) \in Screen
  <2>0. k.q \in MaybeQuestion
    BY CallTypes
  <2>1. CASE k.kind = "start"
    BY <1>1, <2>0, <2>1 DEF Replied
  <2>2. CASE k.kind = "next" /\ k.q = NoQuestion
    <3>1. [s EXCEPT !.x = NoQuestion, !.status = "finished"] \in Screen
      BY <1>1 DEF Screen
    <3> QED
      BY <2>2, <3>1 DEF Replied
  <2>3. CASE k.kind = "next" /\ k.q # NoQuestion
    <3>1. [s EXCEPT !.x = k.q, !.reviewing = FALSE, !.answered = FALSE] \in Screen
      BY <2>0 DEF Screen, MaybeQuestion
    <3> QED
      BY <2>3, <3>1 DEF Replied
  <2>4. CASE k.kind \notin {"start", "next"}
    BY <2>4 DEF Replied
  <2> QED
    BY <2>1, <2>2, <2>3, <2>4
<1>4. ASSUME NEW k \in Call \ {NoCall}
      PROVE  Failed(k, s) \in Screen
  <2>1. CASE k.kind = "review"
    BY <1>1, <2>1 DEF Failed
  <2>2. CASE k.kind = "answer"
    BY <1>1, <2>2 DEF Failed
  <2>3. CASE k.kind \notin {"review", "answer"}
    BY <2>3 DEF Failed
  <2> QED
    BY <2>1, <2>2, <2>3
<1> QED
  BY <1>1, <1>2, <1>3, <1>4

(* While a handler is at work for a screen, the screen's request is on its  *)
(* way and nobody has answered it.                                          *)
ServingInv ==
  \A c \in Screens : pending[c] # Server!Idle => call[c] # NoCall /\ call[c].phase = "serving"

(* The phase of one call changes, and its handler has nothing left to do    *)
(* unless it is served from now on.                                         *)
LEMMA PhaseKeepsTypes ==
  ASSUME TypeOK, ServingInv, Server!TypeOK', NEW c \in Screens, call[c] # NoCall,
         NEW phase \in {"sent", "serving", "done", "failed"}, NEW k,
         \/ k = [call[c] EXCEPT !.phase = phase]
         \/ \E q \in MaybeQuestion : k = [call[c] EXCEPT !.phase = phase, !.q = q],
         call' = [call EXCEPT ![c] = k],
         phase = "serving" \/ pending'[c] = Server!Idle,
         \A d \in Screens : d # c => pending'[d] = pending[d]
  PROVE  call' \in [Screens -> Call] /\ ServingInv'
<1>1. call \in [Screens -> Call] /\ call[c] \in Call
  BY DEF TypeOK
<1>2. k \in Call
  <2>1. [call[c] EXCEPT !.phase = phase] \in Call
    BY <1>1, CallTypes
  <2>2. \A q \in MaybeQuestion : [call[c] EXCEPT !.phase = phase, !.q = q] \in Call
    BY <1>1, CallTypes
  <2> QED
    BY <2>1, <2>2
<1>3. k.phase = phase /\ k # NoCall
  BY <1>1 DEF Call, NoCall
<1>4. ServingInv'
  BY <1>1, <1>3 DEF ServingInv
<1> QED
  BY <1>1, <1>2, <1>4

(* Every action keeps the types of the screens and of what travels, given   *)
(* that the handlers keep theirs.                                           *)
LEMMA ClientStep == TypeOK /\ ServingInv /\ Server!TypeOK' /\ [Next]_vars => (TypeOK /\ ServingInv)'
<1> SUFFICES ASSUME TypeOK, ServingInv, Server!TypeOK', [Next]_vars PROVE (TypeOK /\ ServingInv)'
  OBVIOUS
<1>0. /\ outbox \in [Screens -> Seq(Events)] /\ call \in [Screens -> Call]
      /\ link \in [Screens -> {"on", "off", "loading"}]
      /\ mail \in [Screens -> Seq(Events)]
      /\ reload \in [Screens -> {"none", "sent"} \cup Server!Statuses]
      /\ screen \in [Screens -> Screen] /\ cuts \in 0 .. MaxCuts
      /\ inStep \subseteq Screens /\ revealed \subseteq Students \X Questions
      /\ room.status \in Server!Statuses /\ room.current \in MaybeQuestion
      /\ pending \in [Screens -> Server!Pending] /\ pending' \in [Screens -> Server!Pending]
      /\ HostReqs \subseteq Screens /\ Students \X Tabs \subseteq Screens
  BY DEF TypeOK, Server!TypeOK, Server!StoreTypeOK, Server!Room, MaybeQuestion, Screens, Server!Requests
<1>1. ASSUME NEW h \in HostReqs, Serve(h)
      PROVE  (TypeOK /\ ServingInv)'
  <2>0. /\ h \in Screens /\ call[h] # NoCall /\ call[h].q \in MaybeQuestion
        /\ pending'[h] \in Server!Pending
    <3>1. call[h].kind \in {"start", "next", "review", "finish"}
      BY <1>1 DEF Serve, Arrived
    <3>2. h \in Screens /\ call[h] # NoCall
      BY <1>0, <3>1 DEF NoCall
    <3> QED
      BY <1>0, <3>2, CallTypes
  <2>1. room' = room /\ \A d \in Screens : d # h => pending'[d] = pending[d]
    BY <1>0, <1>1
    DEF Serve, Server!StartRoom, Server!NextQuestion, Server!ReviewQuestion, Server!FinishRoom,
        Server!Reads, Server!Then, Server!storeVars
  <2>2. room.current \in Questions \/ pending'[h].op # "review"
    <3>1. CASE Server!ReviewQuestion(h)
      BY <1>0, <3>1 DEF Server!ReviewQuestion, MaybeQuestion
    <3>2. CASE Server!StartRoom(h) \/ Server!NextQuestion(h) \/ Server!FinishRoom(h)
      BY <1>0, <2>0, <3>2
      DEF Server!StartRoom, Server!NextQuestion, Server!FinishRoom, Server!Reads, Server!Then
    <3> QED
      BY <1>1, <3>1, <3>2 DEF Serve
  <2>3. outbox' \in [Screens -> Seq(Events)]
    BY <1>0, <1>1, <2>0, <2>2, BroadcastTypes DEF Serve
  <2>4. Payload(h) \in MaybeQuestion
    <3>1. pending'[h].op = "activate" => pending'[h].q \in Questions
      BY <2>0, SameTypes, Handlers!PendingFields, ServerAssumptions
    <3> QED
      BY <2>0, <3>1 DEF Payload, MaybeQuestion
  <2>5. call' = [call EXCEPT ![h] = [call[h] EXCEPT !.phase = "serving", !.q = Payload(h)]]
    BY <1>0, <1>1, <2>0 DEF Serve
  <2>6. call' \in [Screens -> Call] /\ ServingInv'
    BY <2>0, <2>1, <2>4, <2>5, PhaseKeepsTypes
  <2> QED
    BY <1>1, <2>3, <2>6 DEF Serve, TypeOK, clientVars
<1>2. ASSUME NEW s \in Students, NEW t \in Tabs, ServeAnswer(s, t)
      PROVE  (TypeOK /\ ServingInv)'
  <2>0. <<s, t>> \in Screens /\ call[<<s, t>>] # NoCall
    BY <1>0, <1>2 DEF ServeAnswer, Arrived, NoCall
  <2>1. \A d \in Screens : d # <<s, t>> => pending'[d] = pending[d]
    BY <1>0, <1>2 DEF ServeAnswer, Server!SubmitAnswer, Server!Reads, Server!Then
  <2>2. call' = [call EXCEPT ![<<s, t>>] = [call[<<s, t>>] EXCEPT !.phase = "serving"]]
    BY <1>0, <1>2, <2>0 DEF ServeAnswer
  <2>3. call' \in [Screens -> Call] /\ ServingInv'
    BY <2>0, <2>1, <2>2, PhaseKeepsTypes
  <2> QED
    BY <1>2, <2>3 DEF ServeAnswer, TypeOK, clientVars
<1>3. ASSUME NEW c \in Screens, Decline(c)
      PROVE  (TypeOK /\ ServingInv)'
  <2> DEFINE phase == IF call[c].kind = "answer" THEN "failed" ELSE "done"
  <2>0. call[c] # NoCall /\ phase \in {"sent", "serving", "done", "failed"}
    BY <1>3 DEF Decline, Arrived, NoCall
  <2>1. pending' = pending /\ pending[c] = Server!Idle
    BY <1>3 DEF Decline, serverVars
  <2>2. call' = [call EXCEPT ![c] = [call[c] EXCEPT !.phase = phase]]
    BY <1>0, <1>3, <2>0 DEF Decline
  <2> HIDE DEF phase
  <2>3. call' \in [Screens -> Call] /\ ServingInv'
    BY <2>0, <2>1, <2>2, PhaseKeepsTypes
  <2> QED
    BY <1>3, <2>3 DEF Decline, TypeOK, clientVars
<1>4. ASSUME NEW h \in HostReqs, Execute(h)
      PROVE  (TypeOK /\ ServingInv)'
  <2>1. pending[h].op \in {"activate", "finish", "review"}
    BY <1>4 DEF Execute, Server!ActivateQuestion, Server!CloseRoom, Server!ShowReview
  <2>1a. pending[h] # Server!Idle
    BY <2>1 DEF Server!Idle
  <2>1b. \A d \in Screens : d # h => pending'[d] = pending[d]
    BY <1>0, <1>4
    DEF Execute, Server!ActivateQuestion, Server!CloseRoom, Server!ShowReview, Server!Then
  <2>2. ServingInv'
    BY <1>4, <2>1a, <2>1b DEF Execute, ServingInv
  <2> QED
    BY <1>4, <2>2 DEF Execute, TypeOK, clientVars
<1>5. ASSUME NEW s \in Students, NEW t \in Tabs, SaveAnswer(s, t)
      PROVE  (TypeOK /\ ServingInv)'
  <2> DEFINE c == <<s, t>>
             phase == IF call[c].q \in Server!Answered(s) THEN "failed" ELSE "done"
  <2>0. c \in Screens /\ call[c] # NoCall /\ phase \in {"sent", "serving", "done", "failed"}
    BY <1>0, <1>5 DEF SaveAnswer, Server!SaveAnswer, Server!Idle, ServingInv
  <2>1. pending'[c] = Server!Idle /\ \A d \in Screens : d # c => pending'[d] = pending[d]
    BY <1>0, <1>5, <2>0 DEF SaveAnswer, Server!SaveAnswer, Server!Then
  <2>2. call' = [call EXCEPT ![c] = [call[c] EXCEPT !.phase = phase]]
    BY <1>0, <1>5, <2>0 DEF SaveAnswer
  <2> HIDE DEF phase
  <2>3. call' \in [Screens -> Call] /\ ServingInv'
    BY <2>0, <2>1, <2>2, PhaseKeepsTypes
  <2> QED
    BY <1>5, <2>3 DEF SaveAnswer, TypeOK, clientVars
<1>6. ASSUME NEW c \in Screens, Abort(c)
      PROVE  (TypeOK /\ ServingInv)'
  <2>0. call[c] # NoCall
    BY <1>6, LiveAssumption DEF Abort, Server!Abort, ServingInv, Server!Idle, LiveAssumption
  <2>1. pending'[c] = Server!Idle /\ \A d \in Screens : d # c => pending'[d] = pending[d]
    BY <1>0, <1>6 DEF Abort, Server!Abort, Server!Reads, Server!Then
  <2>2. call' = [call EXCEPT ![c] = [call[c] EXCEPT !.phase = "failed"]]
    BY <1>0, <1>6, <2>0 DEF Abort
  <2>3. call' \in [Screens -> Call] /\ ServingInv'
    BY <2>0, <2>1, <2>2, PhaseKeepsTypes
  <2>4. outbox' \in [Screens -> Seq(Events)]
    BY <1>0, <1>6 DEF Abort
  <2> QED
    BY <1>6, <2>3, <2>4 DEF Abort, TypeOK, clientVars
<1>7. ASSUME NEW h \in HostReqs, Publish(h)
      PROVE  (TypeOK /\ ServingInv)'
  <2>1. Head(outbox[h]) \in Events /\ Tail(outbox[h]) \in Seq(Events)
    BY <1>0, <1>7 DEF Publish
  <2>2. mail' \in [Screens -> Seq(Events)] /\ inStep' \subseteq Screens
    BY <1>0, <1>7, <2>1 DEF Publish
  <2>3. outbox' \in [Screens -> Seq(Events)]
    BY <1>0, <1>7, <2>1 DEF Publish
  <2>4. ServingInv'
    BY <1>7 DEF Publish, ServingInv, serverVars
  <2> QED
    BY <1>7, <2>2, <2>3, <2>4 DEF Publish, TypeOK
<1>8. ASSUME NEW h \in HostReqs, Reply(h)
      PROVE  (TypeOK /\ ServingInv)'
  <2>0. h \in Screens /\ call[h] # NoCall
    BY <1>0, <1>8 DEF Reply, Server!Announce, ServingInv, Server!Idle
  <2>1. pending'[h] = Server!Idle /\ \A d \in Screens : d # h => pending'[d] = pending[d]
    BY <1>0, <1>8 DEF Reply, Server!Announce, Server!Reads, Server!Then
  <2>2. call' = [call EXCEPT ![h] = [call[h] EXCEPT !.phase = "done"]]
    BY <1>0, <1>8, <2>0 DEF Reply
  <2>3. call' \in [Screens -> Call] /\ ServingInv'
    BY <2>0, <2>1, <2>2, PhaseKeepsTypes
  <2> QED
    BY <1>8, <2>3 DEF Reply, TypeOK, clientVars
<1>9. ASSUME NEW c \in Screens, Hear(c)
      PROVE  (TypeOK /\ ServingInv)'
  <2> DEFINE e == Head(mail[c])
  <2>1. e \in Events /\ Tail(mail[c]) \in Seq(Events)
    BY <1>0, <1>9 DEF Hear
  <2> HIDE DEF e
  <2>2. After(e, screen[c]) \in Screen
    BY <1>0, <2>1, ScreenTypes
  <2>3. screen' \in [Screens -> Screen]
    BY <1>0, <1>9, <2>2 DEF Hear, e
  <2>4. mail' \in [Screens -> Seq(Events)]
    BY <1>0, <1>9, <2>1 DEF Hear
  <2>5. reload' \in [Screens -> {"none", "sent"} \cup Server!Statuses]
    <3>1. reload' = reload \/ reload' = [reload EXCEPT ![c] = "sent"]
      BY <1>0, <1>9 DEF Hear
    <3> QED
      BY <1>0, <3>1
  <2>6. revealed' \subseteq Students \X Questions
    <3>1. e.event = "question.reviewed" => e.q \in Questions
      BY <2>1, EventTypes
    <3>2. revealed' = revealed
            \/ /\ e.event = "question.reviewed"
               /\ revealed' = revealed \cup {<<s, e.q>> : s \in {u \in Students : c \in {u} \X Tabs}}
      BY <1>9, Zenon DEF Hear, e
    <3> QED
      BY <1>0, <3>1, <3>2
  <2>7. ServingInv'
    BY <1>9 DEF Hear, ServingInv, serverVars
  <2> QED
    BY <1>9, <2>3, <2>4, <2>5, <2>6, <2>7 DEF Hear, TypeOK
<1>10. ASSUME NEW c \in Screens, Reloading(c)
       PROVE  (TypeOK /\ ServingInv)'
  <2>1. ServingInv'
    BY <1>10 DEF Reloading, ServeReload, Reloaded, ServingInv, serverVars
  <2>2. CASE ServeReload(c)
    BY <1>0, <2>1, <2>2 DEF ServeReload, TypeOK
  <2>3. CASE Reloaded(c)
    <3>1. [screen[c] EXCEPT !.status = reload[c]] \in Screen
      BY <1>0, <2>3, ScreenTypes DEF Reloaded
    <3>2. screen' \in [Screens -> Screen]
      BY <1>0, <2>3, <3>1 DEF Reloaded
    <3>3. reload' \in [Screens -> {"none", "sent"} \cup Server!Statuses]
      BY <1>0, <2>3 DEF Reloaded
    <3> QED
      BY <2>1, <2>3, <3>2, <3>3 DEF Reloaded, TypeOK
  <2> QED
    BY <1>10, <2>2, <2>3 DEF Reloading
<1>11. ASSUME NEW c \in Screens, NEW kind \in {"start", "next", "review", "finish", "answer"},
              Sends(c, kind), screen' \in [Screens -> Screen]
       PROVE  (TypeOK /\ ServingInv)'
  <2>1. screen[c].x \in MaybeQuestion
    BY <1>0 DEF Screen, MaybeQuestion
  <2>2. PICK q \in MaybeQuestion, informed \in BOOLEAN :
          call' = [call EXCEPT ![c] = [kind |-> kind, phase |-> "sent", q |-> q, informed |-> informed]]
    <3>1. (IF kind \in {"review", "answer"} THEN screen[c].x ELSE NoQuestion) \in MaybeQuestion
      BY <2>1 DEF MaybeQuestion
    <3> QED
      BY <1>11, <3>1 DEF Sends
  <2>3. [kind |-> kind, phase |-> "sent", q |-> q, informed |-> informed] \in Call
    BY DEF Call, MaybeQuestion
  <2>4. call' \in [Screens -> Call]
    BY <1>0, <2>2, <2>3
  <2>5. ServingInv'
    <3>1. call[c] = NoCall /\ pending' = pending
      BY <1>11 DEF Sends, serverVars
    <3> QED
      BY <1>0, <2>2, <3>1 DEF ServingInv
  <2> QED
    BY <1>11, <2>4, <2>5 DEF Sends, TypeOK
<1>12. CASE Press
  <2>1. ASSUME NEW h \in HostReqs, PressStart(h) \/ PressNext(h) \/ PressFinish(h)
        PROVE  (TypeOK /\ ServingInv)'
    BY <1>0, <1>11, <2>1 DEF PressStart, PressNext, PressFinish
  <2>2. ASSUME NEW h \in HostReqs, AskReview(h)
        PROVE  (TypeOK /\ ServingInv)'
    <3>1. [screen[h] EXCEPT !.reviewing = TRUE] \in Screen
      BY <1>0, ScreenTypes
    <3>2. screen' \in [Screens -> Screen]
      BY <1>0, <2>2, <3>1 DEF AskReview
    <3> QED
      BY <1>0, <1>11, <2>2, <3>2 DEF AskReview
  <2>3. ASSUME NEW s \in Students, NEW t \in Tabs, PressAnswer(s, t)
        PROVE  (TypeOK /\ ServingInv)'
    <3>0. <<s, t>> \in Screens
      BY <1>0
    <3>1. [screen[<<s, t>>] EXCEPT !.answered = TRUE] \in Screen
      BY <1>0, <3>0, ScreenTypes
    <3>2. screen' \in [Screens -> Screen]
      BY <1>0, <2>3, <3>0, <3>1 DEF PressAnswer
    <3> QED
      BY <1>11, <2>3, <3>0, <3>2 DEF PressAnswer
  <2> QED
    BY <1>12, <2>1, <2>2, <2>3 DEF Press
<1>13. ASSUME NEW c \in Screens, GetReply(c)
       PROVE  (TypeOK /\ ServingInv)'
  <2>1. /\ call[c] \in Call \ {NoCall} /\ pending' = pending
        /\ call[c].phase \in {"done", "failed"}
        /\ call' = [call EXCEPT ![c] = NoCall]
    BY <1>0, <1>13 DEF GetReply, serverVars
  <2>2. Replied(call[c], screen[c]) \in Screen /\ Failed(call[c], screen[c]) \in Screen
    BY <1>0, <2>1, ScreenTypes
  <2>3. screen' \in [Screens -> Screen]
    BY <1>0, <1>13, <2>2 DEF GetReply
  <2>4. call' \in [Screens -> Call]
    BY <1>0, <2>1 DEF Call
  <2>5. pending[c] = Server!Idle
    BY <2>1 DEF ServingInv
  <2>6. ServingInv'
    BY <1>0, <2>1, <2>5 DEF ServingInv
  <2> QED
    BY <1>13, <2>3, <2>4, <2>6 DEF GetReply, TypeOK
<1>14. ASSUME NEW c \in Screens, LoseReply(c)
       PROVE  (TypeOK /\ ServingInv)'
  <2>0. call[c] # NoCall /\ call[c].phase = "done" /\ pending' = pending
    BY <1>14 DEF LoseReply, serverVars
  <2>1. pending'[c] = Server!Idle
    BY <2>0 DEF ServingInv
  <2>2. call' = [call EXCEPT ![c] = [call[c] EXCEPT !.phase = "failed"]]
    BY <1>0, <1>14, <2>0 DEF LoseReply
  <2>3. call' \in [Screens -> Call] /\ ServingInv'
    BY <2>0, <2>1, <2>2, PhaseKeepsTypes
  <2> QED
    BY <1>14, <2>3 DEF LoseReply, TypeOK, clientVars
<1>15. ASSUME NEW c \in Screens, CutOff(c)
       PROVE  (TypeOK /\ ServingInv)'
  <2>1. ServingInv'
    BY <1>15 DEF CutOff, ServingInv, serverVars
  <2>2. PICK n \in 0 .. Len(mail[c]) :
          /\ mail' = [mail EXCEPT ![c] = SubSeq(mail[c], 1, n)]
          /\ inStep' = inStep \/ inStep' = inStep \ {c}
    BY <1>15 DEF CutOff
  <2>3. mail' \in [Screens -> Seq(Events)] /\ inStep' \subseteq Screens
    <3>1. SubSeq(mail[c], 1, n) \in Seq(Events)
      BY <1>0, <2>2
    <3> QED
      BY <1>0, <2>2, <3>1
  <2>4. cuts' \in 0 .. MaxCuts
    BY <1>0, <1>15, LiveAssumption DEF CutOff, LiveAssumption
  <2>5. link' \in [Screens -> {"on", "off", "loading"}]
    BY <1>0, <1>15 DEF CutOff
  <2> QED
    BY <1>15, <2>1, <2>3, <2>4, <2>5 DEF CutOff, TypeOK
<1>16. ASSUME NEW c \in Screens, Connect(c)
       PROVE  (TypeOK /\ ServingInv)'
  <2>1. ServingInv'
    BY <1>16 DEF Connect, ServingInv, serverVars
  <2> QED
    BY <1>0, <1>16, <2>1 DEF Connect, TypeOK
<1>17. ASSUME NEW c \in Screens, OpenPage(c)
       PROVE  (TypeOK /\ ServingInv)'
  <2>1. ServingInv'
    BY <1>17 DEF OpenPage, ServingInv, serverVars
  <2>2. /\ link' \in [Screens -> {"on", "off", "loading"}] /\ mail' \in [Screens -> Seq(Events)]
        /\ reload' \in [Screens -> {"none", "sent"} \cup Server!Statuses]
        /\ inStep' \subseteq Screens
    BY <1>0, <1>17 DEF OpenPage
  <2> QED
    BY <1>17, <2>1, <2>2 DEF OpenPage, TypeOK
<1>18. ASSUME NEW c \in Screens, LoadPage(c)
       PROVE  (TypeOK /\ ServingInv)'
  <2>1. ServingInv'
    BY <1>18 DEF LoadPage, ServingInv, serverVars
  <2>2. [status |-> room.status, x |-> NoQuestion, reviewing |-> FALSE, answered |-> FALSE] \in Screen
    BY <1>0 DEF Screen
  <2>3. link' \in [Screens -> {"on", "off", "loading"}] /\ screen' \in [Screens -> Screen]
    BY <1>0, <1>18, <2>2 DEF LoadPage
  <2> QED
    BY <1>18, <2>1, <2>3 DEF LoadPage, TypeOK
<1>19. CASE UNCHANGED vars
  BY <1>19 DEF vars, TypeOK, ServingInv
<1>20. ASSUME NEW c \in Screens, Answering(c)
       PROVE  (TypeOK /\ ServingInv)'
  BY <1>20, <1>1, <1>2, <1>3, <1>4, <1>5, <1>7, <1>8, <1>13 DEF Answering
<1>21. ASSUME NEW c \in Screens, Mishap(c)
       PROVE  (TypeOK /\ ServingInv)'
  BY <1>21, <1>6, <1>14, <1>15, <1>17 DEF Mishap
<1> QED
  BY <1>9, <1>10, <1>12, <1>16, <1>18, <1>19, <1>20, <1>21 DEF Next

(* Types and ServingInv are inductive together, with the handlers' own.     *)
LEMMA TypesAndServing == Spec => [](TypeOK /\ ServingInv)
<1>1. Init /\ Server!TypeOK => TypeOK /\ ServingInv
  <2> SUFFICES ASSUME Init, Server!TypeOK PROVE TypeOK /\ ServingInv
    OBVIOUS
  <2>1. ServingInv
    BY DEF Init, ServingInv
  <2>2. [status |-> "waiting", x |-> NoQuestion, reviewing |-> FALSE, answered |-> FALSE] \in Screen
    BY DEF Screen, Server!Statuses
  <2>3. screen \in [Screens -> Screen]
    BY <2>2 DEF Init
  <2>4. /\ outbox \in [Screens -> Seq(Events)] /\ mail \in [Screens -> Seq(Events)]
        /\ call \in [Screens -> Call] /\ link \in [Screens -> {"on", "off", "loading"}]
        /\ reload \in [Screens -> {"none", "sent"} \cup Server!Statuses]
        /\ cuts \in 0 .. MaxCuts /\ inStep \subseteq Screens /\ revealed \subseteq Students \X Questions
    BY LiveAssumption DEF Init, Call, LiveAssumption
  <2> QED
    BY <2>1, <2>3, <2>4 DEF TypeOK
<1>2. Handlers!TypeOK => Server!TypeOK
  BY SameTypes
<1> QED
  BY <1>1, <1>2, ServerInit, ServerInv, ClientStep, PTL DEF Spec

(* The tables, the screens and everything that travels between them have    *)
(* their types.                                                             *)
THEOREM TypeCorrect == Spec => []TypeOK
  BY TypesAndServing, PTL

-----------------------------------------------------------------------------
(* A screen marked as answered *)

(* Why it holds: the screen is marked before the request is sent, and the   *)
(* request names the question; it comes back as done only with the answer   *)
(* on record, and any other end of it takes the mark away.  Meanwhile the   *)
(* screen may have turned to another question, which takes it away too.     *)
Recorded(s, t) ==
  LET c == <<s, t>>
      k == call[c]
  IN  /\ pending[c] # Server!Idle => pending[c].op = "answer" /\ pending[c].q = k.q
      /\ k # NoCall => k.kind = "answer"
      /\ k # NoCall /\ k.phase = "done" => k.q \in Server!Answered(s)
      /\ screen[c].answered => IF k = NoCall THEN screen[c].x \in Server!Answered(s)
                                             ELSE k.q = screen[c].x

RecordInv == \A s \in Students, t \in Tabs : Recorded(s, t)

(* No answer is taken from the record.                                      *)
LEMMA AnswersStay ==
  ASSUME ServerSteps, NEW s
  PROVE  Server!Answered(s) \subseteq Server!Answered(s)'
<1>1. answers \subseteq answers'
  <2>1. CASE UNCHANGED serverVars
    BY <2>1 DEF serverVars
  <2>2. ASSUME NEW h \in HostReqs,
               \/ Server!StartRoom(h) \/ Server!NextQuestion(h) \/ Server!ReviewQuestion(h)
               \/ Server!FinishRoom(h) \/ Server!ActivateQuestion(h) \/ Server!CloseRoom(h)
               \/ Server!ShowReview(h) \/ Server!Announce(h)
        PROVE  answers' = answers
    BY <2>2
    DEF Server!StartRoom, Server!NextQuestion, Server!ReviewQuestion, Server!FinishRoom,
        Server!ActivateQuestion, Server!CloseRoom, Server!ShowReview, Server!Announce,
        Server!SetStatus, Server!SetCurrentQuestion, Server!Reads, Server!storeVars
  <2>3. ASSUME NEW u \in Students, NEW t \in Tabs, Server!SubmitAnswer(u, t) \/ Server!SaveAnswer(u, t)
        PROVE  answers \subseteq answers'
    BY <2>3 DEF Server!SubmitAnswer, Server!SaveAnswer, Server!InsertAnswer, Server!Reads, Server!storeVars
  <2>4. ASSUME NEW c \in Screens, Server!Abort(c)
        PROVE  answers' = answers
    BY <2>4 DEF Server!Abort, Server!Reads, Server!storeVars
  <2> QED
    BY <2>1, <2>2, <2>3, <2>4 DEF ServerSteps
<1> QED
  BY <1>1 DEF Server!Answered

(* What neither touches the screen of a student nor its request leaves it   *)
(* as it is.                                                                *)
LEMMA RecordedQuiet ==
  ASSUME ServerSteps, NEW s, NEW t, Recorded(s, t),
         pending'[<<s, t>>] = pending[<<s, t>>], call'[<<s, t>>] = call[<<s, t>>],
         screen'[<<s, t>>].x = screen[<<s, t>>].x,
         screen'[<<s, t>>].answered => screen[<<s, t>>].answered
  PROVE  Recorded(s, t)'
<1>1. Server!Answered(s) \subseteq Server!Answered(s)'
  BY AnswersStay
<1> QED
  BY <1>1 DEF Recorded

(* Neither does a screen that loses its mark.                               *)
LEMMA RecordedCleared ==
  ASSUME ServerSteps, NEW s, NEW t, Recorded(s, t),
         pending'[<<s, t>>] = pending[<<s, t>>], call'[<<s, t>>] = call[<<s, t>>],
         ~screen'[<<s, t>>].answered
  PROVE  Recorded(s, t)'
<1>1. Server!Answered(s) \subseteq Server!Answered(s)'
  BY AnswersStay
<1> QED
  BY <1>1 DEF Recorded

(* Every action keeps RecordInv: a screen is marked when its student sends, *)
(* unmarked by a failure or by another question, and the reply that leaves  *)
(* the mark comes after the INSERT or after the refusal of a duplicate.     *)
LEMMA RecordStep == TypeOK /\ ServingInv /\ RecordInv /\ [Next]_vars => RecordInv'
<1> SUFFICES ASSUME TypeOK, ServingInv, RecordInv, [Next]_vars, NEW s \in Students, NEW t \in Tabs
             PROVE  Recorded(s, t)'
  BY DEF RecordInv
<1> DEFINE c == <<s, t>>
<1>0. /\ call \in [Screens -> Call] /\ screen \in [Screens -> Screen] /\ mail \in [Screens -> Seq(Events)]
      /\ pending \in [Screens -> Server!Pending]
      /\ room.current \in MaybeQuestion
      /\ c \in Screens /\ c \notin HostReqs /\ HostReqs \subseteq Screens
      /\ \A u \in Students, v \in Tabs : <<u, v>> \in Screens /\ (<<u, v>> = c => u = s /\ v = t)
      /\ Recorded(s, t) /\ ServerSteps
  BY StepOfServer, LiveAssumption
  DEF TypeOK, Server!TypeOK, Server!StoreTypeOK, Server!Room, MaybeQuestion, Screens,
      Server!Requests, LiveAssumption, RecordInv
<1>1. Server!Answered(s) \subseteq Server!Answered(s)'
  BY <1>0, AnswersStay
<1>2. ASSUME NEW h \in HostReqs, Serve(h) \/ Execute(h) \/ Publish(h) \/ Reply(h)
      PROVE  Recorded(s, t)'
  <2>0. h # c /\ h \in Screens
    BY <1>0
  <2>1. pending'[c] = pending[c]
    BY <1>0, <1>2, <2>0
    DEF Serve, Execute, Publish, Reply, serverVars,
        Server!StartRoom, Server!NextQuestion, Server!ReviewQuestion, Server!FinishRoom,
        Server!ActivateQuestion, Server!CloseRoom, Server!ShowReview, Server!Announce,
        Server!Reads, Server!Then
  <2>2. call'[c] = call[c] /\ screen' = screen
    BY <1>0, <1>2, <2>0 DEF Serve, Execute, Publish, Reply, clientVars
  <2> QED
    BY <1>0, <2>1, <2>2, RecordedQuiet
<1>3. ASSUME NEW u \in Students, NEW v \in Tabs, ServeAnswer(u, v)
      PROVE  Recorded(s, t)'
  <2>1. CASE <<u, v>> # c
    <3>1. pending'[c] = pending[c] /\ call'[c] = call[c] /\ screen' = screen
      BY <1>0, <1>3, <2>1 DEF ServeAnswer, Server!SubmitAnswer, Server!Reads, Server!Then, clientVars
    <3> QED
      BY <1>0, <3>1, RecordedQuiet
  <2>2. CASE u = s /\ v = t
    <3>1. /\ call[c] \in Call \ {NoCall} /\ screen' = screen /\ room.current = call[c].q
          /\ pending'[c] = [op |-> "answer", q |-> room.current, round |-> round]
      BY <1>0, <1>3, <2>2
      DEF ServeAnswer, Arrived, NoCall, Server!SubmitAnswer, Server!Reads, Server!Then, clientVars
    <3>2. call'[c] = [call[c] EXCEPT !.phase = "serving"]
      BY <1>0, <1>3, <2>2 DEF ServeAnswer
    <3>3. /\ call'[c] # NoCall /\ call'[c].phase = "serving"
          /\ call'[c].kind = call[c].kind /\ call'[c].q = call[c].q
      BY <3>1, <3>2 DEF Call, NoCall
    <3> QED
      BY <1>0, <3>1, <3>3 DEF Recorded
  <2> QED
    BY <1>0, <2>1, <2>2
<1>4. ASSUME NEW d \in Screens, Decline(d)
      PROVE  Recorded(s, t)'
  <2>0. pending' = pending /\ screen' = screen
    BY <1>4 DEF Decline, serverVars, clientVars
  <2>1. CASE d # c
    <3>1. call'[c] = call[c]
      BY <1>0, <1>4, <2>1 DEF Decline
    <3> QED
      BY <1>0, <2>0, <3>1, RecordedQuiet
  <2>2. CASE d = c
    <3>1. /\ call[c] \in Call \ {NoCall} /\ call[c].kind = "answer"
          /\ call'[c] = [call[c] EXCEPT !.phase = "failed"] /\ pending[c] = Server!Idle
      <4>1. call[c] \in Call \ {NoCall} /\ pending[c] = Server!Idle
        BY <1>0, <1>4, <2>2 DEF Decline, Arrived, NoCall
      <4>2. call[c].kind = "answer"
        BY <1>0, <4>1 DEF Recorded
      <4> QED
        BY <1>0, <1>4, <2>2, <4>1, <4>2 DEF Decline
    <3>2. /\ call'[c] # NoCall /\ call'[c].phase = "failed"
          /\ call'[c].kind = call[c].kind /\ call'[c].q = call[c].q
      BY <3>1 DEF Call, NoCall
    <3> QED
      BY <1>0, <2>0, <3>1, <3>2 DEF Recorded
  <2> QED
    BY <2>1, <2>2
<1>5. ASSUME NEW u \in Students, NEW v \in Tabs, SaveAnswer(u, v)
      PROVE  Recorded(s, t)'
  <2>1. CASE <<u, v>> # c
    <3>1. pending'[c] = pending[c] /\ call'[c] = call[c] /\ screen' = screen
      BY <1>0, <1>5, <2>1 DEF SaveAnswer, Server!SaveAnswer, Server!Then, clientVars
    <3> QED
      BY <1>0, <3>1, RecordedQuiet
  <2>2. CASE u = s /\ v = t
    <3>1. /\ pending[c].op = "answer" /\ pending[c] # Server!Idle
          /\ pending'[c] = Server!Idle /\ screen' = screen
      BY <1>0, <1>5, <2>2 DEF SaveAnswer, Server!SaveAnswer, Server!Then, Server!Idle, clientVars
    <3>2. /\ call[c] \in Call \ {NoCall} /\ pending[c].q = call[c].q
          /\ call[c].q \in Questions
      <4>1. call[c] \in Call \ {NoCall} /\ pending[c].q = call[c].q
        BY <1>0, <3>1 DEF ServingInv, Recorded
      <4>2. pending[c].q \in Questions
        BY <1>0, <3>1, SameTypes, Handlers!PendingFields, ServerAssumptions
      <4> QED
        BY <4>1, <4>2
    <3>3. call[c].q \in Server!Answered(s)'
      <4> DEFINE q == call[c].q
      <4>1. answers' = IF q \in Server!Answered(s) THEN answers
                       ELSE answers \cup {[who |-> s, question |-> q, round |-> pending[c].round]}
        BY <1>5, <2>2, <3>2 DEF SaveAnswer, Server!SaveAnswer, Server!InsertAnswer
      <4>2. CASE q \in Server!Answered(s)
        BY <1>1, <4>2
      <4>3. CASE q \notin Server!Answered(s)
        <5> DEFINE a == [who |-> s, question |-> q, round |-> pending[c].round]
        <5>1. a \in answers' /\ a.who = s /\ a.question = q
          BY <4>1, <4>3
        <5> HIDE DEF a
        <5>2. \E b \in answers' : b.who = s /\ b.question = q
          BY <5>1
        <5> QED
          BY <3>2, <5>2 DEF Server!Answered
      <4> QED
        BY <4>2, <4>3
    <3>4. PICK phase \in {"done", "failed"} : call'[c] = [call[c] EXCEPT !.phase = phase]
      BY <1>0, <1>5, <2>2 DEF SaveAnswer
    <3>5. /\ call'[c] # NoCall /\ call'[c].kind = call[c].kind /\ call'[c].q = call[c].q
      BY <3>2, <3>4 DEF Call, NoCall
    <3> QED
      BY <1>0, <3>1, <3>2, <3>3, <3>5 DEF Recorded
  <2> QED
    BY <1>0, <2>1, <2>2
<1>6. ASSUME NEW d \in Screens, Abort(d) \/ LoseReply(d)
      PROVE  Recorded(s, t)'
  <2>0. screen' = screen
    BY <1>6 DEF Abort, LoseReply, clientVars
  <2>1. CASE d # c
    <3>1. pending'[c] = pending[c] /\ call'[c] = call[c]
      BY <1>0, <1>6, <2>1 DEF Abort, LoseReply, Server!Abort, Server!Reads, Server!Then, serverVars
    <3> QED
      BY <1>0, <2>0, <3>1, RecordedQuiet
  <2>2. CASE d = c
    <3>1. /\ call[c] \in Call \ {NoCall} /\ pending'[c] = Server!Idle
      <4>1. CASE Abort(c)
        BY <1>0, <4>1, LiveAssumption
        DEF Abort, Server!Abort, Server!Reads, Server!Then, ServingInv, Server!Idle, LiveAssumption
      <4>2. CASE LoseReply(c)
        BY <1>0, <4>2 DEF LoseReply, ServingInv, serverVars
      <4> QED
        BY <1>6, <2>2, <4>1, <4>2
    <3>2. call'[c] = [call[c] EXCEPT !.phase = "failed"]
      BY <1>0, <1>6, <2>2 DEF Abort, LoseReply
    <3>3. /\ call'[c] # NoCall /\ call'[c].phase = "failed"
          /\ call'[c].kind = call[c].kind /\ call'[c].q = call[c].q
      BY <3>1, <3>2 DEF Call, NoCall
    <3> QED
      BY <1>0, <2>0, <3>1, <3>3 DEF Recorded
  <2> QED
    BY <2>1, <2>2
<1>7. ASSUME NEW d \in Screens, Hear(d)
      PROVE  Recorded(s, t)'
  <2>0. pending' = pending /\ call' = call
    BY <1>7 DEF Hear, serverVars
  <2>1. CASE d # c
    BY <1>0, <1>7, <2>0, <2>1, RecordedQuiet DEF Hear
  <2>2. CASE d = c
    <3> DEFINE e == Head(mail[c])
    <3>1. e \in Events /\ screen[c] \in Screen
      BY <1>0, <1>7, <2>2 DEF Hear
    <3>2. screen'[c] = After(e, screen[c])
      BY <1>0, <1>7, <2>2 DEF Hear
    <3> HIDE DEF e
    <3>3. CASE e.event = "question.activated"
      <4>1. ~screen'[c].answered
        BY <3>2, <3>3 DEF After
      <4> QED
        BY <1>0, <2>0, <4>1, RecordedCleared
    <3>4. CASE e.event \in {"question.reviewed", "room.state_changed"}
      <4>1. screen'[c].x = screen[c].x /\ screen'[c].answered = screen[c].answered
        BY <3>1, <3>2, <3>4 DEF After, Screen
      <4> QED
        BY <1>0, <2>0, <4>1, RecordedQuiet
    <3> QED
      BY <3>1, <3>3, <3>4, EventTypes
  <2> QED
    BY <2>1, <2>2
<1>8. ASSUME NEW d \in Screens, Reloading(d) \/ CutOff(d) \/ Connect(d) \/ OpenPage(d)
      PROVE  Recorded(s, t)'
  <2>1. pending' = pending /\ call' = call
    BY <1>8 DEF Reloading, ServeReload, Reloaded, CutOff, Connect, OpenPage, serverVars
  <2>2. screen'[c].x = screen[c].x /\ screen'[c].answered = screen[c].answered
    <3>1. CASE Reloaded(d)
      BY <1>0, <3>1 DEF Reloaded, Screen
    <3>2. CASE screen' = screen
      BY <3>2
    <3> QED
      BY <1>8, <3>1, <3>2 DEF Reloading, ServeReload, CutOff, Connect, OpenPage
  <2> QED
    BY <1>0, <2>1, <2>2, RecordedQuiet
<1>9. ASSUME NEW d \in Screens, LoadPage(d)
      PROVE  Recorded(s, t)'
  <2>1. pending' = pending /\ call' = call
    BY <1>9 DEF LoadPage, serverVars
  <2>2. CASE d # c
    BY <1>0, <1>9, <2>1, <2>2, RecordedQuiet DEF LoadPage
  <2>3. CASE d = c
    BY <1>0, <1>9, <2>1, <2>3, RecordedCleared DEF LoadPage
  <2> QED
    BY <2>2, <2>3
<1>10. CASE Press
  <2>1. ASSUME NEW h \in HostReqs, PressStart(h) \/ PressNext(h) \/ PressFinish(h) \/ AskReview(h)
        PROVE  Recorded(s, t)'
    <3>1. pending' = pending /\ call'[c] = call[c] /\ screen'[c] = screen[c]
      BY <1>0, <2>1 DEF PressStart, PressNext, PressFinish, AskReview, Sends, serverVars
    <3> QED
      BY <1>0, <3>1, RecordedQuiet
  <2>2. ASSUME NEW u \in Students, NEW v \in Tabs, PressAnswer(u, v)
        PROVE  Recorded(s, t)'
    <3>0. pending' = pending
      BY <2>2 DEF PressAnswer, Sends, serverVars
    <3>1. CASE <<u, v>> # c
      <4>1. call'[c] = call[c] /\ screen'[c] = screen[c]
        BY <1>0, <2>2, <3>1 DEF PressAnswer, Sends
      <4> QED
        BY <1>0, <3>0, <4>1, RecordedQuiet
    <3>2. CASE u = s /\ v = t
      <4>1. /\ call[c] = NoCall /\ call'[c].kind = "answer" /\ call'[c].phase = "sent"
            /\ call'[c].q = screen[c].x /\ screen'[c].x = screen[c].x
        BY <1>0, <2>2, <3>2 DEF PressAnswer, Sends, Screen
      <4>2. call'[c] # NoCall
        BY <4>1 DEF NoCall
      <4>3. pending[c] = Server!Idle
        BY <1>0, <4>1 DEF ServingInv
      <4> QED
        BY <3>0, <4>1, <4>2, <4>3 DEF Recorded
    <3> QED
      BY <1>0, <3>1, <3>2
  <2> QED
    BY <1>10, <2>1, <2>2 DEF Press
<1>11. ASSUME NEW d \in Screens, GetReply(d)
       PROVE  Recorded(s, t)'
  <2>0. pending' = pending
    BY <1>11 DEF GetReply, serverVars
  <2>1. CASE d # c
    <3>1. call'[c] = call[c] /\ screen'[c] = screen[c]
      BY <1>0, <1>11, <2>1 DEF GetReply
    <3> QED
      BY <1>0, <2>0, <3>1, RecordedQuiet
  <2>2. CASE d = c
    <3>1. /\ call[c] # NoCall /\ call[c].kind = "answer" /\ call'[c] = NoCall
          /\ call[c].phase \in {"done", "failed"} /\ pending[c] = Server!Idle
      BY <1>0, <1>11, <2>2 DEF GetReply, Recorded, ServingInv
    <3>2. CASE call[c].phase = "done"
      <4>1. screen'[c] = screen[c]
        BY <1>0, <1>11, <2>2, <3>1, <3>2 DEF GetReply, Replied
      <4> QED
        BY <1>0, <1>1, <2>0, <3>1, <3>2, <4>1 DEF Recorded
    <3>3. CASE call[c].phase = "failed"
      <4>1. ~screen'[c].answered
        BY <1>0, <1>11, <2>2, <3>1, <3>3 DEF GetReply, Failed, Screen
      <4> QED
        BY <2>0, <3>1, <4>1 DEF Recorded
    <3> QED
      BY <3>1, <3>2, <3>3
  <2> QED
    BY <2>1, <2>2
<1>12. CASE UNCHANGED vars
  BY <1>0, <1>12, RecordedQuiet DEF vars
<1>13. ASSUME NEW d \in Screens, Answering(d)
       PROVE  Recorded(s, t)'
  BY <1>13, <1>2, <1>3, <1>4, <1>5, <1>11 DEF Answering
<1>14. ASSUME NEW d \in Screens, Mishap(d)
       PROVE  Recorded(s, t)'
  BY <1>14, <1>6, <1>8 DEF Mishap
<1> QED
  BY <1>7, <1>8, <1>9, <1>10, <1>12, <1>13, <1>14 DEF Next

(* A student's screen that says "answered", and waits for no reply, tells   *)
(* the truth: an answer to the question on it is on record, whatever failed *)
(* was lost, came late or was refused as a second one.                      *)
THEOREM AnsweredMeansRecorded == Spec => []AnsweredIsOnRecord
<1>1. Init => RecordInv
  <2> SUFFICES ASSUME Init, NEW s \in Students, NEW t \in Tabs PROVE Recorded(s, t)
    BY DEF RecordInv
  <2>1. <<s, t>> \in Screens
    BY DEF Screens, Server!Requests
  <2> QED
    BY <2>1 DEF Init, Recorded
<1>2. RecordInv => AnsweredIsOnRecord
  BY DEF RecordInv, Recorded, AnsweredIsOnRecord
<1> QED
  BY <1>1, <1>2, RecordStep, TypesAndServing, PTL DEF Spec
=============================================================================
