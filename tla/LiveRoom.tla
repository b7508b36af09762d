------------------------------ MODULE LiveRoom ------------------------------
(***************************************************************************)
(* A classic room as its people see it: the handlers of RoomSession, the   *)
(* events they broadcast, and the screens of the web client (the compiled  *)
(* state class A.Qg of web/main.dart.js) that send the requests, hear the  *)
(* events and show the question.  Three things travel between a screen and *)
(* the server and overtake each other: the reply to a request, the events  *)
(* of the WebSocket, and the reply to a reload of the room.                *)
(*                                                                         *)
(* A screen has the identity of the request it may have in flight: one of  *)
(* HostReqs for a screen of the teacher, <<student, tab>> for a student.   *)
(* The hub is what EventFeed says of it: a mailbox without gaps as long as *)
(* the connection lasts.                                                   *)
(*                                                                         *)
(* Left out of the screen is what decides nothing here: the chosen option, *)
(* the countdown, the counters, the host's cache of answers and the list   *)
(* of participants, with the events that only feed them.  question.answered*)
(* and the end of the countdown make the screen of the teacher ask for the *)
(* review by itself: AskReview.                                            *)
(***************************************************************************)
EXTENDS Naturals, Sequences, FiniteSets

CONSTANTS
  Students, Questions, Banks, InitialBank, Modes, NoQuestion,
  HostReqs, Tabs, Endpoints, MaxRestarts, Fallible,
  Mishaps,  (* what else may go wrong on the way: of PossibleMishaps         *)
  MaxCuts,  (* bound: how many connections are lost                          *)
  Hasty     (* whether the teacher presses buttons while an event or the     *)
            (* reply to a reload is still on its way to the screen           *)

VARIABLES
  room, part, answers, bank, round, pending,
  outbox,   (* the events a request broadcasts once its write is done        *)
  call,     (* the request of a screen: what it asks, and how far it is      *)
  link,     (* the connection of a screen to the hub                         *)
  mail,     (* the events on their way to a screen                           *)
  reload,   (* the GET of the room an activation makes a screen send         *)
  screen,   (* the fields of the screen: status of w, question x, id and ax  *)
  cuts,     (* how many connections were lost                                *)
  inStep,   (* history: the screens sent the last question.activated         *)
  revealed  (* history: who has been shown the correct answer to what        *)

serverVars == <<room, part, answers, bank, round, pending>>

clientVars == <<link, mail, reload, screen, cuts, inStep, revealed>>

vars == <<room, part, answers, bank, round, pending,
          outbox, call, link, mail, reload, screen, cuts, inStep, revealed>>

Server == INSTANCE RoomSession

(* The page is opened again; the reply to a request is lost.                *)
PossibleMishaps ==
  {"student_reopens", "teacher_reopens", "student_unanswered", "teacher_unanswered"}

Befalls(c, student, teacher) == (IF c \in HostReqs THEN teacher ELSE student) \in Mishaps

(* What RoomSession assumes, and the bounds of this module.                 *)
ASSUME LiveAssumption ==
  /\ IsFiniteSet(Questions) /\ NoQuestion \notin Questions
  /\ InitialBank \in [Banks -> SUBSET Questions]
  /\ Modes \subseteq {"classic", "timer", "race"} /\ "classic" \in Modes
  /\ HostReqs \cap (Students \X Tabs) = {}
  /\ MaxRestarts \in Nat /\ "idle" \notin Fallible
  /\ Mishaps \subseteq PossibleMishaps
  /\ MaxCuts \in Nat
  /\ Hasty \in BOOLEAN

Screens == Server!Requests

Activated(q) == [event |-> "question.activated", q |-> q]

Reviewed(q) == [event |-> "question.reviewed", q |-> q]

StateChanged(status) == [event |-> "room.state_changed", status |-> status]

Events ==
  {Activated(q) : q \in Questions} \cup {Reviewed(q) : q \in Questions}
    \cup {StateChanged(status) : status \in Server!Statuses}

NoCall == [kind |-> "none"]

(* q is the question on the screen when a button is pressed, or the one in  *)
(* the reply; informed: the student had seen its correct answer.            *)
Call ==
  {NoCall} \cup [kind : {"start", "next", "review", "finish", "answer"},
                 q : Questions \cup {NoQuestion}, informed : BOOLEAN,
                 phase : {"sent", "serving", "done", "failed"}]

Screen ==
  [status : Server!Statuses, x : Questions \cup {NoQuestion},
   reviewing : BOOLEAN, answered : BOOLEAN]

TypeOK ==
  /\ Server!TypeOK
  /\ outbox \in [Screens -> Seq(Events)]
  /\ call \in [Screens -> Call]
  /\ link \in [Screens -> {"on", "off", "loading"}]
  /\ mail \in [Screens -> Seq(Events)]
  /\ reload \in [Screens -> {"none", "sent"} \cup Server!Statuses]
  /\ screen \in [Screens -> Screen]
  /\ cuts \in 0 .. MaxCuts
  /\ inStep \subseteq Screens
  /\ revealed \subseteq Students \X Questions

(* The lobby: the room is waiting, everyone has joined and is connected.    *)
Init ==
  /\ \E b \in Banks : \E o \in Server!Orderings(InitialBank[b]) :
       room = [status |-> "waiting", mode |-> "classic", bank |-> b, order |-> o,
               asked |-> <<>>, current |-> NoQuestion, started |-> FALSE, ended |-> FALSE]
  /\ part = [s \in Students |-> [joined |-> TRUE, left |-> FALSE, idx |-> 0, fin |-> FALSE]]
  /\ answers = {} /\ bank = InitialBank /\ round = 0
  /\ pending = [c \in Screens |-> Server!Idle]
  /\ outbox = [c \in Screens |-> <<>>]
  /\ call = [c \in Screens |-> NoCall]
  /\ link = [c \in Screens |-> "on"]
  /\ mail = [c \in Screens |-> <<>>]
  /\ reload = [c \in Screens |-> "none"]
  /\ screen = [c \in Screens |-> [status |-> "waiting", x |-> NoQuestion,
                                  reviewing |-> FALSE, answered |-> FALSE]]
  /\ cuts = 0
  /\ inStep = Screens
  /\ revealed = {}

-----------------------------------------------------------------------------
(* The server: a handler prepares its events from its snapshot, executes    *)
(* its statements, broadcasts and replies                                   *)

(* What the handler broadcasts after statement p.                           *)
Broadcasts(p) ==
  CASE p.op = "activate" /\ p.by = "start" -> <<Activated(p.q), StateChanged("active")>>
    [] p.op = "activate" /\ p.by = "next"  -> <<Activated(p.q)>>
    [] p.op = "review" -> <<Reviewed(room.current), StateChanged("review")>>
    [] p.op = "finish" -> <<StateChanged("finished")>>
    [] OTHER -> <<>>

(* The question in the reply to start or next; none when it finishes.       *)
Payload(c) == IF pending'[c].op = "activate" THEN pending'[c].q ELSE call[c].q

Arrived(c, kind) == call[c].kind = kind /\ call[c].phase = "sent"

Serve(h) ==
  /\ \/ Arrived(h, "start") /\ Server!StartRoom(h)
     \/ Arrived(h, "next") /\ Server!NextQuestion(h)
     \/ Arrived(h, "review") /\ Server!ReviewQuestion(h)
     \/ Arrived(h, "finish") /\ Server!FinishRoom(h)
  /\ outbox' = [outbox EXCEPT ![h] = Broadcasts(pending'[h])]
  /\ call' = [call EXCEPT ![h].phase = "serving", ![h].q = Payload(h)]
  /\ UNCHANGED clientVars

ServeAnswer(s, t) ==
  /\ Arrived(<<s, t>>, "answer")
  /\ room.current = call[<<s, t>>].q
  /\ Server!SubmitAnswer(s, t)
  /\ call' = [call EXCEPT ![<<s, t>>].phase = "serving"]
  /\ UNCHANGED <<outbox, clientVars>>

(* A review of a room that is not active, or a finish of a finished one, is *)
(* answered with 200; an answer to another question with 409.               *)
Decline(c) ==
  /\ pending[c] = Server!Idle
  /\ \/ Arrived(c, "review") /\ room.status # "active"
     \/ Arrived(c, "finish") /\ room.status = "finished"
     \/ Arrived(c, "answer") /\ (room.status # "active" \/ room.current # call[c].q)
  /\ call' = [call EXCEPT ![c].phase = IF call[c].kind = "answer" THEN "failed" ELSE "done"]
  /\ UNCHANGED <<serverVars, outbox, clientVars>>

Execute(h) ==
  /\ Server!ActivateQuestion(h) \/ Server!CloseRoom(h) \/ Server!ShowReview(h)
  /\ UNCHANGED <<outbox, call, clientVars>>

(* A second answer to the question is refused with 409.                     *)
SaveAnswer(s, t) ==
  /\ Server!SaveAnswer(s, t)
  /\ call' = [call EXCEPT ![<<s, t>>].phase =
                IF call[<<s, t>>].q \in Server!Answered(s) THEN "failed" ELSE "done"]
  /\ UNCHANGED <<outbox, clientVars>>

Abort(c) ==
  /\ Server!Abort(c)
  /\ outbox' = [outbox EXCEPT ![c] = <<>>]
  /\ call' = [call EXCEPT ![c].phase = "failed"]
  /\ UNCHANGED clientVars

(* One Broadcast: the event goes to every screen that is connected.         *)
Publish(h) ==
  /\ pending[h].op = "announce"
  /\ outbox[h] # <<>>
  /\ LET e == Head(outbox[h])
     IN  /\ mail' = [c \in Screens |-> IF link[c] = "on" THEN Append(mail[c], e) ELSE mail[c]]
         /\ inStep' = IF e.event = "question.activated"
                      THEN {c \in Screens : link[c] = "on"} ELSE inStep
  /\ outbox' = [outbox EXCEPT ![h] = Tail(@)]
  /\ UNCHANGED <<serverVars, call, link, reload, screen, cuts, revealed>>

Reply(h) ==
  /\ outbox[h] = <<>>
  /\ Server!Announce(h)
  /\ call' = [call EXCEPT ![h].phase = "done"]
  /\ UNCHANGED <<outbox, clientVars>>

-----------------------------------------------------------------------------
(* A screen hears an event (auQ)                                            *)

(* Faulty variant: an activation does not replace the question shown.       *)
AfterKeepingQuestion(e, s) ==
  CASE e.event = "question.activated" ->
         [s EXCEPT !.status = "active", !.x = IF s.x = NoQuestion THEN e.q ELSE s.x]
    [] e.event = "question.reviewed" -> [s EXCEPT !.status = "review"]
    [] e.event = "room.state_changed" -> [s EXCEPT !.status = e.status]

(* What an event makes of the fields of a screen.  A review and a change of *)
(* status are believed whatever question they are about.                    *)
After(e, s) ==
  CASE e.event = "question.activated" ->
         [status |-> "active", x |-> e.q, reviewing |-> FALSE, answered |-> FALSE]
    [] e.event = "question.reviewed" -> [s EXCEPT !.status = "review"]
    [] e.event = "room.state_changed" -> [s EXCEPT !.status = e.status]

(* An activation is followed by a GET of the room; bound: a screen waits    *)
(* for the reply to the last one before it hears the next activation.       *)
Hear(c) ==
  /\ mail[c] # <<>>
  /\ LET e == Head(mail[c])
         activation == e.event = "question.activated"
     IN  /\ activation => reload[c] = "none"
         /\ screen' = [screen EXCEPT ![c] = After(e, @)]
         /\ reload' = [reload EXCEPT ![c] = IF activation THEN "sent" ELSE @]
         /\ revealed' = IF e.event = "question.reviewed"
                        THEN revealed \cup {<<s, e.q>> : s \in {u \in Students : c \in {u} \X Tabs}}
                        ELSE revealed
  /\ mail' = [mail EXCEPT ![c] = Tail(@)]
  /\ UNCHANGED <<serverVars, outbox, call, link, cuts, inStep>>

(* The two ends of that GET (E1); its reply overwrites w whatever was heard *)
(* meanwhile.                                                               *)
ServeReload(c) ==
  /\ reload[c] = "sent"
  /\ reload' = [reload EXCEPT ![c] = room.status]
  /\ UNCHANGED <<serverVars, outbox, call, link, mail, screen, cuts, inStep, revealed>>

Reloaded(c) ==
  /\ reload[c] \in Server!Statuses
  /\ screen' = [screen EXCEPT ![c].status = reload[c]]
  /\ reload' = [reload EXCEPT ![c] = "none"]
  /\ UNCHANGED <<serverVars, outbox, call, link, mail, cuts, inStep, revealed>>

-----------------------------------------------------------------------------
(* The teacher presses (Ea, yM, uu, ls) and gets the reply                  *)

Settled(h) == mail[h] = <<>> /\ reload[h] = "none"

(* Bound: a screen has one request on its way.                              *)
Sends(c, kind) ==
  /\ call[c] = NoCall /\ link[c] # "loading"
  /\ kind \in Endpoints
  /\ call' = [call EXCEPT ![c] =
                [kind |-> kind, phase |-> "sent",
                 q |-> IF kind \in {"review", "answer"} THEN screen[c].x ELSE NoQuestion,
                 informed |-> \E s \in Students :
                                c \in {s} \X Tabs /\ <<s, screen[c].x>> \in revealed]]
  /\ UNCHANGED <<serverVars, outbox, link, mail, reload, cuts, inStep, revealed>>

(* The lobby is shown, with its button, while there is no question.         *)
PressStart(h) ==
  /\ Hasty \/ Settled(h)
  /\ screen[h].x = NoQuestion /\ screen[h].status # "finished"
  /\ Sends(h, "start")
  /\ UNCHANGED screen

(* The button, or a while after the review by itself (auto_advance).        *)
PressNext(h) ==
  /\ Hasty \/ Settled(h)
  /\ screen[h].status = "review"
  /\ Sends(h, "next")
  /\ UNCHANGED screen

PressFinish(h) ==
  /\ Hasty \/ Settled(h)
  /\ screen[h].status # "finished"
  /\ Sends(h, "finish")
  /\ UNCHANGED screen

(* The button, the end of the countdown, or the last answer of all: the two *)
(* last ones do not wait for anybody's patience.                            *)
AskReview(h) ==
  /\ ~screen[h].reviewing /\ screen[h].status = "active"
  /\ Sends(h, "review")
  /\ screen' = [screen EXCEPT ![h].reviewing = TRUE]

(* Faulty variant: the reply to next opens the question, but leaves showing *)
(* it to the event.                                                         *)
RepliedKeepingQuestion(k, s) ==
  CASE k.kind = "start" ->
         [status |-> "active", x |-> k.q, reviewing |-> FALSE, answered |-> FALSE]
    [] k.kind = "next" /\ k.q = NoQuestion -> [s EXCEPT !.x = NoQuestion, !.status = "finished"]
    [] k.kind = "next" /\ k.q # NoQuestion ->
         [s EXCEPT !.status = "active", !.reviewing = FALSE, !.answered = FALSE]
    [] OTHER -> s

(* What a successful reply makes of the screen; the one to next does not    *)
(* touch the status unless the session is over.                             *)
Replied(k, s) ==
  CASE k.kind = "start" ->
         [status |-> "active", x |-> k.q, reviewing |-> FALSE, answered |-> FALSE]
    [] k.kind = "next" /\ k.q = NoQuestion -> [s EXCEPT !.x = NoQuestion, !.status = "finished"]
    [] k.kind = "next" /\ k.q # NoQuestion ->
         [s EXCEPT !.x = k.q, !.reviewing = FALSE, !.answered = FALSE]
    [] OTHER -> s

(* Faulty variant: an answer that was not accepted stays marked as given.   *)
FailedKeepingAnswered(k, s) == IF k.kind = "review" THEN [s EXCEPT !.reviewing = FALSE] ELSE s

Failed(k, s) ==
  CASE k.kind = "review" -> [s EXCEPT !.reviewing = FALSE]
    [] k.kind = "answer" -> [s EXCEPT !.answered = FALSE]
    [] OTHER -> s

GetReply(c) ==
  /\ call[c] # NoCall
  /\ \/ call[c].phase = "done" /\ screen' = [screen EXCEPT ![c] = Replied(call[c], @)]
     \/ call[c].phase = "failed" /\ screen' = [screen EXCEPT ![c] = Failed(call[c], @)]
  /\ call' = [call EXCEPT ![c] = NoCall]
  /\ UNCHANGED <<serverVars, outbox, link, mail, reload, cuts, inStep, revealed>>

(* A student answers (Ez).                                                  *)
PressAnswer(s, t) ==
  LET c == <<s, t>>
  IN  /\ screen[c].x # NoQuestion /\ ~screen[c].answered /\ screen[c].status = "active"
      /\ Sends(c, "answer")
      /\ screen' = [screen EXCEPT ![c].answered = TRUE]

-----------------------------------------------------------------------------
(* Mishaps *)

LoseReply(c) ==
  /\ Befalls(c, "student_unanswered", "teacher_unanswered")
  /\ call[c] # NoCall /\ call[c].phase = "done"
  /\ call' = [call EXCEPT ![c].phase = "failed"]
  /\ UNCHANGED <<serverVars, outbox, clientVars>>

(* The end of the mailbox is lost with the connection.                      *)
CutOff(c) ==
  /\ link[c] = "on" /\ cuts < MaxCuts
  /\ cuts' = cuts + 1
  /\ \E n \in 0 .. Len(mail[c]) :
       /\ mail' = [mail EXCEPT ![c] = SubSeq(@, 1, n)]
       /\ inStep' = IF \E i \in n + 1 .. Len(mail[c]) : mail[c][i].event = "question.activated"
                    THEN inStep \ {c} ELSE inStep
  /\ link' = [link EXCEPT ![c] = "off"]
  /\ UNCHANGED <<serverVars, outbox, call, reload, screen, revealed>>

(* a0Q and Xo: the screen connects again and asks for nothing it missed.    *)
Connect(c) ==
  /\ link[c] = "off" /\ mail[c] = <<>>
  /\ link' = [link EXCEPT ![c] = "on"]
  /\ UNCHANGED <<serverVars, outbox, call, mail, reload, screen, cuts, inStep, revealed>>

(* The page is opened again (bound: between two requests of it) and gets    *)
(* the room (qm), but never the question.                                   *)
OpenPage(c) ==
  /\ Befalls(c, "student_reopens", "teacher_reopens")
  /\ call[c] = NoCall
  /\ link' = [link EXCEPT ![c] = "loading"]
  /\ mail' = [mail EXCEPT ![c] = <<>>]
  /\ reload' = [reload EXCEPT ![c] = "none"]
  /\ inStep' = inStep \ {c}
  /\ UNCHANGED <<serverVars, outbox, call, screen, cuts, revealed>>

LoadPage(c) ==
  /\ link[c] = "loading"
  /\ link' = [link EXCEPT ![c] = "off"]
  /\ screen' = [screen EXCEPT ![c] = [status |-> room.status, x |-> NoQuestion,
                                      reviewing |-> FALSE, answered |-> FALSE]]
  /\ UNCHANGED <<serverVars, outbox, call, mail, reload, cuts, inStep, revealed>>

-----------------------------------------------------------------------------
Press ==
  \/ \E h \in HostReqs : PressStart(h) \/ PressNext(h) \/ PressFinish(h) \/ AskReview(h)
  \/ \E s \in Students, t \in Tabs : PressAnswer(s, t)

(* What a request in flight does next, at the server and back at its screen.*)
Answering(c) ==
  \/ c \in HostReqs /\ (Serve(c) \/ Execute(c) \/ Publish(c) \/ Reply(c))
  \/ \E s \in Students, t \in Tabs : c = <<s, t>> /\ (ServeAnswer(s, t) \/ SaveAnswer(s, t))
  \/ Decline(c)
  \/ GetReply(c)

Reloading(c) == ServeReload(c) \/ Reloaded(c)

Mishap(c) == Abort(c) \/ LoseReply(c) \/ CutOff(c) \/ OpenPage(c)

Next ==
  \/ Press
  \/ \E c \in Screens : Answering(c) \/ Hear(c) \/ Reloading(c) \/ Connect(c) \/ LoadPage(c)
  \/ \E c \in Screens : Mishap(c)

Spec == Init /\ [][Next]_vars

-----------------------------------------------------------------------------
(* The screen of a student does not lie: once no request of it is on its    *)
(* way, "answered" means that an answer to the question it shows is on      *)
(* record, whatever failed, was lost or came late.                          *)
AnsweredIsOnRecord ==
  \A s \in Students, t \in Tabs :
    LET c == <<s, t>>
    IN  call[c] = NoCall /\ screen[c].answered => screen[c].x \in Server!Answered(s)

(* Nobody who has been shown the correct answer gets an answer to that      *)
(* question accepted.                                                       *)
NoAnswerAfterReveal ==
  \A s \in Students, t \in Tabs :
    LET c == <<s, t>> IN pending[c].op = "answer" => ~call[c].informed

(* A question is not opened again once its correct answer has been shown to *)
(* a student, so nobody who answers it can have heard it from a neighbour.  *)
ExplainedStaysClosed ==
  \A s \in Students, q \in Questions :
    <<s, q>> \in revealed => ~(room.status = "active" /\ room.current = q)

(* The review closes the very question the teacher's screen showed when it  *)
(* was asked for, although the request does not say which one it means.     *)
ReviewsWhatIsShown ==
  \A h \in HostReqs : pending[h].op = "review" => call[h].q = room.current

Pends(c) == \E i \in DOMAIN mail[c] : mail[c][i].event = "question.activated"

(* A screen that was sent the last activation shows the question of the     *)
(* room once it has heard it, whatever replies and reloads came in between. *)
QuestionInStep ==
  room.status \in {"active", "review"} /\ (\A h \in HostReqs : outbox[h] = <<>>)
    => \A c \in inStep : Pends(c) \/ screen[c].x = room.current
=============================================================================
