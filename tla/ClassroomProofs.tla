--------------------------- MODULE ClassroomProofs ---------------------------
(***************************************************************************)
(* What LiveRoom promises in a classroom with one teacher, who looks before *)
(* pressing: no review of a question that is not on the screen, no answer  *)
(* after the explanation, and screens that keep up with the room.  For     *)
(* every set of students, questions and tabs, and any number of lost       *)
(* connections, reopened pages and lost replies of students.               *)
(***************************************************************************)
EXTENDS LiveRoomProofs

(* One screen of the teacher, whose buttons are pressed when what was on    *)
(* its way to it has arrived, whose page is not opened again, and whose     *)
(* requests, once their write is done, are broadcast and replied to.        *)
OnePatientTeacher ==
  /\ \A g, h \in HostReqs : g = h
  /\ ~Hasty
  /\ Mishaps \cap {"teacher_reopens", "teacher_unanswered"} = {}
  /\ "announce" \notin Fallible

-----------------------------------------------------------------------------
(* The invariant of the teacher's screen and its request *)

Finished == StateChanged("finished")

AskedSet == {room.asked[i] : i \in DOMAIN room.asked}

(* A start or next on its way to its write, and one whose write is done.    *)
Unwritten(h) ==
  /\ call[h].kind \in {"start", "next"}
  /\ call[h].phase \in {"sent", "serving"} /\ pending[h].op # "announce"

Written(h) ==
  /\ call[h].kind \in {"start", "next"}
  /\ pending[h].op = "announce" \/ call[h].phase = "done"

(* What is left to broadcast belongs to the write that was done, and        *)
(* nothing was written since.                                               *)
Announces(h) ==
  \/ /\ call[h].kind \in {"start", "next"} /\ call[h].q = room.current /\ call[h].q # NoQuestion
     /\ outbox[h] \in {<<Activated(call[h].q), StateChanged("active")>>, <<Activated(call[h].q)>>,
                       <<StateChanged("active")>>, <<>>}
  \/ /\ call[h].kind = "review" /\ room.current # NoQuestion /\ room.status # "active"
     /\ outbox[h] \in {<<Reviewed(room.current), StateChanged("review")>>,
                       <<StateChanged("review")>>, <<>>}
  \/ /\ call[h].kind = "finish" \/ (call[h].kind = "next" /\ call[h].q = NoQuestion)
     /\ room.status = "finished"
     /\ outbox[h] \in {<<Finished>>, <<>>}

(* The statement the handler executes next belongs to the request, and what *)
(* it prepared to broadcast belongs to the statement.                       *)
Fits(h) ==
  LET p == pending[h]
      k == call[h]
  IN  /\ p = Server!Idle \/ p.op \in {"start", "activate", "review", "finish", "announce"}
      /\ p = Server!Idle => outbox[h] = <<>>
      /\ k.kind \in {"start", "next"} /\ k.phase = "sent" => k.q = NoQuestion
      /\ p.op = "activate" =>
           /\ k.kind = p.by /\ k.q = p.q
           /\ outbox[h] \in {<<Activated(k.q), StateChanged("active")>>, <<Activated(k.q)>>}
           /\ p.by = "next" => p.q \notin AskedSet /\ p.asked = Append(room.asked, p.q)
      /\ p.op = "review" =>
           /\ k.kind = "review" /\ room.current # NoQuestion
           /\ outbox[h] = <<Reviewed(room.current), StateChanged("review")>>
      /\ p.op = "finish" =>
           /\ k.kind = "finish" \/ (k.kind = "next" /\ k.q = NoQuestion)
           /\ p.from = room.status /\ outbox[h] = <<Finished>>
      /\ p.op = "announce" => Announces(h)

(* The reply to start or next says what was written last.                   *)
RepliesTruly(h) ==
  call[h].kind \in {"start", "next"} /\ call[h].phase = "done" =>
    \/ call[h].q = room.current /\ call[h].q # NoQuestion
    \/ call[h].kind = "next" /\ call[h].q = NoQuestion /\ room.status = "finished"

(* Nothing is on its way to the screen but the end of the session.          *)
Quiet(h) == reload[h] = "none" /\ \A i \in DOMAIN mail[h] : mail[h][i] = Finished

(* The session is over, and this screen knows it.                           *)
Closed(h) ==
  /\ call[h] = NoCall /\ Quiet(h) /\ room.status = "finished"
  /\ screen[h].status = "finished" /\ screen[h].x = NoQuestion

(* No activation overtakes an older one: before a question is written all   *)
(* that was sent to the screen has been heard.                              *)
Patient(h) ==
  /\ link[h] # "loading"
  /\ Unwritten(h) => Settled(h)
  /\ Written(h) /\ call[h].q = NoQuestion => Quiet(h)
  /\ \A i \in DOMAIN mail[h] :
       mail[h][i].event = "question.activated" => mail[h][i].q = room.current

(* The screen shows the question of the room, or none before the first and  *)
(* after the last; only the first press starts the round.                   *)
Shows(h) ==
  /\ screen[h].x \in {room.current, NoQuestion} \/ (Written(h) /\ call[h].q # NoQuestion)
  /\ room.asked # <<>> => \/ call[h].kind = "start" /\ Written(h)
                          \/ screen[h].x # NoQuestion
                          \/ Closed(h)
  /\ room.asked = <<>> => screen[h].status \notin {"active", "review"} /\ Quiet(h)
  /\ call[h].kind = "start" /\ Unwritten(h) => room.asked = <<>>
  /\ call[h].kind = "next" => screen[h].x # NoQuestion
  /\ call[h].kind = "review" /\ call[h].phase \in {"sent", "serving"} => call[h].q = room.current

InOrder(h) == Fits(h) /\ RepliesTruly(h) /\ Patient(h) /\ Shows(h)

TeacherInv == \A h \in HostReqs : InOrder(h)

-----------------------------------------------------------------------------
(* The invariants of the students' screens *)

(* The correct answer to q is known to a student, or on its way to one.     *)
Told(q) ==
  \/ \E c \in Screens : \E i \in DOMAIN mail[c] : mail[c][i] = Reviewed(q)
  \/ \E s \in Students : <<s, q>> \in revealed

(* A question that was explained is not open, and will not be asked again.  *)
ExplainedInv ==
  \A q \in Questions : Told(q) => q \in AskedSet /\ ~(room.status = "active" /\ room.current = q)

InformedInv ==
  \A s \in Students, t \in Tabs :
    LET c == <<s, t>>
    IN  /\ call[c] # NoCall /\ call[c].informed => <<s, call[c].q>> \in revealed
        /\ pending[c].op = "answer" => ~call[c].informed

(* The question on a screen that showed x once it has heard mailbox m is q. *)
EndsWith(m, x, q) ==
  \/ \E i \in DOMAIN m : /\ m[i] = Activated(q)
                         /\ \A j \in DOMAIN m : j > i => m[j].event # "question.activated"
  \/ x = q /\ \A i \in DOMAIN m : m[i].event # "question.activated"

ActivationDue(h) ==
  /\ pending[h].op = "announce"
  /\ \E i \in DOMAIN outbox[h] : outbox[h][i].event = "question.activated"

InStepAt(c) ==
  /\ link[c] # "loading"
  /\ \/ EndsWith(mail[c], screen[c].x, room.current)
     \/ \E h \in HostReqs : ActivationDue(h)
     \/ c \in HostReqs /\ Closed(c)

InStepInv == \A c \in inStep : InStepAt(c)

-----------------------------------------------------------------------------
(* What every step may rely on *)

(* Proved for every classroom in LiveRoomProofs.                            *)
Base == TypeOK /\ ServingInv /\ Handlers!AskedInv

(* The types, read off the type invariant; the question of the room is one  *)
(* of those it asked.                                                       *)
LEMMA BaseFacts ==
  ASSUME Base
  PROVE  /\ outbox \in [Screens -> Seq(Events)] /\ call \in [Screens -> Call]
         /\ link \in [Screens -> {"on", "off", "loading"}]
         /\ mail \in [Screens -> Seq(Events)]
         /\ reload \in [Screens -> {"none", "sent"} \cup Server!Statuses]
         /\ screen \in [Screens -> Screen] /\ inStep \subseteq Screens
         /\ pending \in [Screens -> Server!Pending]
         /\ HostReqs \subseteq Screens /\ Students \X Tabs \subseteq Screens
         /\ HostReqs \cap (Students \X Tabs) = {}
         /\ room \in Server!Room /\ room.asked \in Seq(Questions) /\ room.current \in MaybeQuestion
         /\ room.current # NoQuestion => room.current \in AskedSet /\ room.asked # <<>>
<1>1. room.current # NoQuestion => room.current \in AskedSet /\ room.asked # <<>>
  <2> SUFFICES ASSUME room.current # NoQuestion PROVE room.current \in AskedSet /\ room.asked # <<>>
    OBVIOUS
  <2>1. room.asked # <<>> /\ room.asked[Len(room.asked)] = room.current
    BY DEF Base, Handlers!AskedInv, Handlers!AskedOnce, Handlers!Last
  <2>2. room.asked \in Seq(Questions)
    BY DEF Base, TypeOK, Server!TypeOK, Server!StoreTypeOK, Server!Room
  <2>3. Len(room.asked) \in DOMAIN room.asked
    BY <2>1, <2>2
  <2> QED
    BY <2>1, <2>3 DEF AskedSet
<1> QED
  BY <1>1, LiveAssumption
  DEF Base, TypeOK, Server!TypeOK, Server!StoreTypeOK, Server!Room, MaybeQuestion, Screens,
      Server!Requests, LiveAssumption

(* The same of the room after a step.                                       *)
LEMMA BaseFactsNext ==
  ASSUME Base'
  PROVE  room' \in Server!Room /\ (room'.current # NoQuestion => room'.asked # <<>>)
<1>1. room'.current # NoQuestion => room'.asked # <<>>
  BY DEF Base, Handlers!AskedInv, Handlers!AskedOnce
<1>2. room' \in Server!Room
  BY DEF Base, TypeOK, Server!TypeOK, Server!StoreTypeOK, Server!Room
<1> QED
  BY <1>1, <1>2

(* The kinds of events tell them apart.                                     *)
LEMMA EventKinds ==
  /\ \A q : Activated(q).event = "question.activated" /\ Activated(q).q = q
  /\ \A q : Reviewed(q).event = "question.reviewed" /\ Reviewed(q).q = q
  /\ \A status : /\ StateChanged(status).event = "room.state_changed"
                   /\ StateChanged(status).status = status
  /\ \A e \in Events : e.event = "question.activated" => e = Activated(e.q) /\ e.q \in Questions
  /\ \A e \in Events : e.event = "question.reviewed" => e = Reviewed(e.q) /\ e.q \in Questions
  /\ \A e \in Events : \/ e.event \in {"question.activated", "question.reviewed"}
                       \/ e.event = "room.state_changed" /\ e = StateChanged(e.status)
<1>1. /\ \A q : Activated(q).event = "question.activated" /\ Activated(q).q = q
      /\ \A q : Reviewed(q).event = "question.reviewed" /\ Reviewed(q).q = q
      /\ \A status : /\ StateChanged(status).event = "room.state_changed"
                       /\ StateChanged(status).status = status
  BY DEF Activated, Reviewed, StateChanged
<1>2. ASSUME NEW e \in Events
      PROVE  \/ \E q \in Questions : e = Activated(q) \/ e = Reviewed(q)
             \/ \E status \in Server!Statuses : e = StateChanged(status)
  BY DEF Events
<1> QED
  BY <1>1, <1>2

(* What the invariant says of a screen of the teacher depends on the room   *)
(* and on what belongs to this screen.                                      *)
Untouched(h) ==
  /\ room' = room /\ pending'[h] = pending[h] /\ call'[h] = call[h] /\ outbox'[h] = outbox[h]
  /\ mail'[h] = mail[h] /\ reload'[h] = reload[h] /\ screen'[h] = screen[h] /\ link'[h] = link[h]

OwnStep(h) ==
  \/ Serve(h) \/ Execute(h) \/ Publish(h) \/ Reply(h) \/ Decline(h) \/ GetReply(h)
  \/ PressStart(h) \/ PressNext(h) \/ PressFinish(h) \/ AskReview(h)
  \/ Hear(h) \/ Reloading(h) \/ CutOff(h) \/ Connect(h) \/ LoadPage(h) \/ Abort(h)

(* With one teacher, who keeps the page open and gets the replies, a step   *)
(* is the teacher's own or does not touch this.                             *)
LEMMA OwnOrUntouched ==
  ASSUME Base, OnePatientTeacher, [Next]_vars, NEW h \in HostReqs
  PROVE  OwnStep(h) \/ Untouched(h)
<1>0. /\ \A g \in HostReqs : g = h
      /\ h \in Screens /\ \A s \in Students, t \in Tabs : <<s, t>> \in Screens /\ <<s, t>> # h
      /\ \A c \in Screens : c # h => c \in Students \X Tabs
  BY BaseFacts DEF OnePatientTeacher, Screens, Server!Requests
<1>a. /\ pending \in [Screens -> Server!Pending] /\ call \in [Screens -> Call]
      /\ outbox \in [Screens -> Seq(Events)] /\ mail \in [Screens -> Seq(Events)]
      /\ reload \in [Screens -> {"none", "sent"} \cup Server!Statuses]
      /\ screen \in [Screens -> Screen] /\ link \in [Screens -> {"on", "off", "loading"}]
  BY BaseFacts
<1>1. CASE UNCHANGED vars
  BY <1>1 DEF vars, Untouched
<1>2. CASE Press
  <2>1. ASSUME NEW g \in HostReqs, PressStart(g) \/ PressNext(g) \/ PressFinish(g) \/ AskReview(g)
        PROVE  OwnStep(h)
    BY <1>0, <2>1 DEF OwnStep
  <2>2. ASSUME NEW s \in Students, NEW t \in Tabs, PressAnswer(s, t)
        PROVE  Untouched(h)
    BY <1>0, <1>a, <2>2 DEF PressAnswer, Sends, Untouched, serverVars
  <2> QED
    BY <1>2, <2>1, <2>2 DEF Press
<1>3. ASSUME NEW c \in Screens, c # h, Decline(c) \/ GetReply(c)
      PROVE  Untouched(h)
  BY <1>0, <1>a, <1>3 DEF Decline, GetReply, Untouched, serverVars, clientVars
<1>4. ASSUME NEW s \in Students, NEW t \in Tabs, ServeAnswer(s, t) \/ SaveAnswer(s, t)
      PROVE  Untouched(h)
  BY <1>0, <1>a, <1>4
  DEF ServeAnswer, SaveAnswer, Server!SubmitAnswer, Server!SaveAnswer, Server!InsertAnswer,
      Server!Reads, Server!Then, Server!storeVars, Untouched, clientVars
<1>5. ASSUME NEW c \in Screens, Answering(c)
      PROVE  OwnStep(h) \/ Untouched(h)
  BY <1>0, <1>3, <1>4, <1>5 DEF Answering, OwnStep
<1>6. ASSUME NEW c \in Screens, c # h, Hear(c) \/ Reloading(c) \/ Connect(c) \/ LoadPage(c)
      PROVE  Untouched(h)
  BY <1>0, <1>a, <1>6
  DEF Hear, Reloading, ServeReload, Reloaded, Connect, LoadPage, Untouched, serverVars
<1>7. ASSUME NEW c \in Screens, c # h, Mishap(c)
      PROVE  Untouched(h)
  BY <1>0, <1>a, <1>7
  DEF Mishap, Abort, LoseReply, CutOff, OpenPage, Server!Abort, Server!Reads, Server!Then,
      Server!storeVars, Untouched, serverVars, clientVars
<1>8. ASSUME Mishap(h)
      PROVE  OwnStep(h)
  BY <1>8 DEF Mishap, LoseReply, OpenPage, Befalls, OnePatientTeacher, OwnStep
<1> QED
  BY <1>0, <1>1, <1>2, <1>5, <1>6, <1>7, <1>8 DEF Next, OwnStep
-----------------------------------------------------------------------------
(* The teacher's own steps keep the invariant, action by action *)

(* The fields of calls and statements.                                      *)
LEMMA CallFields ==
  /\ NoCall.kind = "none"
  /\ \A k \in Call : k = NoCall <=> k.kind = "none"
  /\ \A k \in Call : k # NoCall => \A phase :
       /\ [k EXCEPT !.phase = phase].kind = k.kind /\ [k EXCEPT !.phase = phase].q = k.q
       /\ [k EXCEPT !.phase = phase].phase = phase
       /\ [k EXCEPT !.phase = phase].informed = k.informed
  /\ \A k \in Call : k # NoCall => \A phase, q :
       /\ [k EXCEPT !.phase = phase, !.q = q].kind = k.kind
       /\ [k EXCEPT !.phase = phase, !.q = q].q = q
       /\ [k EXCEPT !.phase = phase, !.q = q].phase = phase
       /\ [k EXCEPT !.phase = phase, !.q = q].informed = k.informed
  BY DEF Call, NoCall

(* The invariant is about nothing but what Untouched lists.                 *)
LEMMA UntouchedKeeps ==
  ASSUME NEW h, InOrder(h), Untouched(h)
  PROVE  InOrder(h)'
<1>1. AskedSet' = AskedSet
  BY DEF AskedSet, Untouched
<1>2. /\ Unwritten(h)' <=> Unwritten(h)
      /\ Written(h)' <=> Written(h)
      /\ Quiet(h)' <=> Quiet(h)
  BY DEF Unwritten, Written, Quiet, Untouched
<1>3. Closed(h)' <=> Closed(h)
  BY <1>2 DEF Closed, Untouched
<1>4. Fits(h)'
  BY <1>1 DEF InOrder, Fits, Announces, Untouched
<1>5. RepliesTruly(h)'
  BY DEF InOrder, RepliesTruly, Untouched
<1>6. Patient(h)'
  BY <1>2 DEF InOrder, Patient, Settled, Untouched
<1>7. Shows(h)'
  BY <1>2, <1>3 DEF InOrder, Shows, Untouched
<1> QED
  BY <1>4, <1>5, <1>6, <1>7 DEF InOrder

(* A button: the request is sent, and nothing else has changed.             *)
LEMMA PressKeeps ==
  ASSUME Base, OnePatientTeacher, NEW h \in HostReqs, InOrder(h),
         PressStart(h) \/ PressNext(h) \/ PressFinish(h)
  PROVE  InOrder(h)'
<1>1. PICK kind \in {"start", "next", "finish"} :
        /\ Sends(h, kind) /\ Settled(h) /\ screen' = screen
        /\ kind = "start" => screen[h].x = NoQuestion
        /\ kind = "next" => screen[h].status = "review"
        /\ screen[h].status # "finished"
  BY DEF PressStart, PressNext, PressFinish, OnePatientTeacher
<1>2. /\ call'[h].kind = kind /\ call'[h].phase = "sent" /\ call'[h].q = NoQuestion
      /\ call[h] = NoCall /\ call[h].kind = "none"
  BY <1>1, BaseFacts, CallFields DEF Sends
<1>3. /\ room' = room /\ pending'[h] = pending[h] /\ outbox'[h] = outbox[h] /\ mail'[h] = mail[h]
      /\ reload'[h] = reload[h] /\ link'[h] = link[h] /\ screen'[h] = screen[h]
  BY <1>1 DEF Sends, serverVars
<1>4. pending[h] = Server!Idle /\ pending[h].op = "idle"
  BY <1>2, BaseFacts DEF Base, ServingInv, Server!Idle
<1>5. ~Written(h)' /\ ~Written(h) /\ ~Closed(h) /\ AskedSet' = AskedSet /\ (Quiet(h)' <=> Quiet(h))
  BY <1>1, <1>2, <1>3, <1>4 DEF Written, Closed, AskedSet, Quiet
<1>6. Fits(h)'
  BY <1>2, <1>3, <1>4 DEF InOrder, Fits, Server!Idle
<1>7. RepliesTruly(h)'
  BY <1>2 DEF RepliesTruly
<1>8. Patient(h)'
  BY <1>1, <1>3, <1>5 DEF InOrder, Patient, Settled
<1>9. Shows(h)'
  BY <1>1, <1>2, <1>3, <1>5 DEF InOrder, Shows
<1> QED
  BY <1>6, <1>7, <1>8, <1>9 DEF InOrder

(* The screen asks for the review of the question it shows, which is the    *)
(* question of the room as long as no reply is due.                         *)
LEMMA AskReviewKeeps ==
  ASSUME Base, NEW h \in HostReqs, InOrder(h), AskReview(h)
  PROVE  InOrder(h)'
<1>1. /\ call'[h].kind = "review" /\ call'[h].phase = "sent" /\ call'[h].q = screen[h].x
      /\ call[h] = NoCall /\ call[h].kind = "none"
  BY BaseFacts, CallFields DEF AskReview, Sends
<1>2. /\ room' = room /\ pending'[h] = pending[h] /\ outbox'[h] = outbox[h] /\ mail'[h] = mail[h]
      /\ reload'[h] = reload[h] /\ link'[h] = link[h]
      /\ screen'[h].x = screen[h].x /\ screen'[h].status = screen[h].status
      /\ screen[h].status = "active"
  BY BaseFacts DEF AskReview, Sends, serverVars, Screen
<1>3. pending[h] = Server!Idle /\ pending[h].op = "idle"
  BY <1>1, BaseFacts DEF Base, ServingInv, Server!Idle
<1>4. /\ ~Written(h)' /\ ~Written(h) /\ ~Unwritten(h)' /\ ~Closed(h)
      /\ AskedSet' = AskedSet /\ (Quiet(h)' <=> Quiet(h))
  BY <1>1, <1>2, <1>3 DEF Written, Unwritten, Closed, AskedSet, Quiet
<1>5. Fits(h)'
  BY <1>1, <1>2, <1>3 DEF InOrder, Fits, Server!Idle
<1>6. RepliesTruly(h)' /\ Patient(h)'
  BY <1>1, <1>2, <1>4 DEF InOrder, RepliesTruly, Patient
<1>7. Shows(h)'
  BY <1>1, <1>2, <1>4 DEF InOrder, Shows
<1> QED
  BY <1>5, <1>6, <1>7 DEF InOrder

(* The handler starts: it decides on a statement, and prepares the events   *)
(* that belong to it.                                                       *)
LEMMA ServeKeeps ==
  ASSUME Base, NEW h \in HostReqs, InOrder(h), Serve(h)
  PROVE  InOrder(h)'
<1> DEFINE p == pending'[h]
           k == call[h]
<1>0. /\ h \in Screens /\ k \in Call /\ pending[h] = Server!Idle
      /\ pending \in [Screens -> Server!Pending]
  BY BaseFacts
  DEF Serve, Server!StartRoom, Server!NextQuestion, Server!ReviewQuestion, Server!FinishRoom,
      Server!Calls
<1>1. /\ k # NoCall /\ k.phase = "sent"
      /\ k.kind \in {"start", "next", "review", "finish"}
      /\ k.kind \in {"start", "next"} => k.q = NoQuestion
  BY <1>0, CallFields DEF Serve, Arrived, InOrder, Fits
<1>2. /\ room' = room /\ mail'[h] = mail[h] /\ reload'[h] = reload[h] /\ link'[h] = link[h]
      /\ screen'[h] = screen[h]
  BY DEF Serve, Server!StartRoom, Server!NextQuestion, Server!ReviewQuestion, Server!FinishRoom,
         Server!Reads, Server!storeVars, clientVars
<1>3. /\ call'[h].kind = k.kind /\ call'[h].phase = "serving" /\ call'[h].q = Payload(h)
      /\ outbox'[h] = Broadcasts(p)
  <2>1. call'[h] = [k EXCEPT !.phase = "serving", !.q = Payload(h)]
    BY <1>0, BaseFacts DEF Serve
  <2>2. outbox'[h] = Broadcasts(p)
    BY <1>0, BaseFacts DEF Serve
  <2> QED
    BY <1>0, <1>1, <2>1, <2>2, CallFields
<1>4. ASSUME Arrived(h, "start") /\ Server!StartRoom(h)
      PROVE  Fits(h)' /\ p.op # "announce"
  <2>1. \/ p.op = "start"
        \/ p.op = "activate" /\ p.by = "start"
    BY <1>0, <1>4 DEF Server!StartRoom, Server!Reads, Server!Then
  <2>2. p # Server!Idle
    BY <2>1 DEF Server!Idle
  <2>3. p.op = "activate" => /\ call'[h].q = p.q
                             /\ outbox'[h] = <<Activated(p.q), StateChanged("active")>>
    BY <1>3, <2>1 DEF Payload, Broadcasts
  <2>4. Fits(h)'
    BY <1>3, <1>4, <2>1, <2>2, <2>3 DEF Fits, Arrived
  <2> QED
    BY <2>1, <2>4
<1>5. ASSUME Arrived(h, "next") /\ Server!NextQuestion(h)
      PROVE  Fits(h)' /\ p.op # "announce"
  <2>1. \/ p = [op |-> "finish", from |-> room.status]
        \/ \E i \in Server!Unasked(room.order, room.asked) :
             p = [op |-> "activate", by |-> "next", q |-> room.order[i],
                  asked |-> Append(room.asked, room.order[i])]
    BY <1>0, <1>5 DEF Server!NextQuestion, Server!Reads, Server!Then
  <2>2. p.op \in {"finish", "activate"} /\ p # Server!Idle
    <3>1. ASSUME NEW i, p = [op |-> "activate", by |-> "next", q |-> room.order[i],
                             asked |-> Append(room.asked, room.order[i])]
          PROVE  p.op = "activate"
      BY <3>1
    <3>2. CASE p = [op |-> "finish", from |-> room.status]
      BY <3>2 DEF Server!Idle
    <3>3. p.op \in {"finish", "activate"}
      BY <2>1, <3>1, <3>2
    <3> QED
      BY <3>3 DEF Server!Idle
  <2>3. CASE p = [op |-> "finish", from |-> room.status]
    <3>1. p.op = "finish" /\ p.from = room.status
      BY <2>3
    <3>2. outbox'[h] = <<Finished>> /\ call'[h].q = NoQuestion
      BY <1>1, <1>3, <1>5, <3>1 DEF Payload, Broadcasts, Finished, Arrived
    <3>3. call'[h].kind = "next" /\ call'[h].phase = "serving"
      BY <1>3, <1>5 DEF Arrived
    <3>4. Fits(h)'
      BY <1>2, <2>2, <3>1, <3>2, <3>3 DEF Fits
    <3> QED
      BY <3>1, <3>4
  <2>4. ASSUME NEW i \in Server!Unasked(room.order, room.asked),
               p = [op |-> "activate", by |-> "next", q |-> room.order[i],
                    asked |-> Append(room.asked, room.order[i])]
        PROVE  Fits(h)' /\ p.op # "announce"
    <3>1. room.order[i] \notin AskedSet
      BY DEF Server!Unasked, Server!ToSet, AskedSet
    <3>2. outbox'[h] = <<Activated(p.q)>> /\ call'[h].q = p.q
      BY <1>3, <2>4 DEF Payload, Broadcasts
    <3>3. AskedSet' = AskedSet
      BY <1>2 DEF AskedSet
    <3>4. p.op = "activate" /\ p.by = "next" /\ p.q = room.order[i] /\ p.asked = Append(room.asked, p.q)
      BY <2>4
    <3>5. call'[h].kind = "next" /\ call'[h].phase = "serving"
      BY <1>3, <1>5 DEF Arrived
    <3> HIDE DEF p
    <3> QED
      BY <1>2, <2>2, <3>1, <3>2, <3>3, <3>4, <3>5 DEF Fits, p
  <2> QED
    BY <2>1, <2>3, <2>4
<1>6. ASSUME Arrived(h, "review") /\ Server!ReviewQuestion(h)
      PROVE  Fits(h)' /\ p.op # "announce"
  <2>1. p = [op |-> "review"] /\ room.current # NoQuestion
    BY <1>0, <1>6 DEF Server!ReviewQuestion, Server!Reads, Server!Then
  <2>2. p # Server!Idle /\ outbox'[h] = <<Reviewed(room.current), StateChanged("review")>>
    BY <1>3, <2>1 DEF Server!Idle, Broadcasts
  <2>3. Fits(h)'
    <3>1. p.op = "review"
      BY <2>1
    <3>2. call'[h].kind = "review" /\ call'[h].phase = "serving"
      BY <1>3, <1>6 DEF Arrived
    <3> QED
      BY <1>2, <2>1, <2>2, <3>1, <3>2 DEF Fits
  <2> QED
    BY <2>1, <2>3
<1>7. ASSUME Arrived(h, "finish") /\ Server!FinishRoom(h)
      PROVE  Fits(h)' /\ p.op # "announce"
  <2>1. p = [op |-> "finish", from |-> room.status]
    BY <1>0, <1>7 DEF Server!FinishRoom, Server!Reads, Server!Then
  <2>2. p # Server!Idle /\ outbox'[h] = <<Finished>>
    BY <1>3, <2>1 DEF Server!Idle, Broadcasts, Finished
  <2>3. Fits(h)'
    <3>1. p.op = "finish" /\ p.from = room.status
      BY <2>1
    <3>2. call'[h].kind = "finish" /\ call'[h].phase = "serving"
      BY <1>3, <1>7 DEF Arrived
    <3> QED
      BY <1>2, <2>2, <3>1, <3>2 DEF Fits
  <2> QED
    BY <2>1, <2>3
<1>8. Fits(h)' /\ p.op # "announce"
  BY <1>4, <1>5, <1>6, <1>7 DEF Serve
<1>9. /\ ~Written(h)' /\ ~Written(h) /\ ~Closed(h)
      /\ Unwritten(h)' => Unwritten(h)
      /\ Quiet(h)' <=> Quiet(h)
  BY <1>0, <1>1, <1>2, <1>3, <1>8 DEF Written, Unwritten, Closed, Quiet, Server!Idle
<1>10. RepliesTruly(h)'
  BY <1>3 DEF RepliesTruly
<1>11. Patient(h)'
  BY <1>2, <1>9 DEF InOrder, Patient, Settled
<1>12. k.kind = "review" => call'[h].q = k.q
  BY <1>3, <1>6, <1>1, <1>0 DEF Payload, Serve, Arrived, Server!ReviewQuestion, Server!Reads, Server!Then
<1>13. Shows(h)'
  BY <1>1, <1>2, <1>3, <1>9, <1>12 DEF InOrder, Shows
<1> QED
  BY <1>8, <1>10, <1>11, <1>13 DEF InOrder

(* The statement is executed: a question only after everything that was     *)
(* sent to the screen has been heard.                                       *)
LEMMA ExecuteKeeps ==
  ASSUME Base, Base', NEW h \in HostReqs, InOrder(h), Execute(h)
  PROVE  InOrder(h)'
<1> DEFINE p == pending[h]
           k == call[h]
<1>0. /\ h \in Screens /\ k \in Call /\ p \in Server!Pending
      /\ pending \in [Screens -> Server!Pending]
      /\ room \in Server!Room /\ (room'.current # NoQuestion => room'.asked # <<>>)
  BY BaseFacts, BaseFactsNext
<1>1. p.op \in {"activate", "finish", "review"} /\ pending'[h].op = "announce"
  BY <1>0 DEF Execute, Server!ActivateQuestion, Server!CloseRoom, Server!ShowReview,
              Server!Then, Server!Announcing
<1>2. k # NoCall /\ k.phase = "serving"
  BY <1>0, <1>1 DEF Base, ServingInv, Server!Idle
<1>3. /\ call'[h] = k /\ outbox'[h] = outbox[h] /\ mail'[h] = mail[h] /\ reload'[h] = reload[h]
      /\ link'[h] = link[h] /\ screen'[h] = screen[h]
  BY DEF Execute, clientVars
<1>4. /\ pending'[h] # Server!Idle
      /\ ~Unwritten(h)' /\ ~Written(h) /\ ~Closed(h)
      /\ Written(h)' <=> k.kind \in {"start", "next"}
      /\ k.kind \in {"start", "next"} => Unwritten(h)
      /\ Quiet(h)' <=> Quiet(h)
  BY <1>1, <1>2, <1>3 DEF Unwritten, Written, Closed, Quiet, Server!Idle
<1>5. RepliesTruly(h)'
  BY <1>2, <1>3 DEF RepliesTruly
<1>6. CASE p.op = "activate"
  <2>1. /\ room' = [room EXCEPT !.current = p.q, !.asked = p.asked, !.status = "active"]
        /\ p.q # NoQuestion /\ p.by \in {"start", "next"}
    <3>1. room' = [room EXCEPT !.current = p.q, !.asked = p.asked, !.status = "active"]
      BY <1>6 DEF Execute, Server!ActivateQuestion, Server!CloseRoom, Server!ShowReview,
                  Server!SetCurrentQuestion
    <3>2. p.q \in Questions /\ p.by \in {"start", "next"}
      <4>1. p.q \in Questions
        BY <1>0, <1>6, SameTypes, Handlers!PendingFields, ServerAssumptions
      <4>2. p.by \in {"start", "next"}
        BY <1>0, <1>6 DEF Server!Pending
      <4> QED
        BY <4>1, <4>2
    <3> QED
      BY <3>1, <3>2, LiveAssumption DEF LiveAssumption
  <2>2. room'.current = p.q /\ room'.asked # <<>>
    <3>1. room'.current = p.q
      BY <1>0, <2>1 DEF Server!Room
    <3> QED
      BY <1>0, <2>1, <3>1
  <2>3. k.kind = p.by /\ k.q = p.q /\ Settled(h)
    BY <1>4, <1>6, <2>1 DEF InOrder, Fits, Patient
  <2>4. Announces(h)'
    BY <1>3, <1>6, <2>1, <2>2, <2>3 DEF InOrder, Fits, Announces
  <2>5. Fits(h)'
    BY <1>1, <1>2, <1>3, <1>4, <2>4 DEF Fits
  <2>6. Patient(h)'
    BY <1>3, <1>4, <2>1, <2>3 DEF InOrder, Patient, Settled
  <2>7. Shows(h)'
    BY <1>2, <1>3, <1>4, <2>1, <2>2, <2>3 DEF InOrder, Shows
  <2> QED
    BY <1>5, <2>5, <2>6, <2>7 DEF InOrder
<1>7. ASSUME p.op \in {"finish", "review"}, room'.asked = room.asked, room'.current = room.current,
             Announces(h)'
      PROVE  InOrder(h)'
  <2>1. Fits(h)'
    BY <1>1, <1>2, <1>3, <1>4, <1>7 DEF Fits
  <2>2. k.kind \in {"start", "next"} => Settled(h)
    BY <1>4 DEF InOrder, Patient
  <2>3. Patient(h)'
    BY <1>3, <1>4, <1>7, <2>2 DEF InOrder, Patient, Settled, Quiet
  <2>4. Shows(h)'
    BY <1>2, <1>3, <1>4, <1>7 DEF InOrder, Shows
  <2> QED
    BY <1>5, <2>1, <2>3, <2>4 DEF InOrder
<1>8. CASE p.op = "finish"
  <2>1. room' = [room EXCEPT !.status = "finished", !.ended = TRUE, !.started = @]
    <3>1. p.from = room.status
      BY <1>8 DEF InOrder, Fits
    <3> QED
      BY <1>0, <1>8, <3>1 DEF Execute, Server!ActivateQuestion, Server!CloseRoom, Server!ShowReview,
                              Server!SetStatus, Server!Room
  <2>2. room'.status = "finished" /\ room'.asked = room.asked /\ room'.current = room.current
    BY <1>0, <2>1 DEF Server!Room
  <2>3. Announces(h)'
    BY <1>3, <1>8, <2>2 DEF InOrder, Fits, Announces, Finished
  <2> QED
    BY <1>7, <1>8, <2>2, <2>3
<1>9. CASE p.op = "review"
  <2>1. Server!SetStatus("active", "review")
    BY <1>9 DEF Execute, Server!ActivateQuestion, Server!CloseRoom, Server!ShowReview
  <2>2. room'.status # "active" /\ room'.asked = room.asked /\ room'.current = room.current
    <3>1. CASE room.status = "active"
      BY <1>0, <2>1, <3>1 DEF Server!SetStatus, Server!Room
    <3>2. CASE room.status # "active"
      BY <2>1, <3>2 DEF Server!SetStatus
    <3> QED
      BY <3>1, <3>2
  <2>3. Announces(h)'
    BY <1>3, <1>9, <2>2 DEF InOrder, Fits, Announces
  <2> QED
    BY <1>7, <1>9, <2>2, <2>3
<1> QED
  BY <1>1, <1>6, <1>8, <1>9

(* What a mailbox holds after one more event was put in, the first was      *)
(* taken out, or its end was lost.                                          *)
LEMMA Mailboxes ==
  ASSUME NEW m \in Seq(Events)
  PROVE  /\ \A e \in Events : \A i \in DOMAIN Append(m, e) :
              \/ i \in DOMAIN m /\ Append(m, e)[i] = m[i]
              \/ i = Len(m) + 1 /\ Append(m, e)[i] = e
         /\ \A e \in Events : \A i \in DOMAIN m : i \in DOMAIN Append(m, e)
         /\ \A e \in Events : Len(m) + 1 \in DOMAIN Append(m, e)
         /\ m # <<>> => /\ Head(m) = m[1] /\ 1 \in DOMAIN m
                        /\ \A i \in DOMAIN Tail(m) : i + 1 \in DOMAIN m /\ Tail(m)[i] = m[i + 1]
                        /\ \A i \in DOMAIN m : i # 1 => i - 1 \in DOMAIN Tail(m) /\ m[i] = Tail(m)[i - 1]
         /\ \A n \in 0 .. Len(m) : /\ DOMAIN SubSeq(m, 1, n) = 1 .. n
                                   /\ \A i \in 1 .. n : i \in DOMAIN m /\ SubSeq(m, 1, n)[i] = m[i]
         /\ m = <<>> => SubSeq(m, 1, 0) = <<>>
         /\ DOMAIN m = 1 .. Len(m) /\ Len(m) \in Nat
  OBVIOUS

(* What is prepared is one event, or two.                                   *)
LEMMA ShortQueues ==
  ASSUME NEW a, NEW b
  PROVE  /\ Head(<<a>>) = a /\ Tail(<<a>>) = <<>>
         /\ Head(<<a, b>>) = a /\ Tail(<<a, b>>) = <<b>>
  OBVIOUS

(* One event of the request is broadcast.                                   *)
LEMMA PublishKeeps ==
  ASSUME Base, NEW h \in HostReqs, InOrder(h), Publish(h)
  PROVE  InOrder(h)'
<1> DEFINE k == call[h]
           e == Head(outbox[h])
<1>0. /\ h \in Screens /\ k \in Call /\ outbox[h] \in Seq(Events) /\ mail[h] \in Seq(Events)
      /\ mail \in [Screens -> Seq(Events)]
      /\ outbox \in [Screens -> Seq(Events)] /\ outbox[h] # <<>>
      /\ room.current # NoQuestion => room.asked # <<>>
  BY BaseFacts DEF Publish
<1>1. pending[h].op = "announce" /\ k # NoCall /\ k.phase = "serving"
  BY <1>0 DEF Publish, Base, ServingInv, Server!Idle
<1>2. /\ room' = room /\ pending'[h] = pending[h] /\ call'[h] = k /\ reload'[h] = reload[h]
      /\ link'[h] = link[h] /\ screen'[h] = screen[h] /\ outbox'[h] = Tail(outbox[h])
  BY <1>0 DEF Publish, serverVars
<1>3. e \in Events
  BY <1>0
<1>4. \A i \in DOMAIN mail'[h] : mail'[h][i] = e \/ (i \in DOMAIN mail[h] /\ mail'[h][i] = mail[h][i])
  <2>1. mail'[h] = mail[h] \/ mail'[h] = Append(mail[h], e)
    BY <1>0 DEF Publish
  <2>2. \A i \in DOMAIN Append(mail[h], e) :
          \/ i \in DOMAIN mail[h] /\ Append(mail[h], e)[i] = mail[h][i]
          \/ Append(mail[h], e)[i] = e
    BY <1>0, <1>3, Mailboxes
  <2> QED
    BY <2>1, <2>2
<1>5. /\ ~Unwritten(h)' /\ ~Unwritten(h) /\ ~Closed(h) /\ (Written(h)' <=> Written(h))
  BY <1>1, <1>2 DEF Unwritten, Written, Closed
<1>6. Announces(h)
  BY <1>1 DEF InOrder, Fits
<1>7. /\ Announces(h)'
      /\ e.event = "question.activated" => e.q = room.current /\ room.asked # <<>>
      /\ \/ k.kind \in {"start", "next"} /\ k.q # NoQuestion /\ room.asked # <<>>
         \/ k.kind = "review" /\ room.asked # <<>>
         \/ e = Finished
  <2>1. CASE /\ k.kind \in {"start", "next"} /\ k.q = room.current /\ k.q # NoQuestion
             /\ outbox[h] \in {<<Activated(k.q), StateChanged("active")>>, <<Activated(k.q)>>,
                               <<StateChanged("active")>>, <<>>}
    <3>1. \/ e = Activated(k.q) /\ outbox'[h] \in {<<StateChanged("active")>>, <<>>}
          \/ e = StateChanged("active") /\ outbox'[h] = <<>>
      <4>1. CASE outbox[h] = <<Activated(k.q), StateChanged("active")>>
        BY <1>2, <4>1, ShortQueues
      <4>2. CASE outbox[h] = <<Activated(k.q)>>
        BY <1>2, <4>2, ShortQueues
      <4>3. CASE outbox[h] = <<StateChanged("active")>>
        BY <1>2, <4>3, ShortQueues
      <4> QED
        BY <1>0, <2>1, <4>1, <4>2, <4>3
    <3>2. e.event = "question.activated" => e.q = room.current
      BY <2>1, <3>1, EventKinds
    <3>3. Announces(h)'
      BY <1>2, <2>1, <3>1 DEF Announces
    <3>4. k.kind \in {"start", "next"} /\ k.q # NoQuestion /\ room.asked # <<>>
      BY <1>0, <2>1
    <3> QED
      BY <3>2, <3>3, <3>4
  <2>2. CASE /\ k.kind = "review" /\ room.current # NoQuestion /\ room.status # "active"
             /\ outbox[h] \in {<<Reviewed(room.current), StateChanged("review")>>,
                               <<StateChanged("review")>>, <<>>}
    <3>1. \/ e = Reviewed(room.current) /\ outbox'[h] = <<StateChanged("review")>>
          \/ e = StateChanged("review") /\ outbox'[h] = <<>>
      <4>1. CASE outbox[h] = <<Reviewed(room.current), StateChanged("review")>>
        BY <1>2, <4>1, ShortQueues
      <4>2. CASE outbox[h] = <<StateChanged("review")>>
        BY <1>2, <4>2, ShortQueues
      <4> QED
        BY <1>0, <2>2, <4>1, <4>2
    <3>2. e.event # "question.activated"
      BY <3>1, EventKinds
    <3>3. Announces(h)'
      BY <1>2, <2>2, <3>1 DEF Announces
    <3>4. k.kind = "review" /\ room.asked # <<>>
      BY <1>0, <2>2
    <3> QED
      BY <3>2, <3>3, <3>4
  <2>3. CASE /\ k.kind = "finish" \/ (k.kind = "next" /\ k.q = NoQuestion)
             /\ room.status = "finished"
             /\ outbox[h] \in {<<Finished>>, <<>>}
    <3>1. e = Finished /\ outbox'[h] = <<>>
      BY <1>0, <1>2, <2>3, ShortQueues
    <3>2. e.event # "question.activated"
      BY <3>1, EventKinds DEF Finished
    <3>3. Announces(h)'
      BY <1>2, <2>3, <3>1 DEF Announces
    <3> QED
      BY <3>1, <3>2, <3>3
  <2> QED
    BY <1>6, <2>1, <2>2, <2>3 DEF Announces
<1>8. room.asked = <<>> \/ (k.kind \in {"start", "next"} /\ k.q = NoQuestion) => e = Finished
  BY <1>6, <1>7 DEF Announces
<1>9. Quiet(h) /\ e = Finished => Quiet(h)'
  BY <1>2, <1>4 DEF Quiet
<1>10. Fits(h)'
  BY <1>1, <1>2, <1>7 DEF Fits, Server!Idle
<1>11. RepliesTruly(h)'
  BY <1>1, <1>2 DEF RepliesTruly
<1>12. Patient(h)'
  BY <1>2, <1>4, <1>5, <1>7, <1>8, <1>9 DEF InOrder, Patient, Written
<1>13. Shows(h)'
  BY <1>1, <1>2, <1>5, <1>8, <1>9 DEF InOrder, Shows
<1> QED
  BY <1>10, <1>11, <1>12, <1>13 DEF InOrder

(* Everything was broadcast: the request is done.                           *)
LEMMA ReplyKeeps ==
  ASSUME Base, NEW h \in HostReqs, InOrder(h), Reply(h)
  PROVE  InOrder(h)'
<1> DEFINE k == call[h]
<1>0. h \in Screens /\ k \in Call /\ call \in [Screens -> Call] /\ pending \in [Screens -> Server!Pending]
  BY BaseFacts
<1>1. pending[h].op = "announce" /\ k # NoCall /\ k.phase = "serving"
  BY <1>0 DEF Reply, Server!Announce, Base, ServingInv, Server!Idle
<1>2. /\ room' = room /\ reload'[h] = reload[h] /\ mail'[h] = mail[h]
      /\ link'[h] = link[h] /\ screen'[h] = screen[h] /\ outbox'[h] = <<>>
      /\ pending'[h] = Server!Idle
  BY <1>0 DEF Reply, Server!Announce, Server!Reads, Server!Then, Server!storeVars, clientVars
<1>3. call'[h].kind = k.kind /\ call'[h].q = k.q /\ call'[h].phase = "done"
  BY <1>0, <1>1, CallFields DEF Reply
<1>4. /\ ~Unwritten(h)' /\ ~Closed(h) /\ (Written(h)' <=> Written(h))
      /\ Quiet(h)' <=> Quiet(h)
  BY <1>1, <1>2, <1>3 DEF Unwritten, Written, Closed, Quiet
<1>5. Fits(h)'
  BY <1>2, <1>3 DEF Fits, Server!Idle
<1>6. RepliesTruly(h)'
  BY <1>1, <1>2, <1>3 DEF InOrder, Fits, Announces, RepliesTruly
<1>7. Patient(h)'
  BY <1>2, <1>3, <1>4 DEF InOrder, Patient
<1>8. Shows(h)'
  BY <1>1, <1>2, <1>3, <1>4 DEF InOrder, Shows
<1> QED
  BY <1>5, <1>6, <1>7, <1>8 DEF InOrder

(* A request that is turned away, or cut off before its statement, leaves   *)
(* nothing behind.                                                          *)
LEMMA RefusedKeeps ==
  ASSUME Base, OnePatientTeacher, NEW h \in HostReqs, InOrder(h), Decline(h) \/ Abort(h)
  PROVE  InOrder(h)'
<1> DEFINE k == call[h]
<1>0. /\ h \in Screens /\ k \in Call /\ call \in [Screens -> Call]
      /\ pending \in [Screens -> Server!Pending] /\ outbox \in [Screens -> Seq(Events)]
  BY BaseFacts
<1>1. /\ room' = room /\ reload'[h] = reload[h] /\ mail'[h] = mail[h]
      /\ link'[h] = link[h] /\ screen'[h] = screen[h]
      /\ outbox'[h] = <<>> /\ pending'[h] = Server!Idle /\ k # NoCall
      /\ \/ k.phase = "sent" /\ k.kind \notin {"start", "next"}
         \/ k.phase = "serving" /\ pending[h].op # "announce"
  <2>1. CASE Decline(h)
    BY <1>0, <2>1, CallFields DEF Decline, Arrived, serverVars, clientVars, InOrder, Fits
  <2>2. CASE Abort(h)
    <3>1. pending[h].op \in Fallible /\ pending[h] # Server!Idle
      BY <2>2, LiveAssumption DEF Abort, Server!Abort, Server!Idle, LiveAssumption
    <3>2. k # NoCall /\ k.phase = "serving" /\ pending[h].op # "announce"
      BY <1>0, <3>1 DEF Base, ServingInv, OnePatientTeacher
    <3> QED
      BY <1>0, <2>2, <3>2 DEF Abort, Server!Abort, Server!Reads, Server!Then, Server!storeVars, clientVars
  <2> QED
    BY <2>1, <2>2
<1>2. call'[h].kind = k.kind /\ call'[h].q = k.q /\ call'[h].phase \in {"done", "failed"}
      /\ (k.kind \in {"start", "next"} => call'[h].phase = "failed")
  <2>1. CASE Decline(h)
    BY <1>0, <1>1, <2>1, CallFields DEF Decline, Arrived
  <2>2. CASE Abort(h)
    BY <1>0, <1>1, <2>2, CallFields DEF Abort
  <2> QED
    BY <2>1, <2>2
<1>3. /\ pending[h].op # "announce"
      /\ ~Unwritten(h)' /\ ~Closed(h) /\ ~Written(h) /\ ~Written(h)'
      /\ Quiet(h)' <=> Quiet(h)
  <2>1. pending[h].op # "announce"
    BY <1>0, <1>1 DEF Base, ServingInv, Server!Idle
  <2> QED
    BY <1>1, <1>2, <2>1 DEF Unwritten, Written, Closed, Quiet, Server!Idle
<1>4. Fits(h)'
  BY <1>1, <1>2 DEF Fits, Server!Idle
<1>5. RepliesTruly(h)'
  BY <1>2 DEF RepliesTruly
<1>6. Patient(h)'
  BY <1>1, <1>3 DEF InOrder, Patient
<1>7. Shows(h)'
  BY <1>1, <1>2, <1>3 DEF InOrder, Shows
<1> QED
  BY <1>4, <1>5, <1>6, <1>7 DEF InOrder

(* The reply reaches the screen: it brings the question of the room, or the *)
(* end of the session.                                                      *)
LEMMA GetReplyKeeps ==
  ASSUME Base, NEW h \in HostReqs, InOrder(h), GetReply(h)
  PROVE  InOrder(h)' /\ (screen'[h].x \in {screen[h].x, room.current} \/ Closed(h)')
<1> DEFINE k == call[h]
<1>0. /\ h \in Screens /\ k \in Call /\ call \in [Screens -> Call] /\ screen \in [Screens -> Screen]
      /\ screen[h] \in Screen /\ (room.current # NoQuestion => room.asked # <<>>)
  BY BaseFacts
<1>1. /\ room' = room /\ reload'[h] = reload[h] /\ mail'[h] = mail[h]
      /\ link'[h] = link[h] /\ outbox'[h] = outbox[h] /\ pending'[h] = pending[h]
      /\ k # NoCall /\ k.phase \in {"done", "failed"} /\ call'[h] = NoCall /\ call'[h].kind = "none"
  BY <1>0, CallFields DEF GetReply, serverVars
<1>2. /\ pending[h] = Server!Idle
      /\ ~Unwritten(h)' /\ ~Closed(h) /\ ~Written(h)'
      /\ Written(h) <=> k.kind \in {"start", "next"} /\ k.phase = "done"
      /\ Quiet(h)' <=> Quiet(h)
  <2>1. pending[h] = Server!Idle
    BY <1>0, <1>1 DEF Base, ServingInv
  <2> QED
    BY <1>1, <2>1 DEF Unwritten, Written, Closed, Quiet, Server!Idle
<1>3. Fits(h)'
  BY <1>1, <1>2 DEF InOrder, Fits, Server!Idle
<1>4. RepliesTruly(h)'
  BY <1>1 DEF RepliesTruly
<1>5. Patient(h)'
  BY <1>1, <1>2 DEF InOrder, Patient
<1>6. CASE Written(h) /\ k.q # NoQuestion
  <2>1. k.q = room.current
    BY <1>2, <1>6 DEF InOrder, RepliesTruly
  <2>2. screen'[h].x = k.q
    <3>1. screen'[h] = Replied(k, screen[h])
      BY <1>0, <1>2, <1>6 DEF GetReply
    <3>2. CASE k.kind = "start"
      BY <3>1, <3>2 DEF Replied
    <3>3. CASE k.kind = "next"
      BY <1>0, <1>6, <3>1, <3>3 DEF Replied, Screen
    <3>4. k.kind \in {"start", "next"}
      BY <1>2, <1>6
    <3> QED
      BY <3>2, <3>3, <3>4
  <2>3. Shows(h)'
    BY <1>0, <1>1, <1>6, <2>1, <2>2 DEF Shows
  <2> QED
    BY <1>3, <1>4, <1>5, <2>1, <2>2, <2>3 DEF InOrder
<1>7. CASE Written(h) /\ k.q = NoQuestion
  <2>1. k.kind = "next" /\ room.status = "finished" /\ Quiet(h)
    BY <1>2, <1>7 DEF InOrder, RepliesTruly, Patient
  <2>2. screen'[h].x = NoQuestion /\ screen'[h].status = "finished"
    <3>1. screen'[h] = Replied(k, screen[h])
      BY <1>0, <1>2, <1>7 DEF GetReply
    <3> QED
      BY <1>0, <1>7, <2>1, <3>1 DEF Replied, Screen
  <2>3. Closed(h)'
    BY <1>1, <1>2, <2>1, <2>2 DEF Closed
  <2>4. Shows(h)'
    BY <1>1, <1>2, <2>1, <2>2, <2>3 DEF Shows
  <2> QED
    BY <1>3, <1>4, <1>5, <2>3, <2>4 DEF InOrder
<1>8. CASE ~Written(h)
  <2>1. screen'[h].x = screen[h].x /\ screen'[h].status = screen[h].status
    BY <1>0, <1>1, <1>2, <1>8 DEF GetReply, Replied, Failed, Screen
  <2>2. Shows(h)'
    BY <1>1, <1>2, <1>8, <2>1 DEF InOrder, Shows
  <2> QED
    BY <1>3, <1>4, <1>5, <2>1, <2>2 DEF InOrder
<1> QED
  BY <1>6, <1>7, <1>8

(* What is left of the step is the screen hearing something, or losing it.  *)
(* An activation is one of the question of the room.                        *)
LEMMA HearKeeps ==
  ASSUME Base, NEW h \in HostReqs, InOrder(h), Hear(h)
  PROVE  InOrder(h)'
<1> DEFINE e == Head(mail[h])
<1>0. /\ h \in Screens /\ mail[h] \in Seq(Events) /\ mail[h] # <<>>
      /\ mail \in [Screens -> Seq(Events)] /\ screen \in [Screens -> Screen]
      /\ reload \in [Screens -> {"none", "sent"} \cup Server!Statuses]
      /\ screen[h] \in Screen
  BY BaseFacts DEF Hear
<1>1. /\ room' = room /\ link'[h] = link[h] /\ outbox'[h] = outbox[h] /\ pending'[h] = pending[h]
      /\ call'[h] = call[h] /\ mail'[h] = Tail(mail[h]) /\ screen'[h] = After(e, screen[h])
      /\ e.event # "question.activated" => reload'[h] = reload[h]
  BY <1>0 DEF Hear, serverVars
<1>2. /\ e = mail[h][1] /\ 1 \in DOMAIN mail[h] /\ e \in Events
      /\ \A i \in DOMAIN mail'[h] : i + 1 \in DOMAIN mail[h] /\ mail'[h][i] = mail[h][i + 1]
  BY <1>0, <1>1, Mailboxes
<1>3. ~Unwritten(h) /\ (Quiet(h) => Quiet(h)' /\ screen'[h].status = "finished")
  <2>1. Quiet(h) => e = Finished
    BY <1>2 DEF Quiet
  <2>2. e = Finished => e.event = "room.state_changed" /\ screen'[h].status = "finished"
    BY <1>0, <1>1 DEF Finished, StateChanged, After, Screen
  <2>3. Quiet(h) => Quiet(h)'
    BY <1>1, <1>2, <2>1, <2>2 DEF Quiet
  <2>4. ~Unwritten(h)
    BY <1>0 DEF InOrder, Patient, Settled
  <2> QED
    BY <2>1, <2>2, <2>3, <2>4
<1>4. \/ screen'[h].x = screen[h].x
      \/ screen'[h].x = room.current /\ screen'[h].x # NoQuestion /\ ~Quiet(h)
  <2>1. e.event # "question.activated" => screen'[h].x = screen[h].x
    BY <1>0, <1>1, <1>2, EventKinds DEF After, Screen
  <2>2. e.event = "question.activated" => screen'[h].x = e.q /\ e.q = room.current /\ e.q # NoQuestion
    BY <1>1, <1>2, EventKinds, LiveAssumption DEF After, InOrder, Patient, LiveAssumption
  <2>3. e.event = "question.activated" => ~Quiet(h)
    BY <1>2, EventKinds DEF Quiet, Finished
  <2> QED
    BY <2>1, <2>2, <2>3
<1>5. ~Unwritten(h)' /\ (Written(h)' <=> Written(h))
  BY <1>1, <1>3 DEF Unwritten, Written
<1>6. Closed(h) => Closed(h)'
  BY <1>1, <1>3, <1>4 DEF Closed
<1>7. Fits(h)'
  BY <1>1 DEF InOrder, Fits, Announces, AskedSet
<1>8. RepliesTruly(h)'
  BY <1>1 DEF InOrder, RepliesTruly
<1>9. Patient(h)'
  BY <1>1, <1>2, <1>3, <1>5 DEF InOrder, Patient
<1>10. Shows(h)'
  BY <1>1, <1>3, <1>4, <1>5, <1>6 DEF InOrder, Shows
<1> QED
  BY <1>7, <1>8, <1>9, <1>10 DEF InOrder

(* A reload that is answered says nothing of the question.                  *)
LEMMA ReloadingKeeps ==
  ASSUME Base, NEW h \in HostReqs, InOrder(h), Reloading(h)
  PROVE  InOrder(h)'
<1>0. /\ h \in Screens /\ screen \in [Screens -> Screen] /\ screen[h] \in Screen
      /\ reload \in [Screens -> {"none", "sent"} \cup Server!Statuses]
  BY BaseFacts
<1>1. /\ room' = room /\ link'[h] = link[h] /\ outbox'[h] = outbox[h] /\ pending'[h] = pending[h]
      /\ call'[h] = call[h] /\ mail'[h] = mail[h] /\ screen'[h].x = screen[h].x
      /\ reload[h] # "none"
  BY <1>0 DEF Reloading, ServeReload, Reloaded, serverVars, Screen, Server!Statuses
<1>2. ~Quiet(h) /\ ~Closed(h) /\ ~Unwritten(h) /\ ~Unwritten(h)' /\ (Written(h)' <=> Written(h))
  BY <1>1 DEF Quiet, Closed, InOrder, Patient, Settled, Unwritten, Written
<1>3. Fits(h)'
  BY <1>1 DEF InOrder, Fits, Announces, AskedSet
<1>4. RepliesTruly(h)'
  BY <1>1 DEF InOrder, RepliesTruly
<1>5. Patient(h)'
  BY <1>1, <1>2 DEF InOrder, Patient
<1>6. Shows(h)'
  BY <1>1, <1>2 DEF InOrder, Shows
<1> QED
  BY <1>3, <1>4, <1>5, <1>6 DEF InOrder

(* The connection is lost, with the end of the mailbox, or made again.  The *)
(* page itself is never opened again.                                       *)
LEMMA LinkKeeps ==
  ASSUME Base, NEW h \in HostReqs, InOrder(h), CutOff(h) \/ Connect(h) \/ LoadPage(h)
  PROVE  InOrder(h)'
<1>0. /\ h \in Screens /\ mail[h] \in Seq(Events) /\ mail \in [Screens -> Seq(Events)]
      /\ link \in [Screens -> {"on", "off", "loading"}]
  BY BaseFacts
<1>1. /\ room' = room /\ outbox'[h] = outbox[h] /\ pending'[h] = pending[h] /\ call'[h] = call[h]
      /\ screen'[h] = screen[h] /\ reload'[h] = reload[h] /\ link'[h] # "loading"
      /\ \A i \in DOMAIN mail'[h] : i \in DOMAIN mail[h] /\ mail'[h][i] = mail[h][i]
      /\ mail[h] = <<>> => mail'[h] = <<>>
  <2>1. CASE CutOff(h)
    <3>1. PICK n \in 0 .. Len(mail[h]) : mail' = [mail EXCEPT ![h] = SubSeq(@, 1, n)]
      BY <2>1 DEF CutOff
    <3>2. mail'[h] = SubSeq(mail[h], 1, n)
      BY <1>0, <3>1
    <3>3. \A i \in DOMAIN mail'[h] : i \in DOMAIN mail[h] /\ mail'[h][i] = mail[h][i]
      BY <1>0, <3>2, Mailboxes
    <3>4. mail[h] = <<>> => mail'[h] = <<>>
      BY <1>0, <3>2
    <3> QED
      BY <1>0, <2>1, <3>3, <3>4 DEF CutOff, serverVars
  <2>2. CASE Connect(h)
    BY <1>0, <2>2 DEF Connect, serverVars
  <2>3. ~LoadPage(h)
    BY DEF LoadPage, InOrder, Patient
  <2> QED
    BY <2>1, <2>2, <2>3
<1>2. /\ Unwritten(h)' <=> Unwritten(h)
      /\ Written(h)' <=> Written(h)
      /\ Quiet(h) => Quiet(h)'
  BY <1>1 DEF Unwritten, Written, Quiet
<1>3. Closed(h) => Closed(h)'
  BY <1>1, <1>2 DEF Closed
<1>4. Fits(h)'
  BY <1>1 DEF InOrder, Fits, Announces, AskedSet
<1>5. RepliesTruly(h)'
  BY <1>1 DEF InOrder, RepliesTruly
<1>6. Patient(h)'
  BY <1>1, <1>2 DEF InOrder, Patient, Settled
<1>7. Shows(h)'
  BY <1>1, <1>2, <1>3 DEF InOrder, Shows
<1> QED
  BY <1>4, <1>5, <1>6, <1>7 DEF InOrder

(* Every step keeps the teacher's screen and its request in order.          *)
LEMMA TeacherStep ==
  ASSUME Base, Base', OnePatientTeacher, TeacherInv, [Next]_vars
  PROVE  TeacherInv'
<1> SUFFICES ASSUME NEW h \in HostReqs PROVE InOrder(h)'
  BY DEF TeacherInv
<1>1. InOrder(h)
  BY DEF TeacherInv
<1>2. CASE Untouched(h)
  BY <1>1, <1>2, UntouchedKeeps
<1>3. CASE OwnStep(h)
  BY <1>1, <1>3, ServeKeeps, ExecuteKeeps, PublishKeeps, ReplyKeeps, RefusedKeeps, GetReplyKeeps,
     PressKeeps, AskReviewKeeps, HearKeeps, ReloadingKeeps, LinkKeeps DEF OwnStep
<1> QED
  BY <1>2, <1>3, OwnOrUntouched

-----------------------------------------------------------------------------
(* What steps do to the room, to mailboxes and to what is known *)

(* Only a statement of the teacher's handlers changes the room.             *)
LEMMA RoomOrExecute ==
  ASSUME [Next]_vars
  PROVE  room' = room \/ \E h \in HostReqs : Execute(h)
<1>1. CASE UNCHANGED vars
  BY <1>1 DEF vars
<1>2. CASE Press
  BY <1>2 DEF Press, PressStart, PressNext, PressFinish, AskReview, PressAnswer, Sends, serverVars
<1>3. ASSUME NEW c \in Screens, Answering(c)
      PROVE  room' = room \/ \E h \in HostReqs : Execute(h)
  <2>1. CASE c \in HostReqs /\ Serve(c)
    BY <2>1 DEF Serve, Server!StartRoom, Server!NextQuestion, Server!ReviewQuestion,
                Server!FinishRoom, Server!Reads, Server!storeVars
  <2>2. CASE c \in HostReqs /\ Execute(c)
    BY <2>2
  <2>3. CASE c \in HostReqs /\ (Publish(c) \/ Reply(c))
    BY <2>3 DEF Publish, Reply, Server!Announce, Server!Reads, Server!storeVars, serverVars
  <2>4. CASE \E s \in Students, t \in Tabs : c = <<s, t>> /\ (ServeAnswer(s, t) \/ SaveAnswer(s, t))
    BY <2>4 DEF ServeAnswer, SaveAnswer, Server!SubmitAnswer, Server!SaveAnswer, Server!InsertAnswer,
                Server!Reads, Server!storeVars
  <2>5. CASE Decline(c) \/ GetReply(c)
    BY <2>5 DEF Decline, GetReply, serverVars
  <2> QED
    BY <1>3, <2>1, <2>2, <2>3, <2>4, <2>5 DEF Answering
<1>4. ASSUME NEW c \in Screens, Hear(c) \/ Reloading(c) \/ Connect(c) \/ LoadPage(c) \/ Mishap(c)
      PROVE  room' = room
  BY <1>4 DEF Hear, Reloading, ServeReload, Reloaded, Connect, LoadPage, Mishap, Abort, LoseReply,
              CutOff, OpenPage, Server!Abort, Server!Reads, Server!storeVars, serverVars
<1> QED
  BY <1>1, <1>2, <1>3, <1>4 DEF Next

(* A broadcast is the only way into a mailbox, and hearing an event the     *)
(* only way to learn an answer.                                             *)
LEMMA MailStep ==
  ASSUME [Next]_vars
  PROVE  \/ mail' = mail /\ revealed' = revealed
         \/ \E h \in HostReqs : Publish(h)
         \/ \E c \in Screens : Hear(c) \/ CutOff(c) \/ OpenPage(c)
<1> DEFINE Goal == \/ mail' = mail /\ revealed' = revealed
                   \/ \E h \in HostReqs : Publish(h)
                   \/ \E c \in Screens : Hear(c) \/ CutOff(c) \/ OpenPage(c)
<1>1. CASE UNCHANGED vars
  BY <1>1 DEF vars
<1>2. CASE Press
  BY <1>2 DEF Press, PressStart, PressNext, PressFinish, AskReview, PressAnswer, Sends
<1>3. ASSUME NEW c \in Screens, Answering(c)
      PROVE  Goal
  BY <1>3 DEF Answering, Serve, Execute, Reply, ServeAnswer, SaveAnswer, Decline, GetReply, clientVars
<1>4. ASSUME NEW c \in Screens, Reloading(c) \/ Connect(c) \/ LoadPage(c)
      PROVE  Goal
  BY <1>4 DEF Reloading, ServeReload, Reloaded, Connect, LoadPage
<1>5. ASSUME NEW c \in Screens, Mishap(c)
      PROVE  Goal
  BY <1>5 DEF Mishap, Abort, LoseReply, clientVars
<1> QED
  BY <1>1, <1>2, <1>3, <1>4, <1>5 DEF Next

(* What was told was told before, or is being broadcast.                    *)
LEMMA ToldStep ==
  ASSUME Base, [Next]_vars, NEW q, Told(q)'
  PROVE  Told(q) \/ \E h \in HostReqs : Publish(h) /\ Head(outbox[h]) = Reviewed(q)
<1>0. /\ mail \in [Screens -> Seq(Events)] /\ outbox \in [Screens -> Seq(Events)]
      /\ HostReqs \subseteq Screens
  BY BaseFacts
<1>1. CASE mail' = mail /\ revealed' = revealed
  BY <1>1 DEF Told
<1>2. ASSUME NEW h \in HostReqs, Publish(h)
      PROVE  Told(q) \/ Head(outbox[h]) = Reviewed(q)
  <2> DEFINE e == Head(outbox[h])
  <2>1. e \in Events
    BY <1>0, <1>2 DEF Publish
  <2>2. ASSUME NEW c \in Screens, NEW i \in DOMAIN mail'[c], mail'[c][i] = Reviewed(q)
        PROVE  Told(q) \/ e = Reviewed(q)
    <3>1. mail'[c] = mail[c] \/ mail'[c] = Append(mail[c], e)
      BY <1>0, <1>2 DEF Publish
    <3>2. \A j \in DOMAIN Append(mail[c], e) :
            \/ j \in DOMAIN mail[c] /\ Append(mail[c], e)[j] = mail[c][j]
            \/ Append(mail[c], e)[j] = e
      BY <1>0, <2>1, Mailboxes
    <3> QED
      BY <2>2, <3>1, <3>2 DEF Told
  <2>3. revealed' = revealed
    BY <1>2 DEF Publish
  <2> QED
    BY <2>2, <2>3 DEF Told
<1>3. ASSUME NEW c \in Screens, Hear(c) \/ CutOff(c) \/ OpenPage(c)
      PROVE  Told(q)
  <2>1. \A d \in Screens : \A i \in DOMAIN mail'[d] : \E j \in DOMAIN mail[d] : mail'[d][i] = mail[d][j]
    <3>1. CASE Hear(c)
      <4>1. mail[c] \in Seq(Events) /\ mail[c] # <<>> /\ mail'[c] = Tail(mail[c])
        BY <1>0, <3>1 DEF Hear
      <4>2. \A i \in DOMAIN mail'[c] : \E j \in DOMAIN mail[c] : mail'[c][i] = mail[c][j]
        BY <4>1, Mailboxes
      <4> QED
        BY <1>0, <3>1, <4>2 DEF Hear
    <3>2. CASE CutOff(c)
      <4>1. PICK n \in 0 .. Len(mail[c]) : mail' = [mail EXCEPT ![c] = SubSeq(@, 1, n)]
        BY <3>2 DEF CutOff
      <4>2. mail[c] \in Seq(Events) /\ mail'[c] = SubSeq(mail[c], 1, n)
        BY <1>0, <4>1
      <4>3. \A i \in DOMAIN mail'[c] : \E j \in DOMAIN mail[c] : mail'[c][i] = mail[c][j]
        BY <4>2, Mailboxes
      <4> QED
        BY <1>0, <4>1, <4>3
    <3>3. CASE OpenPage(c)
      BY <1>0, <3>3 DEF OpenPage
    <3> QED
      BY <1>3, <3>1, <3>2, <3>3
  <2>2. ASSUME NEW s \in Students, <<s, q>> \in revealed', <<s, q>> \notin revealed
        PROVE  Told(q)
    <3>1. /\ mail[c] # <<>> /\ Head(mail[c]).event = "question.reviewed" /\ Head(mail[c]).q = q
      BY <1>3, <2>2 DEF Hear, CutOff, OpenPage
    <3>2. 1 \in DOMAIN mail[c] /\ mail[c][1] = Head(mail[c]) /\ mail[c][1] \in Events
      <4>1. mail[c] \in Seq(Events)
        BY <1>0
      <4> QED
        BY <3>1, <4>1, Mailboxes
    <3>3. mail[c][1] = Reviewed(q)
      BY <3>1, <3>2, EventKinds
    <3> QED
      BY <3>2, <3>3 DEF Told
  <2> QED
    BY <2>1, <2>2 DEF Told
<1> QED
  BY <1>1, <1>2, <1>3, MailStep

(* Nobody forgets an answer.                                                *)
LEMMA RevealedStays ==
  ASSUME [Next]_vars
  PROVE  revealed \subseteq revealed'
  BY MailStep DEF Publish, Hear, CutOff, OpenPage

-----------------------------------------------------------------------------
(* The invariants of the students' screens, step by step *)

(* A question is told after its review, which closed it; and what next asks *)
(* was not asked before, what start asks is the first of the round.         *)
LEMMA ExplainedStep ==
  ASSUME Base, Base', TeacherInv, ExplainedInv, [Next]_vars
  PROVE  ExplainedInv'
<1> SUFFICES ASSUME NEW q \in Questions, Told(q)'
             PROVE  q \in AskedSet' /\ ~(room'.status = "active" /\ room'.current = q)
  BY DEF ExplainedInv
<1>0. /\ q # NoQuestion /\ room \in Server!Room /\ room.asked \in Seq(Questions)
      /\ \A h \in HostReqs : h \in Screens /\ pending[h] \in Server!Pending
      /\ room.current # NoQuestion => room.current \in AskedSet
      /\ room'.current # NoQuestion => room'.asked # <<>>
  BY BaseFacts, BaseFactsNext, LiveAssumption DEF LiveAssumption
<1>1. ASSUME NEW h \in HostReqs, Publish(h), Head(outbox[h]) = Reviewed(q)
      PROVE  q \in AskedSet' /\ ~(room'.status = "active" /\ room'.current = q)
  <2>1. Announces(h) /\ outbox[h] # <<>>
    BY <1>1 DEF Publish, TeacherInv, InOrder, Fits
  <2>2. outbox[h] # <<>> /\ Head(outbox[h]).event = "question.reviewed" /\ Head(outbox[h]).q = q
    BY <1>1, <2>1, EventKinds
  <2>3. /\ outbox[h] = <<Reviewed(room.current), StateChanged("review")>>
        /\ room.current # NoQuestion /\ room.status # "active"
    BY <2>1, <2>2, ShortQueues, EventKinds DEF Announces, Finished
  <2>4. room.current = q
    BY <2>2, <2>3, ShortQueues, EventKinds
  <2>5. room' = room
    BY <1>1 DEF Publish, serverVars
  <2> QED
    BY <1>0, <2>3, <2>4, <2>5 DEF AskedSet
<1>2. CASE Told(q) /\ room' = room
  BY <1>2 DEF ExplainedInv, AskedSet
<1>3. ASSUME Told(q), NEW h \in HostReqs, Execute(h)
      PROVE  q \in AskedSet' /\ ~(room'.status = "active" /\ room'.current = q)
  <2> DEFINE p == pending[h]
  <2>1. InOrder(h) /\ q \in AskedSet /\ ~(room.status = "active" /\ room.current = q)
    BY <1>3 DEF TeacherInv, ExplainedInv
  <2>2. CASE Server!ActivateQuestion(h)
    <3>1. room' = [room EXCEPT !.current = p.q, !.asked = p.asked, !.status = "active"]
      BY <2>2 DEF Server!ActivateQuestion, Server!SetCurrentQuestion
    <3>2. p.op = "activate" /\ call[h].kind = p.by
      BY <2>1, <2>2 DEF Server!ActivateQuestion, InOrder, Fits
    <3>3. p.by \in {"start", "next"}
      BY <1>0, <3>2 DEF Server!Pending
    <3>4. Unwritten(h)
      <4>1. call[h].phase = "serving"
        BY <1>0, <3>2 DEF Base, ServingInv, Server!Idle
      <4> QED
        BY <3>2, <3>3, <4>1 DEF Unwritten
    <3>5. p.by = "next"
      <4>1. room.asked # <<>>
        BY <1>0, <2>1 DEF AskedSet
      <4> QED
        BY <2>1, <3>2, <3>3, <3>4, <4>1 DEF InOrder, Shows
    <3>6. p.q \notin AskedSet /\ p.asked = Append(room.asked, p.q)
      BY <2>1, <3>2, <3>5 DEF InOrder, Fits
    <3>7. room'.current = p.q /\ room'.asked = Append(room.asked, p.q)
      BY <1>0, <3>1, <3>6 DEF Server!Room
    <3>8. q \in AskedSet'
      <4>1. PICK i \in DOMAIN room.asked : q = room.asked[i]
        BY <2>1 DEF AskedSet
      <4>2. i \in DOMAIN Append(room.asked, p.q) /\ Append(room.asked, p.q)[i] = q
        BY <1>0, <4>1
      <4> QED
        BY <3>7, <4>2 DEF AskedSet
    <3> QED
      BY <2>1, <3>6, <3>7, <3>8
  <2>3. ASSUME NEW from, NEW to \in {"finished", "review"}, Server!SetStatus(from, to)
        PROVE  q \in AskedSet' /\ ~(room'.status = "active" /\ room'.current = q)
    <3>1. CASE room.status = from
      <4>1. room'.asked = room.asked /\ room'.status = to
        BY <1>0, <2>3, <3>1 DEF Server!SetStatus, Server!Room
      <4> QED
        BY <2>1, <4>1 DEF AskedSet
    <3>2. CASE room.status # from
      BY <2>1, <2>3, <3>2 DEF Server!SetStatus, AskedSet
    <3> QED
      BY <3>1, <3>2
  <2> QED
    BY <1>3, <2>2, <2>3 DEF Execute, Server!CloseRoom, Server!ShowReview
<1>4. ASSUME NEW h \in HostReqs, Publish(h)
      PROVE  room' = room
  BY <1>4 DEF Publish, serverVars
<1> QED
  BY <1>1, <1>2, <1>3, ToldStep, RoomOrExecute

(* What a request of a student becomes in one step.                         *)
LEMMA StudentCalls ==
  ASSUME Base, [Next]_vars, NEW s \in Students, NEW t \in Tabs
  PROVE  LET c == <<s, t>>
         IN  /\ \/ call'[c] = NoCall
                \/ call[c] # NoCall /\ call'[c].q = call[c].q /\ call'[c].informed = call[c].informed
                \/ PressAnswer(s, t)
             /\ pending'[c].op = "answer" => pending[c].op = "answer" \/ ServeAnswer(s, t)
<1> DEFINE c == <<s, t>>
           Becomes == /\ \/ call'[c] = NoCall
                         \/ /\ call[c] # NoCall
                            /\ call'[c].q = call[c].q /\ call'[c].informed = call[c].informed
                         \/ PressAnswer(s, t)
                      /\ pending'[c].op = "answer" => pending[c].op = "answer" \/ ServeAnswer(s, t)
<1>0. /\ c \in Screens /\ c \notin HostReqs /\ call \in [Screens -> Call] /\ call[c] \in Call
      /\ pending \in [Screens -> Server!Pending]
      /\ \A h \in HostReqs : h \in Screens /\ h # c
      /\ \A u \in Students, v \in Tabs : <<u, v>> = c => u = s /\ v = t
  BY BaseFacts DEF Screens, Server!Requests
<1>1. ASSUME call'[c] = call[c], pending'[c] = pending[c]
      PROVE  Becomes
  <2>1. CASE call[c] = NoCall
    BY <1>1, <2>1
  <2>2. CASE call[c] # NoCall
    BY <1>1, <2>2
  <2> QED
    BY <2>1, <2>2
<1>2. CASE UNCHANGED vars
  BY <1>1, <1>2 DEF vars
<1>3. ASSUME NEW h \in HostReqs, PressStart(h) \/ PressNext(h) \/ PressFinish(h) \/ AskReview(h)
      PROVE  Becomes
  BY <1>0, <1>1, <1>3 DEF PressStart, PressNext, PressFinish, AskReview, Sends, serverVars
<1>4. ASSUME NEW u \in Students, NEW v \in Tabs, PressAnswer(u, v)
      PROVE  Becomes
  <2>1. pending' = pending /\ (<<u, v>> # c => call'[c] = call[c])
    BY <1>0, <1>4 DEF PressAnswer, Sends, serverVars
  <2> QED
    BY <1>0, <1>1, <1>4, <2>1
<1>5. ASSUME NEW h \in HostReqs, Serve(h) \/ Execute(h) \/ Publish(h) \/ Reply(h)
      PROVE  Becomes
  <2>1. call'[c] = call[c]
    BY <1>0, <1>5 DEF Serve, Execute, Publish, Reply
  <2>2. pending'[c] = pending[c]
    BY <1>0, <1>5
    DEF Serve, Server!StartRoom, Server!NextQuestion, Server!ReviewQuestion, Server!FinishRoom,
        Execute, Server!ActivateQuestion, Server!CloseRoom, Server!ShowReview,
        Publish, Reply, Server!Announce, Server!Reads, Server!Then, serverVars
  <2> QED
    BY <1>1, <2>1, <2>2
<1>6. ASSUME NEW u \in Students, NEW v \in Tabs, ServeAnswer(u, v) \/ SaveAnswer(u, v)
      PROVE  Becomes
  <2>1. CASE <<u, v>> # c
    BY <1>0, <1>1, <1>6, <2>1
    DEF ServeAnswer, SaveAnswer, Server!SubmitAnswer, Server!SaveAnswer, Server!Reads, Server!Then
  <2>2. CASE ServeAnswer(s, t)
    <3>1. call[c] # NoCall
      BY <1>0, <2>2, CallFields DEF ServeAnswer, Arrived
    <3> QED
      BY <1>0, <2>2, <3>1, CallFields DEF ServeAnswer
  <2>3. CASE SaveAnswer(s, t)
    <3>1. pending[c].op = "answer" /\ call[c] # NoCall
      BY <1>0, <2>3 DEF SaveAnswer, Server!SaveAnswer, Base, ServingInv, Server!Idle
    <3> QED
      BY <1>0, <2>3, <3>1, CallFields DEF SaveAnswer
  <2> QED
    BY <1>0, <1>6, <2>1, <2>2, <2>3
<1>7. ASSUME NEW d \in Screens, Decline(d) \/ GetReply(d) \/ LoseReply(d)
      PROVE  Becomes
  <2>1. CASE d # c
    BY <1>0, <1>1, <1>7, <2>1 DEF Decline, GetReply, LoseReply, serverVars
  <2>2. CASE Decline(c) \/ LoseReply(c)
    <3>1. call[c] # NoCall
      BY <1>0, <2>2, CallFields DEF Decline, Arrived, LoseReply
    <3>2. pending' = pending /\ \E phase : call'[c] = [call[c] EXCEPT !.phase = phase]
      BY <1>0, <2>2 DEF Decline, LoseReply, serverVars
    <3>3. call'[c].q = call[c].q /\ call'[c].informed = call[c].informed
      BY <1>0, <3>1, <3>2, CallFields
    <3> QED
      BY <3>1, <3>2, <3>3
  <2>3. CASE GetReply(c)
    BY <1>0, <2>3 DEF GetReply, serverVars
  <2> QED
    BY <1>7, <2>1, <2>2, <2>3
<1>8. ASSUME NEW d \in Screens, Abort(d)
      PROVE  Becomes
  <2>1. CASE d # c
    BY <1>0, <1>1, <1>8, <2>1 DEF Abort, Server!Abort, Server!Reads, Server!Then
  <2>2. CASE d = c
    <3>1. pending[c] # Server!Idle /\ pending'[c] = Server!Idle
      BY <1>0, <1>8, <2>2, LiveAssumption
      DEF Abort, Server!Abort, Server!Reads, Server!Then, Server!Idle, LiveAssumption
    <3>2. call[c] # NoCall /\ pending'[c].op # "answer"
      BY <1>0, <3>1 DEF Base, ServingInv, Server!Idle
    <3> QED
      BY <1>0, <1>8, <2>2, <3>2, CallFields DEF Abort
  <2> QED
    BY <2>1, <2>2
<1>9. ASSUME NEW d \in Screens, Hear(d) \/ Reloading(d) \/ Connect(d) \/ LoadPage(d) \/ CutOff(d) \/ OpenPage(d)
      PROVE  Becomes
  BY <1>1, <1>9 DEF Hear, Reloading, ServeReload, Reloaded, Connect, LoadPage, CutOff, OpenPage, serverVars
<1>10. Becomes
  BY <1>2, <1>3, <1>4, <1>5, <1>6, <1>7, <1>8, <1>9 DEF Next, Press, Answering, Mishap
<1> QED
  BY <1>10

(* An answer is accepted while its question is open; so nobody had been     *)
(* told.                                                                    *)
LEMMA InformedStep ==
  ASSUME Base, Base', ExplainedInv, InformedInv, [Next]_vars
  PROVE  InformedInv'
<1> SUFFICES ASSUME NEW s \in Students, NEW t \in Tabs
             PROVE  LET c == <<s, t>>
                    IN  /\ call'[c] # NoCall /\ call'[c].informed => <<s, call'[c].q>> \in revealed'
                        /\ pending'[c].op = "answer" => ~call'[c].informed
  BY DEF InformedInv
<1> DEFINE c == <<s, t>>
<1>0. /\ c \in Screens /\ call \in [Screens -> Call] /\ call[c] \in Call
      /\ call[c] # NoCall /\ call[c].informed => <<s, call[c].q>> \in revealed
      /\ pending[c].op = "answer" => ~call[c].informed
  BY BaseFacts DEF InformedInv, Screens, Server!Requests
<1>1. CASE PressAnswer(s, t)
  <2>1. /\ call'[c].q = screen[c].x
        /\ call'[c].informed = (\E u \in Students : c \in {u} \X Tabs /\ <<u, screen[c].x>> \in revealed)
        /\ call[c] = NoCall /\ pending' = pending
    BY <1>0, <1>1 DEF PressAnswer, Sends, serverVars
  <2>2. \A u : c \in {u} \X Tabs => u = s
    OBVIOUS
  <2>3. call'[c].informed => <<s, call'[c].q>> \in revealed'
    BY <2>1, <2>2, RevealedStays
  <2>4. pending'[c].op # "answer"
    BY <1>0, <2>1 DEF Base, ServingInv, Server!Idle
  <2> QED
    BY <2>3, <2>4
<1>2. ASSUME call[c] # NoCall, call'[c].q = call[c].q, call'[c].informed = call[c].informed
      PROVE  /\ call'[c].informed => <<s, call'[c].q>> \in revealed'
             /\ pending'[c].op = "answer" => ~call'[c].informed
  <2>1. call'[c].informed => <<s, call'[c].q>> \in revealed'
    BY <1>0, <1>2, RevealedStays
  <2>2. ASSUME ServeAnswer(s, t)
        PROVE  ~call[c].informed
    <3>1. room.status = "active" /\ room.current # NoQuestion /\ room.current = call[c].q
      BY <2>2 DEF ServeAnswer, Server!SubmitAnswer
    <3>2. room.current \in Questions
      BY <3>1, BaseFacts DEF MaybeQuestion
    <3>3. ~Told(call[c].q)
      BY <3>1, <3>2 DEF ExplainedInv
    <3> QED
      BY <1>0, <1>2, <3>3 DEF Told
  <2>3. pending'[c].op = "answer" => pending[c].op = "answer" \/ ServeAnswer(s, t)
    BY StudentCalls
  <2> QED
    BY <1>0, <1>2, <2>1, <2>2, <2>3
<1>3. CASE call'[c] = NoCall
  <2>1. pending'[c].op # "answer"
    BY <1>0, <1>3 DEF Base, ServingInv, Screens, Server!Idle
  <2> QED
    BY <1>3, <2>1
<1> QED
  BY <1>1, <1>2, <1>3, StudentCalls

-----------------------------------------------------------------------------
(* Screens keep up with the room *)

(* What becomes of the end of a mailbox when an event comes in, the first   *)
(* one is heard, or what was behind it is lost.                             *)
LEMMA EndOfMailbox ==
  ASSUME NEW m \in Seq(Events), NEW x, NEW q
  PROVE  /\ q \in Questions => EndsWith(Append(m, Activated(q)), x, q)
         /\ \A e \in Events :
              EndsWith(m, x, q) /\ e.event # "question.activated" => EndsWith(Append(m, e), x, q)
         /\ m # <<>> /\ EndsWith(m, x, q) =>
              IF Head(m).event = "question.activated" THEN EndsWith(Tail(m), Head(m).q, q)
                                                      ELSE EndsWith(Tail(m), x, q)
         /\ \A n \in 0 .. Len(m) :
              EndsWith(m, x, q) /\ ~(\E i \in n + 1 .. Len(m) : m[i].event = "question.activated")
                => EndsWith(SubSeq(m, 1, n), x, q)
         /\ EndsWith(m, x, q) => EndsWith(m, q, q)
<1>0. DOMAIN m = 1 .. Len(m) /\ Len(m) \in Nat
  BY Mailboxes
<1>1. ASSUME q \in Questions
      PROVE  EndsWith(Append(m, Activated(q)), x, q)
  <2> DEFINE n == Append(m, Activated(q))
  <2>1. Len(m) + 1 \in DOMAIN n /\ n[Len(m) + 1] = Activated(q)
    BY <1>0
  <2>2. \A j \in DOMAIN n : ~(j > Len(m) + 1)
    BY <1>0
  <2> QED
    BY <2>1, <2>2 DEF EndsWith
<1>2. ASSUME NEW e \in Events, EndsWith(m, x, q), e.event # "question.activated"
      PROVE  EndsWith(Append(m, e), x, q)
  <2> DEFINE n == Append(m, e)
  <2>1. /\ \A i \in DOMAIN m : i \in DOMAIN n /\ n[i] = m[i]
        /\ \A j \in DOMAIN n : (j \in DOMAIN m /\ n[j] = m[j]) \/ n[j] = e
    BY <1>0
  <2>2. CASE \E i \in DOMAIN m : /\ m[i] = Activated(q)
                                 /\ \A j \in DOMAIN m : j > i => m[j].event # "question.activated"
    <3>1. PICK i \in DOMAIN m : /\ m[i] = Activated(q)
                                /\ \A j \in DOMAIN m : j > i => m[j].event # "question.activated"
      BY <2>2
    <3>2. i \in DOMAIN n /\ n[i] = Activated(q)
      BY <2>1, <3>1
    <3>3. \A j \in DOMAIN n : j > i => n[j].event # "question.activated"
      BY <1>2, <2>1, <3>1
    <3> QED
      BY <3>2, <3>3 DEF EndsWith
  <2>3. CASE x = q /\ \A i \in DOMAIN m : m[i].event # "question.activated"
    <3>1. \A j \in DOMAIN n : n[j].event # "question.activated"
      BY <1>2, <2>1, <2>3
    <3> QED
      BY <2>3, <3>1 DEF EndsWith
  <2> QED
    BY <1>2, <2>2, <2>3 DEF EndsWith
<1>3. ASSUME m # <<>>, EndsWith(m, x, q)
      PROVE  IF Head(m).event = "question.activated" THEN EndsWith(Tail(m), Head(m).q, q)
                                                     ELSE EndsWith(Tail(m), x, q)
  <2> DEFINE n == Tail(m)
  <2>1. /\ Head(m) = m[1] /\ 1 \in DOMAIN m
        /\ \A i \in DOMAIN n : i \in Nat /\ i + 1 \in DOMAIN m /\ n[i] = m[i + 1]
        /\ \A i \in DOMAIN m : i # 1 => i - 1 \in DOMAIN n /\ m[i] = n[i - 1]
    BY <1>0, <1>3
  <2>2. CASE \E i \in DOMAIN m : /\ m[i] = Activated(q)
                                 /\ \A j \in DOMAIN m : j > i => m[j].event # "question.activated"
    <3>1. PICK i \in DOMAIN m : /\ m[i] = Activated(q)
                                /\ \A j \in DOMAIN m : j > i => m[j].event # "question.activated"
      BY <2>2
    <3>2. CASE i = 1
      <4>1. Head(m).event = "question.activated" /\ Head(m).q = q
        BY <2>1, <3>1, <3>2, EventKinds
      <4>2. \A j \in DOMAIN n : n[j].event # "question.activated"
        BY <2>1, <3>1, <3>2
      <4> QED
        BY <4>1, <4>2 DEF EndsWith
    <3>3. CASE i # 1
      <4>1. i - 1 \in DOMAIN n /\ n[i - 1] = Activated(q)
        BY <2>1, <3>1, <3>3
      <4>2. \A j \in DOMAIN n : j > i - 1 => n[j].event # "question.activated"
        BY <1>0, <2>1, <3>1
      <4> QED
        BY <4>1, <4>2 DEF EndsWith
    <3> QED
      BY <3>2, <3>3
  <2>3. CASE x = q /\ \A i \in DOMAIN m : m[i].event # "question.activated"
    <3>1. Head(m).event # "question.activated" /\ \A j \in DOMAIN n : n[j].event # "question.activated"
      BY <2>1, <2>3
    <3> QED
      BY <2>3, <3>1 DEF EndsWith
  <2> QED
    BY <1>3, <2>2, <2>3 DEF EndsWith
<1>4. ASSUME NEW k \in 0 .. Len(m), EndsWith(m, x, q),
             ~(\E i \in k + 1 .. Len(m) : m[i].event = "question.activated")
      PROVE  EndsWith(SubSeq(m, 1, k), x, q)
  <2> DEFINE n == SubSeq(m, 1, k)
  <2>1. DOMAIN n = 1 .. k /\ \A i \in 1 .. k : i \in DOMAIN m /\ n[i] = m[i]
    BY Mailboxes
  <2>2. \A i \in DOMAIN m : m[i].event = "question.activated" => i \in 1 .. k
    BY <1>0, <1>4
  <2>3. CASE \E i \in DOMAIN m : /\ m[i] = Activated(q)
                                 /\ \A j \in DOMAIN m : j > i => m[j].event # "question.activated"
    <3>1. PICK i \in DOMAIN m : /\ m[i] = Activated(q)
                                /\ \A j \in DOMAIN m : j > i => m[j].event # "question.activated"
      BY <2>3
    <3>2. i \in DOMAIN n /\ n[i] = Activated(q)
      BY <2>1, <2>2, <3>1, EventKinds
    <3>3. \A j \in DOMAIN n : j > i => n[j].event # "question.activated"
      BY <2>1, <3>1
    <3> QED
      BY <3>2, <3>3 DEF EndsWith
  <2>4. CASE x = q /\ \A i \in DOMAIN m : m[i].event # "question.activated"
    BY <2>1, <2>4 DEF EndsWith
  <2> QED
    BY <1>4, <2>3, <2>4 DEF EndsWith
<1>5. EndsWith(m, x, q) => EndsWith(m, q, q)
  BY DEF EndsWith
<1> QED
  BY <1>1, <1>2, <1>3, <1>4, <1>5

(* What is due to be broadcast stays due until it is.                       *)
LEMMA DueStays ==
  ASSUME Base, OnePatientTeacher, [Next]_vars, NEW h \in HostReqs, ActivationDue(h)
  PROVE  ActivationDue(h)' \/ (Publish(h) /\ Head(outbox[h]).event = "question.activated")
<1>0. /\ h \in Screens /\ outbox \in [Screens -> Seq(Events)] /\ outbox[h] \in Seq(Events)
      /\ pending \in [Screens -> Server!Pending]
  BY BaseFacts
<1>1. /\ pending[h].op = "announce" /\ outbox[h] # <<>> /\ pending[h] # Server!Idle
      /\ call[h] # NoCall /\ call[h].phase = "serving"
  <2>1. pending[h].op = "announce" /\ outbox[h] # <<>>
    BY <1>0 DEF ActivationDue
  <2> QED
    BY <1>0, <2>1 DEF Base, ServingInv, Server!Idle
<1>2. CASE Untouched(h)
  BY <1>2 DEF Untouched, ActivationDue
<1>3. CASE Publish(h)
  <2>1. pending'[h] = pending[h] /\ outbox'[h] = Tail(outbox[h])
    BY <1>0, <1>3 DEF Publish, serverVars
  <2>2. ASSUME Head(outbox[h]).event # "question.activated"
        PROVE  ActivationDue(h)'
    <3>1. PICK i \in DOMAIN outbox[h] : outbox[h][i].event = "question.activated"
      BY DEF ActivationDue
    <3>2. i # 1
      BY <1>0, <1>1, <2>2, <3>1, Mailboxes
    <3>3. i - 1 \in DOMAIN Tail(outbox[h]) /\ Tail(outbox[h])[i - 1] = outbox[h][i]
      BY <1>0, <1>1, <3>1, <3>2, Mailboxes
    <3> QED
      BY <1>1, <2>1, <3>1, <3>3 DEF ActivationDue
  <2> QED
    BY <1>3, <2>2
<1>4. CASE Hear(h) \/ Reloading(h) \/ CutOff(h) \/ Connect(h) \/ LoadPage(h)
  BY <1>4 DEF Hear, Reloading, ServeReload, Reloaded, CutOff, Connect, LoadPage, serverVars, ActivationDue
<1>5. ~(Serve(h) \/ Decline(h) \/ GetReply(h) \/ Execute(h) \/ Reply(h) \/ Abort(h))
  BY <1>1
  DEF Serve, Server!StartRoom, Server!NextQuestion, Server!ReviewQuestion, Server!FinishRoom,
      Server!Calls, Decline, GetReply, Execute, Server!ActivateQuestion, Server!CloseRoom,
      Server!ShowReview, Reply, Abort, Server!Abort, OnePatientTeacher
<1>6. ~(PressStart(h) \/ PressNext(h) \/ PressFinish(h) \/ AskReview(h))
  BY <1>1 DEF PressStart, PressNext, PressFinish, AskReview, Sends
<1> QED
  BY <1>2, <1>3, <1>4, <1>5, <1>6, OwnOrUntouched DEF OwnStep

(* Once over, the session stays over for the screen.                        *)
LEMMA ClosedStays ==
  ASSUME Base, OnePatientTeacher, [Next]_vars, NEW h \in HostReqs, InOrder(h), Closed(h)
  PROVE  Closed(h)'
<1>0. /\ h \in Screens /\ mail[h] \in Seq(Events) /\ mail \in [Screens -> Seq(Events)]
      /\ screen \in [Screens -> Screen] /\ screen[h] \in Screen
      /\ reload \in [Screens -> {"none", "sent"} \cup Server!Statuses]
  BY BaseFacts
<1>1. call[h] = NoCall /\ call[h].kind = "none" /\ pending[h] = Server!Idle /\ pending[h].op = "idle"
  BY <1>0, CallFields DEF Closed, Base, ServingInv, Server!Idle
<1>2. CASE Untouched(h)
  BY <1>2 DEF Untouched, Closed, Quiet
<1>3. CASE Hear(h)
  <2> DEFINE e == Head(mail[h])
  <2>1. /\ mail[h] # <<>> /\ e = mail[h][1] /\ 1 \in DOMAIN mail[h]
        /\ \A i \in DOMAIN Tail(mail[h]) : i + 1 \in DOMAIN mail[h] /\ Tail(mail[h])[i] = mail[h][i + 1]
    BY <1>0, <1>3, Mailboxes DEF Hear
  <2>2. e = Finished /\ e.event = "room.state_changed" /\ e.status = "finished"
    BY <2>1, EventKinds DEF Closed, Quiet, Finished
  <2>3. /\ mail'[h] = Tail(mail[h]) /\ reload'[h] = reload[h] /\ call' = call /\ room' = room
        /\ screen'[h] = After(e, screen[h])
    BY <1>0, <1>3, <2>2 DEF Hear, serverVars
  <2>4. screen'[h].x = screen[h].x /\ screen'[h].status = "finished"
    BY <1>0, <2>2, <2>3 DEF After, Screen
  <2> QED
    BY <2>1, <2>3, <2>4 DEF Closed, Quiet
<1>4. CASE CutOff(h)
  <2>1. PICK n \in 0 .. Len(mail[h]) : mail' = [mail EXCEPT ![h] = SubSeq(@, 1, n)]
    BY <1>4 DEF CutOff
  <2>2. mail'[h] = SubSeq(mail[h], 1, n)
    BY <1>0, <2>1
  <2>3. \A i \in DOMAIN mail'[h] : i \in DOMAIN mail[h] /\ mail'[h][i] = mail[h][i]
    BY <1>0, <2>2, Mailboxes
  <2> QED
    BY <1>4, <2>3 DEF CutOff, serverVars, Closed, Quiet
<1>5. CASE Connect(h)
  BY <1>5 DEF Connect, serverVars, Closed, Quiet
<1>6. ~(Reloading(h) \/ LoadPage(h))
  BY DEF Closed, Quiet, Reloading, ServeReload, Reloaded, LoadPage, InOrder, Patient, Server!Statuses
<1>7. ~(Serve(h) \/ Decline(h) \/ GetReply(h) \/ Execute(h) \/ Publish(h) \/ Reply(h) \/ Abort(h))
  BY <1>1, LiveAssumption
  DEF Serve, Arrived, Decline, GetReply, Execute, Server!ActivateQuestion, Server!CloseRoom,
      Server!ShowReview, Publish, Reply, Server!Announce, Abort, Server!Abort, LiveAssumption
<1>8. ~(PressStart(h) \/ PressNext(h) \/ PressFinish(h) \/ AskReview(h))
  BY DEF Closed, PressStart, PressNext, PressFinish, AskReview
<1> QED
  BY <1>2, <1>3, <1>4, <1>5, <1>6, <1>7, <1>8, OwnOrUntouched DEF OwnStep

(* What changes a mailbox or the question on a screen, and who still counts *)
(* as sent the last activation.                                             *)
LEMMA ScreenStep ==
  ASSUME Base, [Next]_vars, NEW c \in Screens
  PROVE  /\ \/ mail'[c] = mail[c] /\ screen'[c].x = screen[c].x
            \/ \E h \in HostReqs : Publish(h)
            \/ Hear(c) \/ CutOff(c) \/ OpenPage(c) \/ LoadPage(c) \/ GetReply(c)
         /\ link'[c] = link[c] \/ link'[c] # "loading" \/ OpenPage(c)
         /\ inStep' \subseteq inStep \/ \E h \in HostReqs : Publish(h)
<1> DEFINE Goal == /\ \/ mail'[c] = mail[c] /\ screen'[c].x = screen[c].x
                      \/ \E h \in HostReqs : Publish(h)
                      \/ Hear(c) \/ CutOff(c) \/ OpenPage(c) \/ LoadPage(c) \/ GetReply(c)
                   /\ link'[c] = link[c] \/ link'[c] # "loading" \/ OpenPage(c)
                   /\ inStep' \subseteq inStep \/ \E h \in HostReqs : Publish(h)
<1>0. /\ mail \in [Screens -> Seq(Events)] /\ screen \in [Screens -> Screen]
      /\ link \in [Screens -> {"on", "off", "loading"}] /\ screen[c] \in Screen
      /\ HostReqs \subseteq Screens /\ \A s \in Students, t \in Tabs : <<s, t>> \in Screens
  BY BaseFacts DEF Screens, Server!Requests
<1>1. CASE UNCHANGED vars
  BY <1>1 DEF vars
<1>2. ASSUME NEW d \in Screens, PressStart(d) \/ PressNext(d) \/ PressFinish(d) \/ AskReview(d)
      PROVE  Goal
  <2>1. mail' = mail /\ link' = link /\ inStep' = inStep
    BY <1>2 DEF PressStart, PressNext, PressFinish, AskReview, Sends
  <2>2. screen' = screen \/ screen' = [screen EXCEPT ![d].reviewing = TRUE]
    BY <1>2 DEF PressStart, PressNext, PressFinish, AskReview
  <2>3. screen'[c].x = screen[c].x
    <3>1. CASE d = c
      BY <1>0, <2>2, <3>1 DEF Screen
    <3>2. CASE d # c
      BY <1>0, <2>2, <3>2
    <3> QED
      BY <3>1, <3>2
  <2> QED
    BY <2>1, <2>3
<1>3. ASSUME NEW s \in Students, NEW t \in Tabs, PressAnswer(s, t)
      PROVE  Goal
  BY <1>0, <1>3 DEF PressAnswer, Sends, Screen
<1>4. CASE Press
  BY <1>0, <1>2, <1>3, <1>4 DEF Press
<1>5. ASSUME NEW d \in Screens, Answering(d)
      PROVE  Goal
  <2>1. CASE \/ d \in HostReqs /\ (Serve(d) \/ Execute(d) \/ Reply(d))
             \/ \E s \in Students, t \in Tabs : ServeAnswer(s, t) \/ SaveAnswer(s, t)
             \/ Decline(d)
    <3>1. mail' = mail /\ screen' = screen /\ link' = link /\ inStep' = inStep
      BY <2>1 DEF Serve, Execute, Reply, ServeAnswer, SaveAnswer, Decline, clientVars
    <3> QED
      BY <3>1
  <2>2. CASE GetReply(d)
    BY <1>0, <2>2 DEF GetReply
  <2>3. CASE d \in HostReqs /\ Publish(d)
    BY <2>3 DEF Publish
  <2> QED
    BY <1>5, <2>1, <2>2, <2>3 DEF Answering
<1>6. ASSUME NEW d \in Screens, Hear(d) \/ Reloading(d) \/ Connect(d) \/ LoadPage(d)
      PROVE  Goal
  <2>1. CASE Hear(d)
    <3>1. link' = link /\ inStep' = inStep
      BY <2>1 DEF Hear
    <3>2. d # c => mail'[c] = mail[c] /\ screen'[c] = screen[c]
      BY <1>0, <2>1 DEF Hear
    <3> QED
      BY <2>1, <3>1, <3>2
  <2>2. CASE Reloading(d)
    <3>1. mail' = mail /\ link' = link /\ inStep' = inStep
      BY <2>2 DEF Reloading, ServeReload, Reloaded
    <3>2. screen'[c].x = screen[c].x
      <4>1. screen' = screen \/ \E status : screen' = [screen EXCEPT ![d].status = status]
        BY <2>2 DEF Reloading, ServeReload, Reloaded
      <4>2. CASE d = c
        BY <1>0, <4>1, <4>2 DEF Screen
      <4>3. CASE d # c
        BY <1>0, <4>1, <4>3
      <4> QED
        BY <4>2, <4>3
    <3> QED
      BY <3>1, <3>2
  <2>3. CASE Connect(d)
    BY <1>0, <2>3 DEF Connect
  <2>4. CASE LoadPage(d)
    BY <1>0, <2>4 DEF LoadPage
  <2> QED
    BY <1>6, <2>1, <2>2, <2>3, <2>4
<1>7. ASSUME NEW d \in Screens, Mishap(d)
      PROVE  Goal
  BY <1>0, <1>7 DEF Mishap, Abort, LoseReply, CutOff, OpenPage, clientVars
<1> QED
  BY <1>1, <1>4, <1>5, <1>6, <1>7 DEF Next

(* A screen that was sent the last activation ends up with the question of  *)
(* the room: its mailbox keeps the activation, and no reply overwrites it.  *)
LEMMA InStepStep ==
  ASSUME Base, Base', OnePatientTeacher, TeacherInv, RecordInv, InStepInv, [Next]_vars
  PROVE  InStepInv'
<1> SUFFICES ASSUME NEW c \in inStep' PROVE InStepAt(c)'
  BY DEF InStepInv
<1> DEFINE q == room.current
<1>0. /\ mail \in [Screens -> Seq(Events)] /\ screen \in [Screens -> Screen]
      /\ link \in [Screens -> {"on", "off", "loading"}] /\ outbox \in [Screens -> Seq(Events)]
      /\ call \in [Screens -> Call] /\ HostReqs \subseteq Screens /\ inStep \subseteq Screens
      /\ \A d \in Screens : d \in HostReqs \/ d \in Students \X Tabs
      /\ c \in Screens
  BY BaseFacts DEF Screens, Server!Requests, Base, TypeOK
<1>1. ASSUME NEW h \in HostReqs, Publish(h), Head(outbox[h]).event = "question.activated"
      PROVE  InStepAt(c)'
  <2> DEFINE e == Head(outbox[h])
  <2>1. /\ link' = link /\ room' = room /\ c \in Screens /\ link[c] = "on"
        /\ mail'[c] = Append(mail[c], e)
    BY <1>0, <1>1 DEF Publish, serverVars
  <2>2. Announces(h) /\ outbox[h] # <<>> /\ e \in Events
    BY <1>0, <1>1 DEF Publish, TeacherInv, InOrder, Fits
  <2>3. e = Activated(q) /\ q \in Questions
    <3>1. e = Activated(e.q) /\ e.q \in Questions
      BY <1>1, <2>2, EventKinds
    <3>2. e.q = q
      BY <1>1, <2>2, ShortQueues, EventKinds DEF Announces, Finished
    <3> QED
      BY <3>1, <3>2
  <2>4. EndsWith(Append(mail[c], Activated(q)), screen'[c].x, q)
    BY <1>0, <2>1, <2>3, EndOfMailbox
  <2> QED
    BY <2>1, <2>3, <2>4 DEF InStepAt
<1>2. ASSUME ~(\E h \in HostReqs : Publish(h) /\ Head(outbox[h]).event = "question.activated")
      PROVE  InStepAt(c)'
  <2>1. c \in inStep
    <3>1. ASSUME NEW h \in HostReqs, Publish(h)
          PROVE  inStep' = inStep
      BY <1>2, <3>1 DEF Publish
    <3> QED
      BY <1>0, <3>1, ScreenStep
  <2>2. InStepAt(c) /\ ~LoadPage(c) /\ ~OpenPage(c)
    BY <2>1 DEF InStepInv, InStepAt, LoadPage, OpenPage
  <2>3. link'[c] # "loading"
    BY <1>0, <2>2, ScreenStep DEF InStepAt
  <2>4. CASE \E h \in HostReqs : ActivationDue(h)
    BY <1>2, <2>3, <2>4, DueStays DEF InStepAt
  <2>5. CASE c \in HostReqs /\ Closed(c)
    BY <2>3, <2>5, ClosedStays DEF InStepAt, TeacherInv
  <2>6. ASSUME EndsWith(mail[c], screen[c].x, q), NEW h \in HostReqs, Execute(h)
        PROVE  InStepAt(c)'
    <3>1. mail' = mail /\ screen' = screen /\ outbox' = outbox
      BY <2>6 DEF Execute, clientVars
    <3>2. CASE Server!ActivateQuestion(h)
      <4>1. pending[h].op = "activate" /\ pending'[h].op = "announce"
        BY <1>0, <3>2, BaseFacts DEF Server!ActivateQuestion, Server!Then, Server!Announcing
      <4>2. outbox[h] \in {<<Activated(call[h].q), StateChanged("active")>>, <<Activated(call[h].q)>>}
        BY <4>1 DEF TeacherInv, InOrder, Fits
      <4>3. 1 \in DOMAIN outbox[h] /\ outbox[h][1].event = "question.activated"
        BY <4>2, EventKinds
      <4>4. ActivationDue(h)'
        BY <3>1, <4>1, <4>3 DEF ActivationDue
      <4> QED
        BY <2>3, <4>4 DEF InStepAt
    <3>3. ASSUME NEW from, NEW to, Server!SetStatus(from, to)
          PROVE  room'.current = q
      BY <3>3, BaseFacts DEF Server!SetStatus, Server!Room
    <3>4. CASE room'.current = q
      BY <2>3, <2>6, <3>1, <3>4 DEF InStepAt
    <3> QED
      BY <2>6, <3>2, <3>3, <3>4 DEF Execute, Server!CloseRoom, Server!ShowReview
  <2>7. ASSUME EndsWith(mail[c], screen[c].x, q), room' = room
        PROVE  InStepAt(c)'
    <3>0. mail[c] \in Seq(Events) /\ screen[c] \in Screen
      BY <1>0
    <3>1. ASSUME EndsWith(mail'[c], screen'[c].x, q)
          PROVE  InStepAt(c)'
      BY <2>3, <2>7, <3>1 DEF InStepAt
    <3>2. CASE mail'[c] = mail[c] /\ screen'[c].x = screen[c].x
      BY <2>7, <3>1, <3>2
    <3>3. ASSUME NEW h \in HostReqs, Publish(h)
          PROVE  InStepAt(c)'
      <4> DEFINE e == Head(outbox[h])
      <4>1. e \in Events /\ e.event # "question.activated" /\ screen' = screen
        <5>1. h \in Screens /\ outbox[h] \in Seq(Events) /\ outbox[h] # <<>> /\ screen' = screen
          BY <1>0, <3>3 DEF Publish
        <5>2. e \in Events
          BY <5>1
        <5> QED
          BY <1>2, <3>3, <5>1, <5>2
      <4>2. mail'[c] = mail[c] \/ mail'[c] = Append(mail[c], e)
        BY <1>0, <3>3 DEF Publish
      <4>3. EndsWith(Append(mail[c], e), screen[c].x, q)
        BY <2>7, <3>0, <4>1, EndOfMailbox
      <4> QED
        BY <2>7, <3>1, <4>1, <4>2, <4>3
    <3>4. CASE Hear(c)
      <4> DEFINE e == Head(mail[c])
      <4>1. mail[c] # <<>> /\ mail'[c] = Tail(mail[c]) /\ screen'[c] = After(e, screen[c])
        BY <1>0, <3>4 DEF Hear
      <4>2. e \in Events
        BY <3>0, <4>1
      <4>3. screen'[c].x = IF e.event = "question.activated" THEN e.q ELSE screen[c].x
        BY <3>0, <4>1, <4>2, EventKinds DEF After, Screen
      <4>4. IF e.event = "question.activated" THEN EndsWith(Tail(mail[c]), e.q, q)
                                              ELSE EndsWith(Tail(mail[c]), screen[c].x, q)
        BY <2>7, <3>0, <4>1, EndOfMailbox
      <4> QED
        BY <3>1, <4>1, <4>3, <4>4
    <3>5. CASE CutOff(c)
      <4>1. PICK n \in 0 .. Len(mail[c]) :
              /\ mail' = [mail EXCEPT ![c] = SubSeq(@, 1, n)]
              /\ inStep' = IF \E i \in n + 1 .. Len(mail[c]) : mail[c][i].event = "question.activated"
                           THEN inStep \ {c} ELSE inStep
        BY <3>5 DEF CutOff
      <4>2. ~(\E i \in n + 1 .. Len(mail[c]) : mail[c][i].event = "question.activated")
        BY <4>1
      <4>3. EndsWith(SubSeq(mail[c], 1, n), screen[c].x, q)
        BY <2>7, <3>0, <4>2, EndOfMailbox
      <4>4. mail'[c] = SubSeq(mail[c], 1, n) /\ screen' = screen
        BY <1>0, <3>5, <4>1 DEF CutOff
      <4> QED
        BY <3>1, <4>3, <4>4
    <3>6. CASE GetReply(c)
      <4>1. mail' = mail
        BY <3>6 DEF GetReply
      <4>2. screen'[c].x \in {screen[c].x, q} \/ (c \in HostReqs /\ Closed(c)')
        <5>1. CASE c \in HostReqs
          BY <3>6, <5>1, GetReplyKeeps DEF TeacherInv
        <5>2. ASSUME NEW s \in Students, NEW t \in Tabs, c = <<s, t>>
              PROVE  screen'[c].x = screen[c].x
          <6>1. call[c].kind = "answer"
            BY <3>6, <5>2 DEF GetReply, RecordInv, Recorded
          <6>2. screen'[c] = Replied(call[c], screen[c]) \/ screen'[c] = Failed(call[c], screen[c])
            BY <1>0, <3>6 DEF GetReply
          <6>3. Replied(call[c], screen[c]) = screen[c]
            BY <6>1 DEF Replied
          <6>4. Failed(call[c], screen[c]).x = screen[c].x
            BY <3>0, <6>1 DEF Failed, Screen
          <6> QED
            BY <6>2, <6>3, <6>4
        <5> QED
          BY <1>0, <5>1, <5>2
      <4>3. EndsWith(mail[c], q, q)
        BY <2>7, <3>0, EndOfMailbox
      <4> QED
        BY <2>3, <2>7, <3>1, <4>1, <4>2, <4>3 DEF InStepAt
    <3> QED
      BY <1>0, <2>2, <3>2, <3>3, <3>4, <3>5, <3>6, ScreenStep
  <2> QED
    BY <2>2, <2>4, <2>5, <2>6, <2>7, RoomOrExecute DEF InStepAt
<1> QED
  BY <1>1, <1>2

-----------------------------------------------------------------------------
(* The theorems *)

Classroom == Base /\ RecordInv /\ TeacherInv /\ ExplainedInv /\ InformedInv /\ InStepInv

(* In the lobby nothing was asked, told or sent.                            *)
LEMMA ClassroomInit == Init => RecordInv /\ TeacherInv /\ ExplainedInv /\ InformedInv /\ InStepInv
<1> SUFFICES ASSUME Init PROVE RecordInv /\ TeacherInv /\ ExplainedInv /\ InformedInv /\ InStepInv
  OBVIOUS
<1>0. /\ room.asked = <<>> /\ room.current = NoQuestion /\ room.status = "waiting"
      /\ \A c \in Screens : /\ pending[c] = Server!Idle /\ outbox[c] = <<>> /\ call[c] = NoCall
                            /\ link[c] = "on" /\ mail[c] = <<>> /\ reload[c] = "none"
                            /\ screen[c].x = NoQuestion /\ screen[c].status = "waiting"
                            /\ ~screen[c].answered
      /\ HostReqs \subseteq Screens /\ \A s \in Students, t \in Tabs : <<s, t>> \in Screens
      /\ inStep = Screens /\ revealed = {}
  BY DEF Init, Screens, Server!Requests
<1>1. RecordInv
  BY <1>0 DEF RecordInv, Recorded
<1>2. TeacherInv
  <2> SUFFICES ASSUME NEW h \in HostReqs PROVE InOrder(h)
    BY DEF TeacherInv
  <2>1. call[h].kind = "none" /\ pending[h].op = "idle" /\ ~Unwritten(h) /\ ~Written(h)
    BY <1>0 DEF NoCall, Server!Idle, Unwritten, Written
  <2>2. Fits(h) /\ RepliesTruly(h)
    BY <1>0, <2>1 DEF Fits, RepliesTruly
  <2>3. Patient(h) /\ Shows(h)
    BY <1>0, <2>1 DEF Patient, Shows, Quiet
  <2> QED
    BY <2>2, <2>3 DEF InOrder
<1>3. ExplainedInv
  BY <1>0 DEF ExplainedInv, Told
<1>4. InformedInv
  <2>1. ASSUME NEW s \in Students, NEW t \in Tabs
        PROVE  call[<<s, t>>] = NoCall /\ pending[<<s, t>>].op # "answer"
    <3>1. <<s, t>> \in Screens
      BY <1>0
    <3> QED
      BY <1>0, <3>1 DEF Server!Idle
  <2> QED
    BY <2>1 DEF InformedInv
<1>5. InStepInv
  BY <1>0 DEF InStepInv, InStepAt, EndsWith
<1> QED
  BY <1>1, <1>2, <1>3, <1>4, <1>5

(* The invariants are inductive together.                                   *)
LEMMA ClassroomInv == ASSUME OnePatientTeacher PROVE Spec => []Classroom
<1>1. RecordInv /\ TeacherInv /\ ExplainedInv /\ InformedInv /\ InStepInv /\ Base /\ Base' /\ [Next]_vars
        => (RecordInv /\ TeacherInv /\ ExplainedInv /\ InformedInv /\ InStepInv)'
  <2> SUFFICES ASSUME RecordInv, TeacherInv, ExplainedInv, InformedInv, InStepInv, Base, Base', [Next]_vars
               PROVE  (RecordInv /\ TeacherInv /\ ExplainedInv /\ InformedInv /\ InStepInv)'
    OBVIOUS
  <2>1. RecordInv'
    BY RecordStep DEF Base
  <2>2. TeacherInv' /\ ExplainedInv' /\ InformedInv' /\ InStepInv'
    BY TeacherStep, ExplainedStep, InformedStep, InStepStep
  <2> QED
    BY <2>1, <2>2
<1>2. TypeOK /\ ServingInv /\ Handlers!AskedInv <=> Base
  BY DEF Base
<1>3. Classroom <=> Base /\ RecordInv /\ TeacherInv /\ ExplainedInv /\ InformedInv /\ InStepInv
  BY DEF Classroom
<1> QED
  BY <1>1, <1>2, <1>3, ClassroomInit, TypesAndServing, ServerInv, PTL DEF Spec

(* A review closes the question the teacher was looking at when it was      *)
(* asked for, at the button or by the screen itself, although the request   *)
(* does not name it: whatever the students' screens do, and whichever       *)
(* connection is lost.                                                      *)
THEOREM ReviewsTheQuestionShown == ASSUME OnePatientTeacher PROVE Spec => []ReviewsWhatIsShown
<1>1. Classroom => ReviewsWhatIsShown
  <2> SUFFICES ASSUME Classroom, NEW h \in HostReqs, pending[h].op = "review"
               PROVE  call[h].q = room.current
    BY DEF ReviewsWhatIsShown
  <2>1. call[h].phase = "serving"
    BY BaseFacts DEF Classroom, Base, ServingInv, Server!Idle
  <2> QED
    BY <2>1 DEF Classroom, TeacherInv, InOrder, Fits, Shows
<1> QED
  BY <1>1, ClassroomInv, PTL

(* A question whose answer a student has been shown is never opened again:  *)
(* the review closed it, and neither start nor next come back to it.        *)
THEOREM ExplainedQuestionsStayClosed ==
  ASSUME OnePatientTeacher PROVE Spec => []ExplainedStaysClosed
<1>1. Classroom => ExplainedStaysClosed
  BY DEF Classroom, ExplainedInv, Told, ExplainedStaysClosed
<1> QED
  BY <1>1, ClassroomInv, PTL

(* No answer is accepted from a screen whose student had been shown the     *)
(* correct one before it was sent, on that screen or another: a question    *)
(* that was explained to anyone is never opened again.                      *)
THEOREM RevealedClosesTheQuestion == ASSUME OnePatientTeacher PROVE Spec => []NoAnswerAfterReveal
<1>1. Classroom => NoAnswerAfterReveal
  BY DEF Classroom, InformedInv, NoAnswerAfterReveal
<1> QED
  BY <1>1, ClassroomInv, PTL

(* While the session runs and all events were broadcast, a screen that was  *)
(* sent the last activation shows the question of the room, or has not      *)
(* heard that activation yet: no late reply or reload puts another there.   *)
THEOREM ScreensKeepUp == ASSUME OnePatientTeacher PROVE Spec => []QuestionInStep
<1>1. Classroom => QuestionInStep
  <2> SUFFICES ASSUME Classroom, room.status \in {"active", "review"},
                      \A h \in HostReqs : outbox[h] = <<>>, NEW c \in inStep
               PROVE  Pends(c) \/ screen[c].x = room.current
    BY DEF QuestionInStep
  <2>1. InStepAt(c)
    BY DEF Classroom, InStepInv
  <2>2. ~(\E h \in HostReqs : ActivationDue(h)) /\ ~Closed(c)
    BY DEF ActivationDue, Closed
  <2>3. EndsWith(mail[c], screen[c].x, room.current)
    BY <2>1, <2>2 DEF InStepAt
  <2> QED
    BY <2>3, EventKinds DEF EndsWith, Pends
<1> QED
  BY <1>1, ClassroomInv, PTL
=============================================================================
