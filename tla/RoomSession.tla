----------------------------- MODULE RoomSession -----------------------------
(***************************************************************************)
(* The handlers of internal/handlers/rooms.go that change a room, run as   *)
(* concurrent HTTP requests.  A handler reads a snapshot of the room,      *)
(* decides, and then executes its SQL statements one by one; whatever it   *)
(* decided is by then a value bound in the request.  pending[r] is the     *)
(* statement request r executes next, with those values.                   *)
(*                                                                         *)
(* One action is one statement (a read with the decision taken on it, or   *)
(* a write of RoomStore).  A refusal (404, 409, 410, ...) changes nothing  *)
(* and is the absence of a step.                                           *)
(***************************************************************************)
EXTENDS RoomStore

CONSTANTS
  HostReqs,    (* requests the teacher may have in flight at once           *)
  Tabs,        (* requests one student may have in flight at once           *)
  Endpoints,   (* the endpoints called in this instance                     *)
  MaxRestarts, (* bound: no restart is requested once round reaches it      *)
  Fallible     (* the kinds of statements that may fail, or that may never  *)
               (* be executed because the request dies before them          *)

ASSUME SessionAssumption ==
  /\ HostReqs \cap (Students \X Tabs) = {}
  /\ MaxRestarts \in Nat
  /\ "idle" \notin Fallible

VARIABLE pending

vars == <<room, part, answers, bank, round, pending>>

Requests == HostReqs \cup (Students \X Tabs)

Idle == [op |-> "idle"]

(* The statement a request is about to execute, with its parameters.        *)
Pending ==
  [op : {"idle", "review", "first_join", "rejoin", "delete", "reset"}]
    \cup [op : {"start", "finish", "join"}, from : Statuses]
    \cup [op : {"activate"}, by : {"start", "next"}, q : Questions, asked : Seq(Questions)]
    \cup [op : {"list_bank"}, bank : Banks, mode : Modes]
    \cup [op : {"restart"}, bank : Banks, order : Seq(Questions), mode : Modes]
    \cup [op : {"enqueue"}, q : Questions]
    \cup [op : {"answer"}, q : Questions, round : Nat]
    \cup [op : {"my_answer"}, mode : Modes, order : Seq(Questions), round : Nat]
    \cup [op : {"insert"}, mode : Modes, q : Questions, total : Nat, round : Nat]
    \cup [op : {"advance"}, mode : Modes, total : Nat]
    \cup [op : {"append"}, bank : Banks]
    \cup [op : {"check", "auto_finish"}, mode : Modes]
    \cup [op : {"announce"}, status : Statuses]

TypeOK == StoreTypeOK /\ pending \in [Requests -> Pending]

Init == StoreInit /\ pending = [r \in Requests |-> Idle]

(* Request r is free and the endpoint is one this instance calls.           *)
Calls(r, endpoint) == pending[r] = Idle /\ endpoint \in Endpoints

(* Request r goes on with statement p; a read leaves the tables alone.      *)
Then(r, p) == pending' = [pending EXCEPT ![r] = p]

Reads(r, p) == Then(r, p) /\ UNCHANGED storeVars

(* A statement whose error the handler drops (_ = ...): when it fails, the  *)
(* handler goes on as if it had not.                                        *)
Tolerated(op, statement) == statement \/ (op \in Fallible /\ UNCHANGED storeVars)

(* The last steps of a handler: the room.state_changed (or, for a question, *)
(* question.activated) broadcast and the reply, both carrying this status.  *)
Announcing(status) == [op |-> "announce", status |-> status]

-----------------------------------------------------------------------------
(* The teacher: start, next, review, finish *)

(* StartRoom looks at the length of the queue and at the mode, never at the *)
(* status it read.                                                          *)
StartRoom(h) ==
  /\ Calls(h, "start")
  /\ room.order # <<>>
  /\ Reads(h, IF room.mode \in SoloModes
              THEN [op |-> "start", from |-> room.status]
              ELSE [op |-> "activate", by |-> "start",
                    q |-> Head(room.order), asked |-> <<Head(room.order)>>])

(* ErrInvalidStatus is ignored: "active" is announced either way.           *)
StartSolo(h) ==
  /\ pending[h].op = "start"
  /\ SetStatus(pending[h].from, "active")
  /\ Then(h, Announcing("active"))

(* Faulty variant: the questions already asked are not left out.            *)
UnaskedUnfiltered(order, asked) == DOMAIN order

Unasked(order, asked) == {i \in DOMAIN order : order[i] \notin ToSet(asked)}

(* Faulty variant: the second result of pickNext is ignored.                *)
NextQuestionUnconditionally(h) ==
  LET left == Unasked(room.order, room.asked)
      ask(q) == [op |-> "activate", by |-> "next", q |-> q, asked |-> Append(room.asked, q)]
  IN  /\ Calls(h, "next")
      /\ \/ left = {} /\ Reads(h, ask(NoQuestion))
         \/ \E i \in left : /\ \A j \in left : i <= j
                            /\ Reads(h, ask(room.order[i]))

(* NextQuestion also reads neither status nor mode.                         *)
NextQuestion(h) ==
  LET left == Unasked(room.order, room.asked)
      ask(q) == [op |-> "activate", by |-> "next", q |-> q, asked |-> Append(room.asked, q)]
  IN  /\ Calls(h, "next")
      /\ \/ left = {} /\ Reads(h, [op |-> "finish", from |-> room.status])
         \/ \E i \in left : /\ \A j \in left : i <= j
                            /\ Reads(h, ask(room.order[i]))

ActivateQuestion(h) ==
  /\ pending[h].op = "activate"
  /\ SetCurrentQuestion(pending[h].q, pending[h].asked)
  /\ Then(h, Announcing("active"))

FinishRoom(h) ==
  /\ Calls(h, "finish")
  /\ room.status # "finished"
  /\ Reads(h, [op |-> "finish", from |-> room.status])

(* The end of FinishRoom, and of NextQuestion when no question is left: the *)
(* reply is "finished" whether or not a row was updated.                    *)
CloseRoom(h) ==
  /\ pending[h].op = "finish"
  /\ SetStatus(pending[h].from, "finished")
  /\ Then(h, Announcing("finished"))

ReviewQuestion(h) ==
  /\ Calls(h, "review")
  /\ room.status = "active"
  /\ room.current # NoQuestion
  /\ Reads(h, [op |-> "review"])

ShowReview(h) ==
  /\ pending[h].op = "review"
  /\ SetStatus("active", "review")
  /\ Then(h, Announcing("review"))

-----------------------------------------------------------------------------
(* The teacher: restart, append a question; the administrator *)

(* The bank and the mode of the new round may be other ones.                *)
RestartRoom(h) ==
  /\ Calls(h, "restart")
  /\ round < MaxRestarts
  /\ room.status \notin {"active", "review"}
  /\ \E b \in Banks, m \in Modes : Reads(h, [op |-> "list_bank", bank |-> b, mode |-> m])

(* ListByBank, and the shuffle; an empty bank is refused.                   *)
ListBank(h) ==
  LET p == pending[h]
  IN  /\ p.op = "list_bank"
      /\ IF bank[p.bank] # {}
         THEN \E o \in Orderings(bank[p.bank]) :
                Reads(h, [op |-> "restart", bank |-> p.bank, order |-> o, mode |-> p.mode])
         ELSE Reads(h, Idle)

CommitRestart(h) ==
  /\ pending[h].op = "restart"
  /\ RestartTx(pending[h].bank, pending[h].order, pending[h].mode)
  /\ Then(h, Announcing("waiting"))

AppendQuestion(h) ==
  /\ Calls(h, "append")
  /\ room.status # "finished"
  /\ Reads(h, [op |-> "append", bank |-> room.bank])

CreateQuestion(h) ==
  /\ pending[h].op = "append"
  /\ \E q \in Questions : /\ InsertQuestion(pending[h].bank, q)
                          /\ Then(h, [op |-> "enqueue", q |-> q])

EnqueueQuestion(h) ==
  /\ pending[h].op = "enqueue"
  /\ AppendQuestionToOrder(pending[h].q)
  /\ Then(h, Idle)

(* handlers/admin.go FinishRoom and DeleteAnswer: one statement each, and   *)
(* nothing is broadcast.                                                    *)
AdminFinish == "admin_finish" \in Endpoints /\ ForceFinish /\ UNCHANGED pending

AdminDeleteAnswer ==
  /\ "delete_answer" \in Endpoints
  /\ \E a \in answers : DeleteAnswer(a)
  /\ UNCHANGED pending

-----------------------------------------------------------------------------
(* A student: join and leave *)

JoinRoom(s, t) ==
  /\ Calls(<<s, t>>, "join")
  /\ room.status # "finished"
  /\ Reads(<<s, t>>, [op |-> "join", from |-> room.status])

(* The INSERT: the first one adds the row, and moves the room on if the     *)
(* snapshot said "created"; a later one fails on UNIQUE (room, user) and    *)
(* brings a student who had left back.                                      *)
Enter(s, t) ==
  LET r == <<s, t>>
  IN  /\ pending[r].op = "join"
      /\ \/ /\ AddParticipant(s)
            /\ Then(r, IF pending[r].from = "created" THEN [op |-> "first_join"] ELSE Idle)
         \/ /\ part[s].joined
            /\ Reads(r, IF part[s].left THEN [op |-> "rejoin"] ELSE Idle)

FirstJoin(s, t) ==
  /\ pending[<<s, t>>].op = "first_join"
  /\ Tolerated("first_join", SetStatus("created", "waiting"))
  /\ Then(<<s, t>>, Idle)

Rejoin(s, t) ==
  /\ pending[<<s, t>>].op = "rejoin"
  /\ Tolerated("rejoin", RejoinParticipant(s))
  /\ Then(<<s, t>>, Idle)

(* LeaveRoom and leaveBeaconHandler.  Their FindParticipant only tells      *)
(* whether the row exists, and rows of participants are never deleted while *)
(* the room exists: reading it is merged with the UPDATE.  No auto-finish   *)
(* check follows.                                                           *)
LeaveRoom(s, t) ==
  /\ Calls(<<s, t>>, "leave")
  /\ part[s].joined
  /\ LeaveParticipant(s)
  /\ UNCHANGED pending

-----------------------------------------------------------------------------
(* A student: answer the question of the room *)

(* Faulty variant: the status of the room is not looked at.                 *)
SubmitAnswerInReview(s, t) ==
  /\ Calls(<<s, t>>, "answer")
  /\ room.current # NoQuestion
  /\ part[s].joined
  /\ Reads(<<s, t>>, [op |-> "answer", q |-> room.current, round |-> round])

(* The mode is not looked at.  FindParticipant is merged, as for leaving.   *)
SubmitAnswer(s, t) ==
  /\ Calls(<<s, t>>, "answer")
  /\ room.status = "active"
  /\ room.current # NoQuestion
  /\ part[s].joined
  /\ Reads(<<s, t>>, [op |-> "answer", q |-> room.current, round |-> round])

(* A duplicate is refused: 409.                                             *)
SaveAnswer(s, t) ==
  LET r == <<s, t>>
  IN  /\ pending[r].op = "answer"
      /\ InsertAnswer(s, pending[r].q, pending[r].round)
      /\ Then(r, Idle)

-----------------------------------------------------------------------------
(* A student: answer one's own question (timer and race) *)

SubmitMyAnswer(s, t) ==
  /\ Calls(<<s, t>>, "my_answer")
  /\ room.status = "active"
  /\ room.mode \in SoloModes
  /\ Reads(<<s, t>>, [op |-> "my_answer", mode |-> room.mode, order |-> room.order, round |-> round])

(* Faulty variant: a wrong answer in a race resets without the DELETE.      *)
CheckMyAnswerWithoutDelete(s, t) ==
  LET r == <<s, t>>
      p == pending[r]
  IN  /\ p.op = "my_answer"
      /\ IF part[s].joined /\ part[s].idx < Len(p.order) /\ ~part[s].fin
         THEN \/ Reads(r, [op |-> "insert", mode |-> p.mode, q |-> p.order[part[s].idx + 1],
                           total |-> Len(p.order), round |-> p.round])
              \/ /\ p.mode = "race"
                 /\ Reads(r, [op |-> "reset"])
         ELSE Reads(r, Idle)

(* FindParticipant: the question is the one at the student's own index in   *)
(* the order read before.  A wrong answer in a race takes another path.     *)
CheckMyAnswer(s, t) ==
  LET r == <<s, t>>
      p == pending[r]
  IN  /\ p.op = "my_answer"
      /\ IF part[s].joined /\ part[s].idx < Len(p.order) /\ ~part[s].fin
         THEN \/ Reads(r, [op |-> "insert", mode |-> p.mode, q |-> p.order[part[s].idx + 1],
                           total |-> Len(p.order), round |-> p.round])
              \/ /\ p.mode = "race"
                 /\ Reads(r, [op |-> "delete"])
         ELSE Reads(r, Idle)

(* Faulty variant: every error of the INSERT is ignored.                    *)
SaveMyAnswerIgnoringErrors(s, t) ==
  LET r == <<s, t>>
      p == pending[r]
  IN  /\ p.op = "insert"
      /\ InsertAnswer(s, p.q, p.round) \/ UNCHANGED storeVars
      /\ Then(r, [op |-> "advance", mode |-> p.mode, total |-> p.total])

(* ErrDuplicateAnswer is ignored and the student is advanced all the same.  *)
SaveMyAnswer(s, t) ==
  LET r == <<s, t>>
      p == pending[r]
  IN  /\ p.op = "insert"
      /\ InsertAnswer(s, p.q, p.round)
      /\ Then(r, [op |-> "advance", mode |-> p.mode, total |-> p.total])

(* The row RETURNING gives decides between the next question and the        *)
(* auto-finish check.                                                       *)
Advance(s, t) ==
  LET r == <<s, t>>
      p == pending[r]
  IN  /\ p.op = "advance"
      /\ AdvanceParticipant(s, p.total)
      /\ Then(r, IF part'[s].fin \/ part'[s].idx >= p.total
                 THEN [op |-> "check", mode |-> p.mode]
                 ELSE Idle)

DropAnswers(s, t) ==
  /\ pending[<<s, t>>].op = "delete"
  /\ Tolerated("delete", DeleteByParticipant(s))
  /\ Then(<<s, t>>, [op |-> "reset"])

(* ErrNotFound for a student who has finished is answered with 500.         *)
ResetProgress(s, t) ==
  /\ pending[<<s, t>>].op = "reset"
  /\ ResetParticipant(s)
  /\ Then(<<s, t>>, Idle)

(* Faulty variant: off by one in the number of students of a podium.        *)
ShouldFinishAboveThree(mode) ==
  LET active == Cardinality(Present)
      finished == Cardinality({s \in Present : part[s].fin})
  IN  /\ active > 0
      /\ \/ finished = active /\ (mode = "race" => active < 3)
         \/ mode = "race" /\ active > 3 /\ finished >= 3

(* A race ends with the third finisher, or with the last one when fewer     *)
(* than three students are present; a timed test ends with the last one.    *)
ShouldFinish(mode) ==
  LET active == Cardinality(Present)
      finished == Cardinality({s \in Present : part[s].fin})
  IN  /\ active > 0
      /\ \/ finished = active /\ (mode = "race" => active < 3)
         \/ mode = "race" /\ active >= 3 /\ finished >= 3

CheckAllFinished(s, t) ==
  LET r == <<s, t>>
      p == pending[r]
  IN  /\ p.op = "check"
      /\ Reads(r, IF ShouldFinish(p.mode) THEN [op |-> "auto_finish", mode |-> p.mode] ELSE Idle)

(* The error of SetStatus is dropped and "finished" announced regardless.   *)
AutoFinish(s, t) ==
  /\ pending[<<s, t>>].op = "auto_finish"
  /\ Tolerated("auto_finish", SetStatus("active", "finished"))
  /\ Then(<<s, t>>, Announcing("finished"))

-----------------------------------------------------------------------------
Announce(r) ==
  /\ pending[r].op = "announce"
  /\ Reads(r, Idle)

(* The client disconnects, which cancels the context every later statement  *)
(* uses, or the process stops: the rest of the handler does not happen.     *)
Abort(r) ==
  /\ pending[r].op \in Fallible
  /\ Reads(r, Idle)

(* What a request in flight does next, by whose request it is.              *)
HostContinues(h) ==
  \/ StartSolo(h) \/ ActivateQuestion(h) \/ CloseRoom(h) \/ ShowReview(h)
  \/ ListBank(h) \/ CommitRestart(h) \/ CreateQuestion(h) \/ EnqueueQuestion(h) \/ Announce(h)

StudentContinues(s, t) ==
  \/ Enter(s, t) \/ FirstJoin(s, t) \/ Rejoin(s, t) \/ SaveAnswer(s, t)
  \/ CheckMyAnswer(s, t) \/ SaveMyAnswer(s, t) \/ Advance(s, t)
  \/ DropAnswers(s, t) \/ ResetProgress(s, t)
  \/ CheckAllFinished(s, t) \/ AutoFinish(s, t) \/ Announce(<<s, t>>)

HostCalls(h) ==
  \/ StartRoom(h) \/ NextQuestion(h) \/ FinishRoom(h) \/ ReviewQuestion(h)
  \/ RestartRoom(h) \/ AppendQuestion(h)

StudentCalls(s, t) ==
  \/ JoinRoom(s, t) \/ LeaveRoom(s, t) \/ SubmitAnswer(s, t) \/ SubmitMyAnswer(s, t)

Next ==
  \/ \E h \in HostReqs : HostCalls(h) \/ HostContinues(h)
  \/ \E s \in Students, t \in Tabs : StudentCalls(s, t) \/ StudentContinues(s, t)
  \/ \E r \in Requests : Abort(r)
  \/ AdminFinish
  \/ AdminDeleteAnswer

Spec == Init /\ [][Next]_vars

(* A handler runs to its end: it waits for nothing but its own statements.  *)
(* Nobody is obliged to make a request, not even a student to answer.       *)
Fairness ==
  /\ \A h \in HostReqs : WF_vars(HostContinues(h))
  /\ \A s \in Students, t \in Tabs : WF_vars(StudentContinues(s, t))

FairSpec == Spec /\ Fairness

-----------------------------------------------------------------------------
(***************************************************************************)
(* Properties that hold                                                    *)
(***************************************************************************)

(* No question is asked twice in a round, and the question on the screen is *)
(* the one asked last: however StartRoom, NextQuestion and RestartRoom      *)
(* interleave, the pair written by SetCurrentQuestion is consistent.        *)
AskedOnce ==
  /\ IsInjective(room.asked)
  /\ room.current # NoQuestion => room.asked # <<>> /\ Last(room.asked) = room.current

(* Until the first restart the questions asked are the first ones of the    *)
(* queue: two presses of "next" at once, a second start, or a next racing   *)
(* an append, never skip a question.                                        *)
AskedInOrder == round = 0 => IsPrefix(room.asked, room.order)

(* The questions a student has been moved past.                             *)
Passed(s) == {room.order[i] : i \in 1 .. part[s].idx}

(* In a timed test or a race the answers on record are those to the         *)
(* questions the student was moved past, and at most the next one: the      *)
(* INSERT and the UPDATE of SubmitMyAnswer are two statements, and either   *)
(* may be the last one before the request dies.  Between the DELETE and the *)
(* UPDATE of a wrong answer in a race there are none.                       *)
AnswersMatchProgress ==
  \A s \in Students :
    \/ \E t \in Tabs : pending[<<s, t>>].op = "reset"
    \/ /\ part[s].idx <= Len(room.order)
       /\ Passed(s) \subseteq Answered(s)
       /\ Cardinality(Answered(s)) <= part[s].idx + 1

(* A student who finished a round stays finished until the round is         *)
(* restarted, and is never thrown back to the first question, not even by   *)
(* a wrong answer still in flight from another tab of a race.               *)
FinishKept ==
  \A s \in Students : part[s].fin /\ round' = round => part'[s].fin /\ part'[s].idx > 0

FinishedForGood == [][FinishKept]_vars

(* Everyone who joined is present and has finished, in a solo session that  *)
(* has not been closed before.                                              *)
AllDone ==
  /\ room.status = "active" /\ room.mode \in SoloModes /\ ~room.ended
  /\ Joined # {}
  /\ \A s \in Joined : part[s].fin /\ ~part[s].left

(* Such a session does not stay open: the last of the concurrent last       *)
(* answers sees all the others and closes the room, unless someone joins    *)
(* meanwhile.  It takes handlers that run to their end and students who     *)
(* stay: nothing looks at the room again when a request dies before its     *)
(* check, or when the one student still at work leaves.                     *)
ClosesWhenAllDone == AllDone ~> ~AllDone

-----------------------------------------------------------------------------
(***************************************************************************)
(* What the comments of the code promise and the code does not keep; each  *)
(* is the property of one run that finds it violated                       *)
(***************************************************************************)

(* handlers/rooms.go:739-742, RestartRoom: a new round in the same room,    *)
(* with the answers cleared.                                                *)
NewRoundIsClean == \A a \in answers : a.round = round

(* handlers/rooms.go:1142, SubmitMyAnswer: a duplicate answer is ignored,   *)
(* being protected against by the state machine; so it does not move the    *)
(* student past a question that was not answered.                           *)
NoQuestionSkipped == \A s \in Students : Passed(s) \subseteq Answered(s)
=============================================================================
