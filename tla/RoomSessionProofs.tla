-------------------------- MODULE RoomSessionProofs --------------------------
(***************************************************************************)
(* Theorems about RoomSession for every set of students, questions, banks, *)
(* requests and endpoints.                                                 *)
(***************************************************************************)
EXTENDS RoomSession, FiniteSetTheorems, TLAPS

-----------------------------------------------------------------------------
(* The statements of RoomStore keep the types of the tables. *)

(* An ordering of a set of questions is a sequence of questions, which has  *)
(* no question twice.                                                       *)
LEMMA OrderingIsSeq ==
  ASSUME NEW S \in SUBSET Questions, NEW o \in Orderings(S)
  PROVE  o \in Seq(Questions) /\ IsInjective(o)
<1>1. IsFiniteSet(S)
  BY FS_Subset, StoreAssumption DEF StoreAssumption
<1>2. Cardinality(S) \in Nat
  BY <1>1, FS_CardinalityType
<1>3. o \in [1 .. Cardinality(S) -> Questions] /\ IsInjective(o)
  BY DEF Orderings
<1> QED
  BY <1>2, <1>3

(* Every statement on the row of rooms writes a row of the right type.      *)
LEMMA RoomStatements ==
  ASSUME StoreTypeOK
  PROVE  /\ \A from, to \in Statuses : SetStatus(from, to) => StoreTypeOK'
         /\ \A q \in Questions, asked \in Seq(Questions) :
              SetCurrentQuestion(q, asked) => StoreTypeOK'
         /\ \A q \in Questions : AppendQuestionToOrder(q) => StoreTypeOK'
         /\ ForceFinish => StoreTypeOK'
         /\ \A b \in Banks, q \in Questions : InsertQuestion(b, q) => StoreTypeOK'
<1>0. {"active", "finished"} \subseteq Statuses
  BY DEF Statuses
<1>1. ASSUME room' \in Room, UNCHANGED <<part, answers, bank, round>>
      PROVE  StoreTypeOK'
  BY <1>1 DEF StoreTypeOK
<1>2. room \in Room
  BY DEF StoreTypeOK
<1>3. ASSUME NEW from \in Statuses, NEW to \in Statuses, SetStatus(from, to)
      PROVE  StoreTypeOK'
  <2>1. room' \in Room
    BY <1>2, <1>3 DEF SetStatus, Room
  <2> QED
    BY <2>1, <1>1, <1>3 DEF SetStatus
<1>4. ASSUME NEW q \in Questions, NEW asked \in Seq(Questions), SetCurrentQuestion(q, asked)
      PROVE  StoreTypeOK'
  <2>1. room' \in Room
    BY <1>0, <1>2, <1>4 DEF SetCurrentQuestion, Room
  <2> QED
    BY <2>1, <1>1, <1>4 DEF SetCurrentQuestion
<1>5. ASSUME NEW q \in Questions, AppendQuestionToOrder(q)
      PROVE  StoreTypeOK'
  <2>1. Append(room.order, q) \in Seq(Questions)
    BY <1>2 DEF Room
  <2>2. room' \in Room
    BY <1>2, <1>5, <2>1 DEF AppendQuestionToOrder, Room
  <2> QED
    BY <2>2, <1>1, <1>5 DEF AppendQuestionToOrder
<1>6. ASSUME ForceFinish
      PROVE  StoreTypeOK'
  <2>1. room' \in Room
    BY <1>0, <1>2, <1>6 DEF ForceFinish, Room
  <2> QED
    BY <2>1, <1>1, <1>6 DEF ForceFinish
<1>7. \A b \in Banks, q \in Questions : InsertQuestion(b, q) => StoreTypeOK'
  BY DEF InsertQuestion, StoreTypeOK
<1> QED
  BY <1>3, <1>4, <1>5, <1>6, <1>7

(* So does the transaction of RestartRoom.                                  *)
LEMMA RestartStatement ==
  ASSUME StoreTypeOK, NEW b \in Banks, NEW o \in Seq(Questions), NEW m \in Modes,
         RestartTx(b, o, m)
  PROVE  StoreTypeOK'
<1>1. room' \in Room
  <2>1. "waiting" \in Statuses /\ <<>> \in Seq(Questions) /\ room \in Room
    BY DEF Statuses, StoreTypeOK
  <2> QED
    BY <2>1 DEF Room, RestartTx
<1>2. part' \in [Students -> Participant]
  BY DEF StoreTypeOK, Participant, RestartTx
<1>3. answers' \subseteq Answer /\ round' \in Nat /\ bank' = bank
  <2>1. answers' = {} /\ round' = round + 1 /\ bank' = bank
    BY DEF RestartTx
  <2>2. round \in Nat
    BY DEF StoreTypeOK
  <2> QED
    BY <2>1, <2>2
<1> QED
  BY <1>1, <1>2, <1>3 DEF StoreTypeOK

(* The statements on participants.                                          *)
LEMMA ParticipantStatements ==
  ASSUME StoreTypeOK, NEW s \in Students
  PROVE  /\ AddParticipant(s) => StoreTypeOK'
         /\ LeaveParticipant(s) => StoreTypeOK'
         /\ RejoinParticipant(s) => StoreTypeOK'
         /\ ResetParticipant(s) => StoreTypeOK'
         /\ \A total \in Nat : AdvanceParticipant(s, total) => StoreTypeOK'
<1> USE DEF StoreTypeOK, Participant
<1>1. AddParticipant(s) => StoreTypeOK'
  BY DEF AddParticipant
<1>2. LeaveParticipant(s) => StoreTypeOK'
  BY DEF LeaveParticipant
<1>3. RejoinParticipant(s) => StoreTypeOK'
  BY DEF RejoinParticipant
<1>4. ResetParticipant(s) => StoreTypeOK'
  BY DEF ResetParticipant
<1>5. ASSUME NEW total \in Nat, AdvanceParticipant(s, total)
      PROVE  StoreTypeOK'
  <2>1. part[s].idx \in Nat /\ part[s].fin \in BOOLEAN
    OBVIOUS
  <2>2. part' \in [Students -> Participant]
    <3> DEFINE idx == IF part[s].idx + 1 <= total THEN part[s].idx + 1 ELSE total
               fin == IF part[s].idx + 1 >= total THEN TRUE ELSE part[s].fin
    <3>1. idx \in Nat
      BY <2>1
    <3>2. fin \in BOOLEAN
      BY <2>1, Zenon
    <3>3. part' = [part EXCEPT ![s] = [part[s] EXCEPT !.idx = idx, !.fin = fin]]
      BY <1>5, Zenon DEF AdvanceParticipant
    <3> HIDE DEF idx, fin
    <3>4. [part[s] EXCEPT !.idx = idx, !.fin = fin] \in Participant
      BY <3>1, <3>2
    <3> QED
      BY <3>3, <3>4
  <2> QED
    BY <1>5, <2>2 DEF AdvanceParticipant
<1> QED
  BY <1>1, <1>2, <1>3, <1>4, <1>5

(* The statements on answers.                                               *)
LEMMA AnswerStatements ==
  ASSUME StoreTypeOK, NEW s \in Students
  PROVE  /\ \A q \in Questions, n \in Nat : InsertAnswer(s, q, n) => StoreTypeOK'
         /\ DeleteByParticipant(s) => StoreTypeOK'
         /\ \A a \in answers : DeleteAnswer(a) => StoreTypeOK'
<1> USE DEF StoreTypeOK, Answer
<1>1. \A q \in Questions, n \in Nat : InsertAnswer(s, q, n) => StoreTypeOK'
  BY DEF InsertAnswer
<1>2. DeleteByParticipant(s) => StoreTypeOK'
  BY DEF DeleteByParticipant
<1>3. \A a \in answers : DeleteAnswer(a) => StoreTypeOK'
  BY DEF DeleteAnswer
<1> QED
  BY <1>1, <1>2, <1>3

(* So does a read, or a statement that failed.                              *)
LEMMA UnchangedKeepsType ==
  ASSUME StoreTypeOK, UNCHANGED storeVars
  PROVE  StoreTypeOK'
  BY DEF StoreTypeOK, storeVars

-----------------------------------------------------------------------------
(* Type correctness *)

(* The parameters a pending statement carries have the types of its kind.   *)
LEMMA PendingFields ==
  ASSUME NEW p \in Pending
  PROVE  /\ p.op \in {"start", "finish", "join"} => p.from \in Statuses
         /\ p.op = "activate" => p.q \in Questions /\ p.asked \in Seq(Questions)
         /\ p.op = "list_bank" => p.bank \in Banks /\ p.mode \in Modes
         /\ p.op = "restart" =>
              p.bank \in Banks /\ p.order \in Seq(Questions) /\ p.mode \in Modes
         /\ p.op = "append" => p.bank \in Banks
         /\ p.op = "enqueue" => p.q \in Questions
         /\ p.op = "answer" => p.q \in Questions /\ p.round \in Nat
         /\ p.op = "my_answer" =>
              p.mode \in Modes /\ p.order \in Seq(Questions) /\ p.round \in Nat
         /\ p.op = "insert" =>
              p.mode \in Modes /\ p.q \in Questions /\ p.total \in Nat /\ p.round \in Nat
         /\ p.op = "advance" => p.mode \in Modes /\ p.total \in Nat
         /\ p.op \in {"check", "auto_finish"} => p.mode \in Modes
  BY DEF Pending

(* The statements a request can be left with have the right type.           *)
LEMMA PendingValues ==
  /\ \A op \in {"idle", "review", "first_join", "rejoin", "delete", "reset"} :
       [op |-> op] \in Pending
  /\ \A st \in Statuses : Announcing(st) \in Pending
  /\ \A st \in Statuses, op \in {"start", "finish", "join"} : [op |-> op, from |-> st] \in Pending
  /\ \A by \in {"start", "next"}, q \in Questions, a \in Seq(Questions) :
       [op |-> "activate", by |-> by, q |-> q, asked |-> a] \in Pending
  /\ \A b \in Banks, m \in Modes : [op |-> "list_bank", bank |-> b, mode |-> m] \in Pending
  /\ \A b \in Banks, o \in Seq(Questions), m \in Modes :
       [op |-> "restart", bank |-> b, order |-> o, mode |-> m] \in Pending
  /\ \A b \in Banks : [op |-> "append", bank |-> b] \in Pending
  /\ \A q \in Questions : [op |-> "enqueue", q |-> q] \in Pending
  /\ \A q \in Questions, n \in Nat : [op |-> "answer", q |-> q, round |-> n] \in Pending
  /\ \A m \in Modes, o \in Seq(Questions), n \in Nat :
       [op |-> "my_answer", mode |-> m, order |-> o, round |-> n] \in Pending
  /\ \A m \in Modes, q \in Questions, k \in Nat, n \in Nat :
       [op |-> "insert", mode |-> m, q |-> q, total |-> k, round |-> n] \in Pending
  /\ \A m \in Modes, k \in Nat : [op |-> "advance", mode |-> m, total |-> k] \in Pending
  /\ \A m \in Modes, op \in {"check", "auto_finish"} : [op |-> op, mode |-> m] \in Pending
  BY DEF Pending, Announcing

(* A step that gives one request a well-typed statement keeps the type of   *)
(* pending; one that only reads keeps everything.                           *)
LEMMA ThenKeepsType ==
  ASSUME TypeOK, NEW r \in Requests, NEW p \in Pending, Then(r, p), StoreTypeOK'
  PROVE  TypeOK'
  BY DEF TypeOK, Then

(* So does a read.                                                          *)
LEMMA ReadsKeepsType ==
  ASSUME TypeOK, NEW r \in Requests, NEW p \in Pending, Reads(r, p)
  PROVE  TypeOK'
<1>1. StoreTypeOK'
  BY DEF TypeOK, Reads, storeVars, StoreTypeOK
<1> QED
  BY <1>1, ThenKeepsType DEF Reads

(* A question of the queue not asked yet is a question, and not an asked one. *)
LEMMA UnaskedIsQuestion ==
  ASSUME NEW order \in Seq(Questions), NEW asked \in Seq(Questions),
         NEW i \in Unasked(order, asked)
  PROVE  order[i] \in Questions /\ order[i] \notin ToSet(asked)
  BY DEF Unasked

(* Every action keeps the types: what a handler binds in a request has the  *)
(* type of the column it comes from, and a statement writes what was bound. *)
LEMMA TypeStep == TypeOK /\ [Next]_vars => TypeOK'
<1> SUFFICES ASSUME TypeOK, [Next]_vars PROVE TypeOK'
  OBVIOUS
<1>0. StoreTypeOK /\ pending \in [Requests -> Pending] /\ Idle \in Pending
  BY PendingValues DEF TypeOK, Idle
<1>a. /\ room \in Room
      /\ room.status \in Statuses /\ room.mode \in Modes /\ room.bank \in Banks
      /\ room.order \in Seq(Questions) /\ room.asked \in Seq(Questions)
      /\ room.current \in Questions \cup {NoQuestion}
      /\ round \in Nat
      /\ part \in [Students -> Participant]
      /\ \A b \in Banks : bank[b] \in SUBSET Questions
      /\ Statuses = {"created", "waiting", "active", "review", "finished"}
  BY <1>0 DEF StoreTypeOK, Room, Statuses
<1>1. ASSUME NEW h \in HostReqs, HostCalls(h)
      PROVE  TypeOK'
  <2>0. h \in Requests
    BY DEF Requests
  <2>1. CASE StartRoom(h)
    <3>1. room.order # <<>> => /\ Head(room.order) \in Questions
                               /\ <<Head(room.order)>> \in Seq(Questions)
      BY <1>a
    <3>2. PICK p \in Pending : Reads(h, p)
      BY <1>a, <2>1, <3>1, PendingValues DEF StartRoom
    <3> QED
      BY <2>0, <3>2, ReadsKeepsType
  <2>2. CASE NextQuestion(h)
    <3>1. PICK p \in Pending : Reads(h, p)
      <4>1. CASE Reads(h, [op |-> "finish", from |-> room.status])
        BY <1>a, <4>1, PendingValues
      <4>2. ASSUME NEW i \in Unasked(room.order, room.asked),
                   Reads(h, [op |-> "activate", by |-> "next", q |-> room.order[i],
                             asked |-> Append(room.asked, room.order[i])])
            PROVE  \E p \in Pending : Reads(h, p)
        <5>1. room.order[i] \in Questions /\ Append(room.asked, room.order[i]) \in Seq(Questions)
          BY <1>a, UnaskedIsQuestion
        <5> QED
          BY <4>2, <5>1, PendingValues
      <4> QED
        BY <2>2, <4>1, <4>2 DEF NextQuestion
    <3> QED
      BY <2>0, <3>1, ReadsKeepsType
  <2>3. CASE FinishRoom(h)
    <3>1. PICK p \in Pending : Reads(h, p)
      BY <1>a, <2>3, PendingValues DEF FinishRoom
    <3> QED
      BY <2>0, <3>1, ReadsKeepsType
  <2>4. CASE ReviewQuestion(h)
    <3>1. PICK p \in Pending : Reads(h, p)
      BY <2>4, PendingValues DEF ReviewQuestion
    <3> QED
      BY <2>0, <3>1, ReadsKeepsType
  <2>5. CASE RestartRoom(h)
    <3>1. PICK p \in Pending : Reads(h, p)
      BY <2>5, PendingValues DEF RestartRoom
    <3> QED
      BY <2>0, <3>1, ReadsKeepsType
  <2>6. CASE AppendQuestion(h)
    <3>1. PICK p \in Pending : Reads(h, p)
      BY <1>a, <2>6, PendingValues DEF AppendQuestion
    <3> QED
      BY <2>0, <3>1, ReadsKeepsType
  <2> QED
    BY <1>1, <2>1, <2>2, <2>3, <2>4, <2>5, <2>6 DEF HostCalls
<1>2. ASSUME NEW h \in HostReqs, HostContinues(h)
      PROVE  TypeOK'
  <2>0. h \in Requests /\ pending[h] \in Pending
    BY <1>0 DEF Requests
  <2> DEFINE p == pending[h]
  <2>1. CASE StartSolo(h)
    <3>1. p.from \in Statuses
      BY <2>0, <2>1, PendingFields DEF StartSolo
    <3>2. StoreTypeOK'
      BY <1>0, <1>a, <2>1, <3>1, RoomStatements DEF StartSolo
    <3> QED
      BY <1>a, <2>0, <2>1, <3>2, ThenKeepsType, PendingValues DEF StartSolo
  <2>2. CASE ActivateQuestion(h)
    <3>1. p.q \in Questions /\ p.asked \in Seq(Questions)
      BY <2>0, <2>2, PendingFields DEF ActivateQuestion
    <3>2. StoreTypeOK'
      BY <1>0, <2>2, <3>1, RoomStatements DEF ActivateQuestion
    <3> QED
      BY <1>a, <2>0, <2>2, <3>2, ThenKeepsType, PendingValues DEF ActivateQuestion
  <2>3. CASE CloseRoom(h)
    <3>1. p.from \in Statuses
      BY <2>0, <2>3, PendingFields DEF CloseRoom
    <3>2. StoreTypeOK'
      BY <1>0, <1>a, <2>3, <3>1, RoomStatements DEF CloseRoom
    <3> QED
      BY <1>a, <2>0, <2>3, <3>2, ThenKeepsType, PendingValues DEF CloseRoom
  <2>4. CASE ShowReview(h)
    <3>1. StoreTypeOK'
      BY <1>0, <1>a, <2>4, RoomStatements DEF ShowReview
    <3> QED
      BY <1>a, <2>0, <2>4, <3>1, ThenKeepsType, PendingValues DEF ShowReview
  <2>4a. CASE ListBank(h)
    <3>1. p.bank \in Banks /\ p.mode \in Modes
      BY <2>0, <2>4a, PendingFields DEF ListBank
    <3>2. ASSUME NEW o \in Orderings(bank[p.bank]),
                 Reads(h, [op |-> "restart", bank |-> p.bank, order |-> o, mode |-> p.mode])
          PROVE  TypeOK'
      <4>1. o \in Seq(Questions)
        BY <1>a, <3>1, OrderingIsSeq
      <4>2. [op |-> "restart", bank |-> p.bank, order |-> o, mode |-> p.mode] \in Pending
        BY <3>1, <4>1, PendingValues
      <4> QED
        BY <2>0, <3>2, <4>2, ReadsKeepsType
    <3>3. CASE Reads(h, Idle)
      BY <1>0, <2>0, <3>3, ReadsKeepsType
    <3> QED
      BY <2>4a, <3>2, <3>3 DEF ListBank
  <2>5. CASE CommitRestart(h)
    <3>1. p.bank \in Banks /\ p.order \in Seq(Questions) /\ p.mode \in Modes
      BY <2>0, <2>5, PendingFields DEF CommitRestart
    <3>2. StoreTypeOK'
      BY <1>0, <2>5, <3>1, RestartStatement DEF CommitRestart
    <3> QED
      BY <1>a, <2>0, <2>5, <3>2, ThenKeepsType, PendingValues DEF CommitRestart
  <2>6. CASE CreateQuestion(h)
    <3>1. p.bank \in Banks
      BY <2>0, <2>6, PendingFields DEF CreateQuestion
    <3>2. PICK q \in Questions : InsertQuestion(p.bank, q) /\ Then(h, [op |-> "enqueue", q |-> q])
      BY <2>6 DEF CreateQuestion
    <3>3. StoreTypeOK'
      BY <1>0, <3>1, <3>2, RoomStatements
    <3>4. [op |-> "enqueue", q |-> q] \in Pending
      BY PendingValues
    <3> QED
      BY <2>0, <3>2, <3>3, <3>4, ThenKeepsType
  <2>7. CASE EnqueueQuestion(h)
    <3>1. p.q \in Questions
      BY <2>0, <2>7, PendingFields DEF EnqueueQuestion
    <3>2. StoreTypeOK'
      BY <1>0, <2>7, <3>1, RoomStatements DEF EnqueueQuestion
    <3> QED
      BY <1>0, <2>0, <2>7, <3>2, ThenKeepsType DEF EnqueueQuestion
  <2>8. CASE Announce(h)
    BY <1>0, <2>0, <2>8, ReadsKeepsType DEF Announce
  <2> QED
    BY <1>2, <2>1, <2>2, <2>3, <2>4, <2>4a, <2>5, <2>6, <2>7, <2>8 DEF HostContinues
<1>3. ASSUME NEW s \in Students, NEW t \in Tabs, StudentCalls(s, t)
      PROVE  TypeOK'
  <2> DEFINE r == <<s, t>>
  <2>0. r \in Requests
    BY DEF Requests
  <2>1. CASE JoinRoom(s, t)
    <3>1. [op |-> "join", from |-> room.status] \in Pending
      BY <1>a, PendingValues
    <3> QED
      BY <2>0, <2>1, <3>1, ReadsKeepsType DEF JoinRoom
  <2>2. CASE LeaveRoom(s, t)
    <3>1. StoreTypeOK'
      BY <1>0, <2>2, ParticipantStatements DEF LeaveRoom
    <3> QED
      BY <1>0, <2>2, <3>1 DEF LeaveRoom, TypeOK
  <2>3. CASE SubmitAnswer(s, t)
    <3>1. [op |-> "answer", q |-> room.current, round |-> round] \in Pending
      BY <1>a, <2>3, PendingValues DEF SubmitAnswer
    <3> QED
      BY <2>0, <2>3, <3>1, ReadsKeepsType DEF SubmitAnswer
  <2>4. CASE SubmitMyAnswer(s, t)
    <3>1. [op |-> "my_answer", mode |-> room.mode, order |-> room.order, round |-> round] \in Pending
      BY <1>a, PendingValues
    <3> QED
      BY <2>0, <2>4, <3>1, ReadsKeepsType DEF SubmitMyAnswer
  <2> QED
    BY <1>3, <2>1, <2>2, <2>3, <2>4 DEF StudentCalls
<1>4. ASSUME NEW s \in Students, NEW t \in Tabs, StudentContinues(s, t)
      PROVE  TypeOK'
  <2> DEFINE r == <<s, t>>
             p == pending[r]
  <2>0. r \in Requests /\ p \in Pending
    BY <1>0 DEF Requests
  <2>1. CASE Enter(s, t)
    <3>1. CASE AddParticipant(s) /\ Then(r, IF p.from = "created" THEN [op |-> "first_join"] ELSE Idle)
      <4>1. StoreTypeOK'
        BY <1>0, <3>1, ParticipantStatements
      <4>2. PICK v \in Pending : Then(r, v)
        BY <1>0, <3>1, PendingValues
      <4> QED
        BY <2>0, <4>1, <4>2, ThenKeepsType
    <3>2. CASE Reads(r, IF part[s].left THEN [op |-> "rejoin"] ELSE Idle)
      <4>1. PICK v \in Pending : Reads(r, v)
        BY <1>0, <3>2, PendingValues
      <4> QED
        BY <2>0, <4>1, ReadsKeepsType
    <3> QED
      BY <2>1, <3>1, <3>2 DEF Enter
  <2>2. CASE FirstJoin(s, t)
    <3>1. StoreTypeOK'
      BY <1>0, <1>a, <2>2, RoomStatements, UnchangedKeepsType DEF FirstJoin, Tolerated
    <3> QED
      BY <1>0, <2>0, <2>2, <3>1, ThenKeepsType DEF FirstJoin
  <2>3. CASE Rejoin(s, t)
    <3>1. StoreTypeOK'
      BY <1>0, <2>3, ParticipantStatements, UnchangedKeepsType DEF Rejoin, Tolerated
    <3> QED
      BY <1>0, <2>0, <2>3, <3>1, ThenKeepsType DEF Rejoin
  <2>4. CASE SaveAnswer(s, t)
    <3>1. p.q \in Questions /\ p.round \in Nat
      BY <2>0, <2>4, PendingFields DEF SaveAnswer
    <3>2. StoreTypeOK'
      BY <1>0, <2>4, <3>1, AnswerStatements DEF SaveAnswer
    <3> QED
      BY <1>0, <2>0, <2>4, <3>2, ThenKeepsType DEF SaveAnswer
  <2>5. CASE CheckMyAnswer(s, t)
    <3>0. p.mode \in Modes /\ p.order \in Seq(Questions) /\ p.round \in Nat
      BY <2>0, <2>5, PendingFields DEF CheckMyAnswer
    <3> DEFINE v == [op |-> "insert", mode |-> p.mode, q |-> p.order[part[s].idx + 1],
                     total |-> Len(p.order), round |-> p.round]
    <3>1. part[s].idx < Len(p.order) => v \in Pending
      <4>1. part[s].idx \in Nat
        BY <1>a DEF Participant
      <4>2. part[s].idx < Len(p.order) => p.order[part[s].idx + 1] \in Questions
        BY <3>0, <4>1
      <4>3. Len(p.order) \in Nat
        BY <3>0
      <4> QED
        BY <3>0, <4>2, <4>3, PendingValues
    <3>2. PICK w \in Pending : Reads(r, w)
      <4>1. CASE Reads(r, Idle)
        BY <1>0, <4>1
      <4>2. CASE Reads(r, [op |-> "delete"])
        BY <4>2, PendingValues
      <4>3. CASE part[s].idx < Len(p.order) /\ Reads(r, v)
        BY <3>1, <4>3
      <4> QED
        BY <2>5, <4>1, <4>2, <4>3 DEF CheckMyAnswer
    <3> QED
      BY <2>0, <3>2, ReadsKeepsType
  <2>6. CASE SaveMyAnswer(s, t)
    <3>1. p.mode \in Modes /\ p.q \in Questions /\ p.total \in Nat /\ p.round \in Nat
      BY <2>0, <2>6, PendingFields DEF SaveMyAnswer
    <3>2. StoreTypeOK'
      BY <1>0, <2>6, <3>1, AnswerStatements DEF SaveMyAnswer
    <3>3. [op |-> "advance", mode |-> p.mode, total |-> p.total] \in Pending
      BY <3>1, PendingValues
    <3> QED
      BY <2>0, <2>6, <3>2, <3>3, ThenKeepsType DEF SaveMyAnswer
  <2>7. CASE Advance(s, t)
    <3>1. p.mode \in Modes /\ p.total \in Nat
      BY <2>0, <2>7, PendingFields DEF Advance
    <3>2. StoreTypeOK'
      BY <1>0, <2>7, <3>1, ParticipantStatements DEF Advance
    <3>3. PICK v \in Pending : Then(r, v)
      BY <1>0, <2>7, <3>1, PendingValues DEF Advance
    <3> QED
      BY <2>0, <3>2, <3>3, ThenKeepsType
  <2>8. CASE DropAnswers(s, t)
    <3>1. StoreTypeOK'
      BY <1>0, <2>8, AnswerStatements, UnchangedKeepsType DEF DropAnswers, Tolerated
    <3>2. [op |-> "reset"] \in Pending
      BY PendingValues
    <3> QED
      BY <2>0, <2>8, <3>1, <3>2, ThenKeepsType DEF DropAnswers
  <2>9. CASE ResetProgress(s, t)
    <3>1. StoreTypeOK'
      BY <1>0, <2>9, ParticipantStatements DEF ResetProgress
    <3> QED
      BY <1>0, <2>0, <2>9, <3>1, ThenKeepsType DEF ResetProgress
  <2>10. CASE CheckAllFinished(s, t)
    <3>1. p.mode \in Modes
      BY <2>0, <2>10, PendingFields DEF CheckAllFinished
    <3>2. PICK v \in Pending : Reads(r, v)
      BY <1>0, <2>10, <3>1, PendingValues DEF CheckAllFinished
    <3> QED
      BY <2>0, <3>2, ReadsKeepsType
  <2>11. CASE AutoFinish(s, t)
    <3>1. StoreTypeOK'
      BY <1>0, <1>a, <2>11, RoomStatements, UnchangedKeepsType DEF AutoFinish, Tolerated
    <3> QED
      BY <1>a, <2>0, <2>11, <3>1, ThenKeepsType, PendingValues DEF AutoFinish
  <2>12. CASE Announce(r)
    BY <1>0, <2>0, <2>12, ReadsKeepsType DEF Announce
  <2> QED
    BY <1>4, <2>1, <2>2, <2>3, <2>4, <2>5, <2>6, <2>7, <2>8, <2>9, <2>10, <2>11, <2>12
    DEF StudentContinues
<1>5. ASSUME NEW r \in Requests, Abort(r)
      PROVE  TypeOK'
  BY <1>0, <1>5, ReadsKeepsType DEF Abort
<1>6. CASE AdminFinish
  BY <1>0, <1>6, RoomStatements DEF AdminFinish, TypeOK
<1>7. CASE AdminDeleteAnswer
  <2>1. PICK a \in answers : DeleteAnswer(a)
    BY <1>7 DEF AdminDeleteAnswer
  <2>2. StoreTypeOK'
    BY <1>0, <2>1 DEF DeleteAnswer, StoreTypeOK
  <2> QED
    BY <1>0, <1>7, <2>2 DEF AdminDeleteAnswer, TypeOK
<1>8. CASE UNCHANGED vars
  BY <1>8 DEF vars, TypeOK, StoreTypeOK
<1> QED
  BY <1>1, <1>2, <1>3, <1>4, <1>5, <1>6, <1>7, <1>8 DEF Next

(* Every row of the tables, and every value bound in a request between its  *)
(* snapshot and its statement, has the type of its column.                  *)
THEOREM TypeCorrect == Spec => []TypeOK
<1>1. Init => TypeOK
  <2> SUFFICES ASSUME Init PROVE TypeOK
    OBVIOUS
  <2>0. PICK b \in Banks : \E m \in Modes, o \in Orderings(InitialBank[b]) :
          room = [status |-> "created", mode |-> m, bank |-> b, order |-> o,
                  asked |-> <<>>, current |-> NoQuestion,
                  started |-> FALSE, ended |-> FALSE]
    BY DEF Init, StoreInit
  <2>1. PICK m \in Modes, o \in Orderings(InitialBank[b]) :
          room = [status |-> "created", mode |-> m, bank |-> b, order |-> o,
                  asked |-> <<>>, current |-> NoQuestion,
                  started |-> FALSE, ended |-> FALSE]
    BY <2>0
  <2>2. o \in Seq(Questions)
    BY OrderingIsSeq, StoreAssumption DEF StoreAssumption
  <2>3. room \in Room
    <3>1. "created" \in Statuses /\ <<>> \in Seq(Questions)
      BY DEF Statuses
    <3> QED
      BY <2>1, <2>2, <3>1 DEF Room
  <2>4. StoreTypeOK
    <3>1. part \in [Students -> Participant]
      BY DEF Init, StoreInit, Participant
    <3>2. answers \subseteq Answer /\ bank \in [Banks -> SUBSET Questions] /\ round \in Nat
      BY StoreAssumption DEF Init, StoreInit, StoreAssumption
    <3> QED
      BY <2>3, <3>1, <3>2 DEF StoreTypeOK
  <2> QED
    BY <2>4, PendingValues DEF Init, TypeOK, Idle
<1> QED
  BY <1>1, TypeStep, PTL DEF Spec

-----------------------------------------------------------------------------
(* AskedOnce *)

(* What SetCurrentQuestion is to write is already consistent in the request *)
(* that is about to call it.                                                *)
Consistent(q, asked) == IsInjective(asked) /\ asked # <<>> /\ Last(asked) = q

AskedInv ==
  /\ AskedOnce
  /\ \A r \in Requests : pending[r].op = "activate" => Consistent(pending[r].q, pending[r].asked)

(* Only SetCurrentQuestion and the restart write the two columns.           *)
LEMMA AskedKept ==
  ASSUME TypeOK
  PROVE  /\ \A from, to : SetStatus(from, to) => room'.asked = room.asked /\ room'.current = room.current
         /\ \A q : AppendQuestionToOrder(q) => room'.asked = room.asked /\ room'.current = room.current
         /\ ForceFinish => room'.asked = room.asked /\ room'.current = room.current
  BY DEF TypeOK, StoreTypeOK, Room, SetStatus, AppendQuestionToOrder, ForceFinish

(* Appending a question that is not in a list yet leaves it without repeats. *)
LEMMA AppendConsistent ==
  ASSUME NEW asked \in Seq(Questions), IsInjective(asked),
         NEW q \in Questions, q \notin ToSet(asked)
  PROVE  Consistent(q, Append(asked, q))
<1> DEFINE new == Append(asked, q)
<1>1. /\ Len(new) = Len(asked) + 1 /\ new[Len(new)] = q /\ Len(asked) \in Nat
      /\ \A i \in 1 .. Len(asked) : new[i] = asked[i]
      /\ DOMAIN new = 1 .. Len(asked) + 1 /\ DOMAIN asked = 1 .. Len(asked)
  OBVIOUS
<1>2. \A i \in 1 .. Len(asked) : asked[i] # q
  BY <1>1 DEF ToSet
<1>3. IsInjective(new)
  <2> SUFFICES ASSUME NEW i \in DOMAIN new, NEW j \in DOMAIN new, new[i] = new[j]
               PROVE  i = j
    BY DEF IsInjective
  <2>1. CASE i \in DOMAIN asked /\ j \in DOMAIN asked
    BY <1>1, <2>1 DEF IsInjective
  <2>2. CASE i \notin DOMAIN asked \/ j \notin DOMAIN asked
    BY <1>1, <1>2, <2>2
  <2> QED
    BY <2>1, <2>2
<1>4. new # <<>>
  BY <1>1
<1> HIDE DEF new
<1> QED
  BY <1>1, <1>3, <1>4 DEF Consistent, Last, new

(* A step that gives a request another kind of statement and writes neither *)
(* column.                                                                  *)
LEMMA AskedQuiet ==
  ASSUME TypeOK, AskedInv, NEW r \in Requests, NEW p, Then(r, p), p.op # "activate",
         room'.asked = room.asked, room'.current = room.current
  PROVE  AskedInv'
<1>1. AskedOnce'
  BY DEF AskedInv, AskedOnce
<1>2. ASSUME NEW r2 \in Requests, pending'[r2].op = "activate"
      PROVE  Consistent(pending'[r2].q, pending'[r2].asked)
  <2>1. pending'[r2] = pending[r2]
    BY <1>2 DEF TypeOK, Then
  <2> QED
    BY <1>2, <2>1 DEF AskedInv
<1> QED
  BY <1>1, <1>2 DEF AskedInv

(* Every action keeps it: the ones that decide on a question build a        *)
(* consistent pair, and ActivateQuestion writes the pair as a whole.        *)
LEMMA AskedStep == TypeOK /\ AskedInv /\ [Next]_vars => AskedInv'
<1> SUFFICES ASSUME TypeOK, AskedInv, [Next]_vars PROVE AskedInv'
  OBVIOUS
<1>0. /\ room \in Room /\ room.order \in Seq(Questions) /\ room.asked \in Seq(Questions)
      /\ pending \in [Requests -> Pending]
  BY DEF TypeOK, StoreTypeOK, Room
<1>1. ASSUME NEW h \in HostReqs, HostCalls(h)
      PROVE  AskedInv'
  <2>0. h \in Requests
    BY DEF Requests
  <2>1. ASSUME NEW p, Reads(h, p), p.op = "activate" => Consistent(p.q, p.asked)
        PROVE  AskedInv'
    <3>1. AskedOnce'
      BY <2>1 DEF AskedInv, AskedOnce, Reads, storeVars
    <3>2. \A r \in Requests : pending'[r] = IF r = h THEN p ELSE pending[r]
      BY <1>0, <2>1 DEF Reads, Then
    <3> QED
      BY <2>1, <3>1, <3>2 DEF AskedInv
  <2>2. CASE StartRoom(h)
    <3>1. room.order # <<>> => Consistent(Head(room.order), <<Head(room.order)>>)
      BY <1>0 DEF Consistent, IsInjective, Last
    <3> QED
      BY <2>1, <2>2, <3>1 DEF StartRoom
  <2>3. CASE NextQuestion(h)
    <3>1. CASE Reads(h, [op |-> "finish", from |-> room.status])
      BY <2>1, <3>1
    <3>2. ASSUME NEW i \in Unasked(room.order, room.asked),
                 Reads(h, [op |-> "activate", by |-> "next", q |-> room.order[i],
                           asked |-> Append(room.asked, room.order[i])])
          PROVE  AskedInv'
      <4>1. room.order[i] \in Questions /\ room.order[i] \notin ToSet(room.asked)
        BY <1>0, UnaskedIsQuestion
      <4>2. Consistent(room.order[i], Append(room.asked, room.order[i]))
        BY <1>0, <4>1, AppendConsistent DEF AskedInv, AskedOnce
      <4> QED
        BY <2>1, <3>2, <4>2
    <3> QED
      BY <2>3, <3>1, <3>2 DEF NextQuestion
  <2>4. CASE FinishRoom(h)
    BY <2>1, <2>4 DEF FinishRoom
  <2>5. CASE ReviewQuestion(h)
    BY <2>1, <2>5 DEF ReviewQuestion
  <2>6. CASE RestartRoom(h)
    BY <2>1, <2>6 DEF RestartRoom
  <2>7. CASE AppendQuestion(h)
    BY <2>1, <2>7 DEF AppendQuestion
  <2> QED
    BY <1>1, <2>2, <2>3, <2>4, <2>5, <2>6, <2>7 DEF HostCalls
<1>2. ASSUME NEW h \in HostReqs, HostContinues(h)
      PROVE  AskedInv'
  <2>0. h \in Requests
    BY DEF Requests
  <2>1. CASE StartSolo(h)
    BY <2>0, <2>1, AskedKept, AskedQuiet DEF StartSolo, Announcing
  <2>2. CASE ActivateQuestion(h)
    <3>1. Consistent(pending[h].q, pending[h].asked)
      BY <2>0, <2>2 DEF ActivateQuestion, AskedInv
    <3>2. room'.asked = pending[h].asked /\ room'.current = pending[h].q
      BY <1>0, <2>2 DEF ActivateQuestion, SetCurrentQuestion, Room
    <3>3. AskedOnce'
      BY <3>1, <3>2 DEF AskedOnce, Consistent
    <3>4. \A r \in Requests : pending'[r] = pending[r] \/ pending'[r].op = "announce"
      BY <1>0, <2>2 DEF ActivateQuestion, Then, Announcing
    <3> QED
      BY <3>3, <3>4 DEF AskedInv
  <2>3. CASE CloseRoom(h)
    BY <2>0, <2>3, AskedKept, AskedQuiet DEF CloseRoom, Announcing
  <2>4. CASE ShowReview(h)
    BY <2>0, <2>4, AskedKept, AskedQuiet DEF ShowReview, Announcing
  <2>4a. CASE ListBank(h)
    BY <2>0, <2>4a, AskedQuiet DEF ListBank, Reads, storeVars, Idle
  <2>5. CASE CommitRestart(h)
    <3>1. room'.asked = <<>> /\ room'.current = NoQuestion
      BY <1>0, <2>5 DEF CommitRestart, RestartTx, Room
    <3>2. AskedOnce'
      BY <3>1 DEF AskedOnce, IsInjective
    <3>3. \A r \in Requests : pending'[r] = pending[r] \/ pending'[r].op = "announce"
      BY <1>0, <2>5 DEF CommitRestart, Then, Announcing
    <3> QED
      BY <3>2, <3>3 DEF AskedInv
  <2>6. CASE CreateQuestion(h)
    BY <2>0, <2>6, AskedQuiet DEF CreateQuestion, InsertQuestion
  <2>7. CASE EnqueueQuestion(h)
    BY <2>0, <2>7, AskedKept, AskedQuiet DEF EnqueueQuestion, Idle
  <2>8. CASE Announce(h)
    BY <2>0, <2>8, AskedQuiet DEF Announce, Reads, storeVars, Idle
  <2> QED
    BY <1>2, <2>1, <2>2, <2>3, <2>4, <2>4a, <2>5, <2>6, <2>7, <2>8 DEF HostContinues
<1>3. ASSUME NEW s \in Students, NEW t \in Tabs, StudentCalls(s, t)
      PROVE  AskedInv'
  <2>0. <<s, t>> \in Requests
    BY DEF Requests
  <2>1. CASE JoinRoom(s, t) \/ SubmitAnswer(s, t) \/ SubmitMyAnswer(s, t)
    BY <2>0, <2>1, AskedQuiet DEF JoinRoom, SubmitAnswer, SubmitMyAnswer, Reads, storeVars
  <2>2. CASE LeaveRoom(s, t)
    BY <2>2 DEF LeaveRoom, LeaveParticipant, AskedInv, AskedOnce
  <2> QED
    BY <1>3, <2>1, <2>2 DEF StudentCalls
<1>4. ASSUME NEW s \in Students, NEW t \in Tabs, StudentContinues(s, t)
      PROVE  AskedInv'
  <2>0. <<s, t>> \in Requests
    BY DEF Requests
  <2>1. CASE Enter(s, t)
    BY <2>0, <2>1, AskedQuiet DEF Enter, AddParticipant, Reads, storeVars, Idle
  <2>2. CASE FirstJoin(s, t)
    BY <2>0, <2>2, AskedKept, AskedQuiet DEF FirstJoin, Tolerated, storeVars, Idle
  <2>3. CASE Rejoin(s, t)
    BY <2>0, <2>3, AskedQuiet DEF Rejoin, RejoinParticipant, Tolerated, storeVars, Idle
  <2>4. CASE SaveAnswer(s, t)
    BY <2>0, <2>4, AskedQuiet DEF SaveAnswer, InsertAnswer, Idle
  <2>5. CASE CheckMyAnswer(s, t)
    BY <2>0, <2>5, AskedQuiet DEF CheckMyAnswer, Reads, storeVars, Idle
  <2>6. CASE SaveMyAnswer(s, t)
    BY <2>0, <2>6, AskedQuiet DEF SaveMyAnswer, InsertAnswer
  <2>7. CASE Advance(s, t)
    BY <2>0, <2>7, AskedQuiet DEF Advance, AdvanceParticipant, Idle
  <2>8. CASE DropAnswers(s, t)
    BY <2>0, <2>8, AskedQuiet DEF DropAnswers, DeleteByParticipant, Tolerated, storeVars
  <2>9. CASE ResetProgress(s, t)
    BY <2>0, <2>9, AskedQuiet DEF ResetProgress, ResetParticipant, Idle
  <2>10. CASE CheckAllFinished(s, t)
    BY <2>0, <2>10, AskedQuiet DEF CheckAllFinished, Reads, storeVars, Idle
  <2>11. CASE AutoFinish(s, t)
    BY <2>0, <2>11, AskedKept, AskedQuiet DEF AutoFinish, Announcing, Tolerated, storeVars
  <2>12. CASE Announce(<<s, t>>)
    BY <2>0, <2>12, AskedQuiet DEF Announce, Reads, storeVars, Idle
  <2> QED
    BY <1>4, <2>1, <2>2, <2>3, <2>4, <2>5, <2>6, <2>7, <2>8, <2>9, <2>10, <2>11, <2>12
    DEF StudentContinues
<1>5. ASSUME NEW r \in Requests, Abort(r)
      PROVE  AskedInv'
  BY <1>5, AskedQuiet DEF Abort, Reads, storeVars, Idle
<1>6. CASE AdminFinish
  BY <1>6, AskedKept DEF AdminFinish, AskedInv, AskedOnce
<1>7. CASE AdminDeleteAnswer
  BY <1>7 DEF AdminDeleteAnswer, DeleteAnswer, AskedInv, AskedOnce
<1>8. CASE UNCHANGED vars
  BY <1>8 DEF vars, AskedInv, AskedOnce
<1> QED
  BY <1>1, <1>2, <1>3, <1>4, <1>5, <1>6, <1>7, <1>8 DEF Next

(* However many starts, nexts and restarts are in flight, no question is    *)
(* asked twice in a round and the current question is the last one asked.   *)
THEOREM AskedOnceHolds == Spec => []AskedOnce
<1>1. Init => AskedInv
  BY DEF Init, StoreInit, AskedInv, AskedOnce, IsInjective, Idle
<1>2. AskedInv => AskedOnce
  BY DEF AskedInv
<1> QED
  BY <1>1, <1>2, AskedStep, TypeCorrect, PTL DEF Spec

-----------------------------------------------------------------------------
(* A finished student stays finished *)

(* Why it holds: the queue a student is advanced against is the one the     *)
(* request read, which was not empty, so whoever finishes is past the first *)
(* question; the reset spares the finished; and a row is added only once.   *)
FinInv ==
  /\ \A s \in Students : part[s].fin => part[s].joined /\ part[s].idx > 0
  /\ \A s \in Students, t \in Tabs :
       pending[<<s, t>>].op \in {"insert", "advance"} => part[s].joined /\ pending[<<s, t>>].total > 0

(* Neither the participants nor the total of any request changes.           *)
LEMMA FinQuiet ==
  ASSUME TypeOK, FinInv, NEW r \in Requests, NEW p, Then(r, p),
         p.op \notin {"insert", "advance"}, part' = part
  PROVE  FinInv' /\ FinishKept
<1>1. FinishKept
  BY DEF FinInv, FinishKept
<1>2. \A x \in Requests : pending'[x] = pending[x] \/ pending'[x].op \notin {"insert", "advance"}
  BY DEF TypeOK, Then
<1>3. \A s \in Students, t \in Tabs : <<s, t>> \in Requests
  BY DEF Requests
<1> QED
  BY <1>1, <1>2, <1>3 DEF FinInv

(* One student's row changes, without losing what FinInv says of it, and    *)
(* pending as in FinQuiet.                                                  *)
LEMMA FinRow ==
  ASSUME TypeOK, FinInv, NEW s \in Students,
         \A u \in Students : u # s => part'[u] = part[u],
         part[s].joined => part'[s].joined,
         part'[s].fin => part'[s].joined /\ part'[s].idx > 0,
         part[s].fin => part'[s].fin,
         \A x \in Requests : pending'[x] = pending[x] \/ pending'[x].op \notin {"insert", "advance"}
  PROVE  FinInv' /\ FinishKept
<1>1. FinishKept
  BY DEF FinInv, FinishKept
<1>2. \A u \in Students, t \in Tabs : <<u, t>> \in Requests
  BY DEF Requests
<1> QED
  BY <1>1, <1>2 DEF FinInv

(* Every action keeps it and keeps the finished students finished: the      *)
(* UPDATE of the index never lowers it, and the reset passes them by.       *)
LEMMA FinStep == TypeOK /\ FinInv /\ [Next]_vars => FinInv' /\ [FinishKept]_vars
<1> SUFFICES ASSUME TypeOK, FinInv, [Next]_vars PROVE FinInv' /\ FinishKept
  OBVIOUS
<1>0. /\ pending \in [Requests -> Pending] /\ round \in Nat
      /\ part \in [Students -> Participant]
      /\ \A s \in Students : part[s] \in Participant /\ part[s].idx \in Nat
  BY DEF TypeOK, StoreTypeOK, Participant
<1>1. ASSUME NEW h \in HostReqs, HostCalls(h) \/ (HostContinues(h) /\ ~CommitRestart(h))
      PROVE  FinInv' /\ FinishKept
  <2>0. h \in Requests
    BY DEF Requests
  <2>1. CASE StartRoom(h) \/ NextQuestion(h) \/ FinishRoom(h)
    BY <2>0, <2>1, FinQuiet DEF StartRoom, NextQuestion, FinishRoom, Reads, storeVars
  <2>2. CASE ReviewQuestion(h) \/ RestartRoom(h) \/ AppendQuestion(h)
    BY <2>0, <2>2, FinQuiet DEF ReviewQuestion, RestartRoom, AppendQuestion, Reads, storeVars
  <2>3. CASE StartSolo(h) \/ CloseRoom(h) \/ ShowReview(h)
    BY <2>0, <2>3, FinQuiet DEF StartSolo, CloseRoom, ShowReview, SetStatus, Announcing
  <2>4. CASE ActivateQuestion(h)
    BY <2>0, <2>4, FinQuiet DEF ActivateQuestion, SetCurrentQuestion, Announcing
  <2>4a. CASE ListBank(h)
    BY <2>0, <2>4a, FinQuiet DEF ListBank, Reads, storeVars, Idle
  <2>5. CASE CreateQuestion(h) \/ EnqueueQuestion(h) \/ Announce(h)
    BY <2>0, <2>5, FinQuiet
    DEF CreateQuestion, EnqueueQuestion, Announce, InsertQuestion, AppendQuestionToOrder,
        Reads, storeVars, Idle
  <2> QED
    BY <1>1, <2>1, <2>2, <2>3, <2>4, <2>4a, <2>5 DEF HostCalls, HostContinues
<1>2. ASSUME NEW h \in HostReqs, CommitRestart(h)
      PROVE  FinInv' /\ FinishKept
  <2>1. \A s \in Students : ~part'[s].fin /\ part'[s].joined = part[s].joined
    BY <1>0, <1>2 DEF CommitRestart, RestartTx, Participant
  <2>2. round' # round
    <3>1. round' = round + 1
      BY <1>2, Zenon DEF CommitRestart, RestartTx
    <3> QED
      BY <1>0, <3>1
  <2>3. \A x \in Requests : pending'[x] = pending[x] \/ pending'[x].op = "announce"
    BY <1>0, <1>2 DEF CommitRestart, Then, Announcing
  <2>4. \A s \in Students, t \in Tabs : <<s, t>> \in Requests
    BY DEF Requests
  <2> QED
    BY <2>1, <2>2, <2>3, <2>4 DEF FinInv, FinishKept
<1>3. ASSUME NEW s \in Students, NEW t \in Tabs, StudentCalls(s, t)
      PROVE  FinInv' /\ FinishKept
  <2>0. <<s, t>> \in Requests
    BY DEF Requests
  <2>1. CASE JoinRoom(s, t) \/ SubmitAnswer(s, t) \/ SubmitMyAnswer(s, t)
    BY <2>0, <2>1, FinQuiet DEF JoinRoom, SubmitAnswer, SubmitMyAnswer, Reads, storeVars
  <2>2. CASE LeaveRoom(s, t)
    BY <1>0, <2>2, FinRow DEF LeaveRoom, LeaveParticipant, Participant, FinInv
  <2> QED
    BY <1>3, <2>1, <2>2 DEF StudentCalls
<1>4. ASSUME NEW s \in Students, NEW t \in Tabs, StudentContinues(s, t)
      PROVE  FinInv' /\ FinishKept
  <2> DEFINE r == <<s, t>>
             p == pending[r]
  <2>0. r \in Requests /\ p \in Pending
    BY <1>0 DEF Requests
  <2>1. CASE Enter(s, t)
    <3>1. CASE AddParticipant(s)
      <4>1. ~part[s].fin
        BY <3>1 DEF AddParticipant, FinInv
      <4>2. \A x \in Requests : pending'[x] = pending[x] \/ pending'[x].op \in {"first_join", "idle", "rejoin"}
        BY <1>0, <2>1 DEF Enter, Reads, Then, Idle
      <4> QED
        BY <1>0, <3>1, <4>1, <4>2, FinRow DEF AddParticipant
    <3>2. CASE Reads(r, IF part[s].left THEN [op |-> "rejoin"] ELSE Idle)
      BY <2>0, <3>2, FinQuiet DEF Reads, storeVars, Idle
    <3> QED
      BY <2>1, <3>1, <3>2 DEF Enter
  <2>2. CASE FirstJoin(s, t)
    BY <2>0, <2>2, FinQuiet DEF FirstJoin, SetStatus, Tolerated, storeVars, Idle
  <2>3. CASE Rejoin(s, t)
    <3>1. CASE RejoinParticipant(s)
      <4>1. \A x \in Requests : pending'[x] = pending[x] \/ pending'[x].op = "idle"
        BY <1>0, <2>3 DEF Rejoin, Then, Idle
      <4> QED
        BY <1>0, <3>1, <4>1, FinRow DEF RejoinParticipant, Participant, FinInv
    <3>2. CASE UNCHANGED storeVars
      BY <2>0, <2>3, <3>2, FinQuiet DEF Rejoin, storeVars, Idle
    <3> QED
      BY <2>3, <3>1, <3>2 DEF Rejoin, Tolerated
  <2>4. CASE SaveAnswer(s, t)
    BY <2>0, <2>4, FinQuiet DEF SaveAnswer, InsertAnswer, Idle
  <2>5. CASE CheckMyAnswer(s, t)
    <3>1. CASE /\ part[s].joined /\ part[s].idx < Len(p.order) /\ p.op = "my_answer"
               /\ Reads(r, [op |-> "insert", mode |-> p.mode, q |-> p.order[part[s].idx + 1],
                            total |-> Len(p.order), round |-> p.round])
      <4>1. Len(p.order) \in Nat /\ Len(p.order) > 0
        BY <1>0, <2>0, <3>1, PendingFields
      <4>2. pending'[r].total > 0 /\ part' = part
        BY <1>0, <2>0, <3>1, <4>1 DEF Reads, Then, storeVars
      <4>3. \A x \in Requests : x # r => pending'[x] = pending[x]
        BY <1>0, <3>1 DEF Reads, Then
      <4>4. \A u \in Students, v \in Tabs : <<u, v>> \in Requests /\ (<<u, v>> = r => u = s)
        BY DEF Requests
      <4>5. FinishKept
        BY <4>2 DEF FinInv, FinishKept
      <4> QED
        BY <3>1, <4>2, <4>3, <4>4, <4>5 DEF FinInv
    <3>2. CASE Reads(r, [op |-> "delete"]) \/ Reads(r, Idle)
      BY <2>0, <3>2, FinQuiet DEF Reads, storeVars, Idle
    <3> QED
      BY <2>5, <3>1, <3>2 DEF CheckMyAnswer
  <2>6. CASE SaveMyAnswer(s, t)
    <3>1. part' = part /\ part[s].joined /\ p.total > 0
      BY <2>6 DEF SaveMyAnswer, InsertAnswer, FinInv
    <3>2. /\ pending'[r].total = p.total
          /\ \A x \in Requests : x # r => pending'[x] = pending[x]
      BY <1>0, <2>0, <2>6 DEF SaveMyAnswer, Then
    <3>3. \A u \in Students, v \in Tabs : <<u, v>> \in Requests /\ (<<u, v>> = r => u = s)
      BY DEF Requests
    <3>4. FinishKept
      BY <3>1 DEF FinInv, FinishKept
    <3> QED
      BY <3>1, <3>2, <3>3, <3>4 DEF FinInv
  <2>7. CASE Advance(s, t)
    <3>1. p.total \in Nat /\ p.total > 0 /\ part[s].joined
      BY <2>0, <2>7, PendingFields DEF Advance, FinInv
    <3>2. /\ part'[s].joined /\ part'[s].idx > 0
          /\ part[s].fin => part'[s].fin
          /\ \A u \in Students : u # s => part'[u] = part[u]
      BY <1>0, <2>7, <3>1 DEF Advance, AdvanceParticipant, Participant
    <3>3. \A x \in Requests : pending'[x] = pending[x] \/ pending'[x].op \in {"check", "idle"}
      BY <1>0, <2>7 DEF Advance, Then, Idle
    <3> QED
      BY <3>2, <3>3, FinRow
  <2>8. CASE DropAnswers(s, t)
    BY <2>0, <2>8, FinQuiet DEF DropAnswers, DeleteByParticipant, Tolerated, storeVars
  <2>9. CASE ResetProgress(s, t)
    <3>1. CASE part[s].fin
      BY <2>0, <2>9, <3>1, FinQuiet DEF ResetProgress, ResetParticipant, Idle
    <3>2. CASE ~part[s].fin
      <4>1. /\ part'[s].joined = part[s].joined /\ ~part'[s].fin
            /\ \A u \in Students : u # s => part'[u] = part[u]
        BY <1>0, <2>9, <3>2 DEF ResetProgress, ResetParticipant, Participant
      <4>2. \A x \in Requests : pending'[x] = pending[x] \/ pending'[x].op = "idle"
        BY <1>0, <2>9 DEF ResetProgress, Then, Idle
      <4> QED
        BY <3>2, <4>1, <4>2, FinRow
    <3> QED
      BY <3>1, <3>2
  <2>10. CASE CheckAllFinished(s, t)
    BY <2>0, <2>10, FinQuiet DEF CheckAllFinished, Reads, storeVars, Idle
  <2>11. CASE AutoFinish(s, t)
    BY <2>0, <2>11, FinQuiet DEF AutoFinish, SetStatus, Tolerated, storeVars, Announcing
  <2>12. CASE Announce(r)
    BY <2>0, <2>12, FinQuiet DEF Announce, Reads, storeVars, Idle
  <2> QED
    BY <1>4, <2>1, <2>2, <2>3, <2>4, <2>5, <2>6, <2>7, <2>8, <2>9, <2>10, <2>11, <2>12
    DEF StudentContinues
<1>5. ASSUME NEW r \in Requests, Abort(r)
      PROVE  FinInv' /\ FinishKept
  BY <1>5, FinQuiet DEF Abort, Reads, storeVars, Idle
<1>6. CASE AdminFinish \/ AdminDeleteAnswer \/ UNCHANGED vars
  BY <1>6 DEF AdminFinish, ForceFinish, AdminDeleteAnswer, DeleteAnswer, vars, FinInv, FinishKept
<1> QED
  BY <1>1, <1>2, <1>3, <1>4, <1>5, <1>6 DEF Next

(* A student who finished a round stays finished, and past the first        *)
(* question, until the round is restarted: a wrong answer of a race still   *)
(* in flight in another tab does not undo it, nor does a late join.         *)
THEOREM FinishedStaysFinished == Spec => FinishedForGood
<1>1. Init => FinInv
  <2>1. \A s \in Students, t \in Tabs : <<s, t>> \in Requests
    BY DEF Requests
  <2> QED
    BY <2>1 DEF Init, StoreInit, FinInv, Idle
<1> QED
  BY <1>1, FinStep, TypeCorrect, PTL DEF Spec, FinishedForGood
=============================================================================
