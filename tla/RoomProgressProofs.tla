------------------------- MODULE RoomProgressProofs -------------------------
(***************************************************************************)
(* Theorems about RoomSession for every set of students, questions, banks, *)
(* requests and endpoints: the order in which the questions are asked, and *)
(* the progress of a student against the answers on record.                *)
(***************************************************************************)
EXTENDS RoomSessionProofs

-----------------------------------------------------------------------------
(* Sequences *)

(* A prefix, element by element.                                            *)
LEMMA PrefixIfElements ==
  ASSUME NEW u \in Seq(Questions), NEW v \in Seq(Questions), Len(u) <= Len(v),
         \A i \in 1 .. Len(u) : u[i] = v[i]
  PROVE  IsPrefix(u, v)
<1>1. /\ SubSeq(u, 1, Len(u)) \in Seq(Questions) /\ SubSeq(v, 1, Len(u)) \in Seq(Questions)
      /\ Len(SubSeq(u, 1, Len(u))) = Len(u) /\ Len(SubSeq(v, 1, Len(u))) = Len(u)
      /\ \A i \in 1 .. Len(u) : /\ SubSeq(u, 1, Len(u))[i] = u[i]
                                /\ SubSeq(v, 1, Len(u))[i] = v[i]
  OBVIOUS
<1>2. SubSeq(u, 1, Len(u)) = SubSeq(v, 1, Len(u))
  BY <1>1
<1> QED
  BY <1>2 DEF IsPrefix

(* A prefix has the elements of what it is a prefix of.                     *)
LEMMA PrefixHasElements ==
  ASSUME NEW u \in Seq(Questions), NEW v \in Seq(Questions), IsPrefix(u, v)
  PROVE  Len(u) <= Len(v) /\ \A i \in 1 .. Len(u) : u[i] = v[i]
<1>1. Len(u) <= Len(v) /\ SubSeq(u, 1, Len(u)) = SubSeq(v, 1, Len(u))
  BY DEF IsPrefix
<1>2. ASSUME NEW i \in 1 .. Len(u)
      PROVE  SubSeq(u, 1, Len(u))[i] = u[i] /\ SubSeq(v, 1, Len(u))[i] = v[i]
  BY <1>1
<1> QED
  BY <1>1, <1>2

(* Appending to the longer one keeps a prefix.                              *)
LEMMA PrefixOfLonger ==
  ASSUME NEW u \in Seq(Questions), NEW v \in Seq(Questions), NEW q \in Questions, IsPrefix(u, v)
  PROVE  IsPrefix(u, Append(v, q))
<1>1. /\ Append(v, q) \in Seq(Questions) /\ Len(Append(v, q)) = Len(v) + 1
      /\ \A i \in 1 .. Len(v) : Append(v, q)[i] = v[i]
  OBVIOUS
<1>2. Len(u) <= Len(v) /\ \A i \in 1 .. Len(u) : u[i] = v[i]
  BY PrefixHasElements
<1>3. Len(u) <= Len(Append(v, q)) /\ \A i \in 1 .. Len(u) : u[i] = Append(v, q)[i]
  BY <1>1, <1>2
<1> QED
  BY <1>1, <1>3, PrefixIfElements

(* The elements of a longer sequence.                                       *)
LEMMA AppendElements ==
  ASSUME NEW v \in Seq(Questions), NEW q \in Questions
  PROVE  ToSet(Append(v, q)) = ToSet(v) \cup {q}
<1>1. /\ DOMAIN Append(v, q) = 1 .. Len(v) + 1 /\ DOMAIN v = 1 .. Len(v) /\ Len(v) \in Nat
      /\ Append(v, q)[Len(v) + 1] = q
      /\ \A i \in 1 .. Len(v) : Append(v, q)[i] = v[i]
  OBVIOUS
<1> QED
  BY <1>1 DEF ToSet

(* pickNext takes the question after the ones already asked, when those are *)
(* the first of a queue that has no question twice.                         *)
LEMMA NextInQueue ==
  ASSUME NEW order \in Seq(Questions), NEW asked \in Seq(Questions),
         IsInjective(order), IsPrefix(asked, order),
         NEW i \in Unasked(order, asked), \A j \in Unasked(order, asked) : i <= j
  PROVE  IsPrefix(Append(asked, order[i]), order)
<1> DEFINE n == Len(asked)
<1>1. /\ n \in Nat /\ Len(order) \in Nat /\ n <= Len(order)
      /\ DOMAIN order = 1 .. Len(order) /\ DOMAIN asked = 1 .. n
      /\ \A k \in 1 .. n : asked[k] = order[k]
      /\ i \in 1 .. Len(order) /\ order[i] \in Questions
  BY PrefixHasElements DEF Unasked
<1>2. order[i] \notin ToSet(asked)
  BY DEF Unasked
<1>3. i > n
  BY <1>1, <1>2 DEF ToSet
<1>4. n + 1 \in Unasked(order, asked)
  <2>1. n + 1 \in 1 .. Len(order)
    BY <1>1, <1>3
  <2>2. ASSUME NEW k \in 1 .. n
        PROVE  order[n + 1] # asked[k]
    BY <1>1, <2>1 DEF IsInjective
  <2> QED
    BY <1>1, <2>1, <2>2 DEF Unasked, ToSet
<1>5. i = n + 1
  BY <1>1, <1>3, <1>4
<1>6. /\ Append(asked, order[i]) \in Seq(Questions) /\ Len(Append(asked, order[i])) = n + 1
      /\ Append(asked, order[i])[n + 1] = order[i]
      /\ \A k \in 1 .. n : Append(asked, order[i])[k] = asked[k]
  BY <1>1
<1>7. \A k \in 1 .. n + 1 : Append(asked, order[i])[k] = order[k]
  BY <1>1, <1>5, <1>6
<1>8. Len(Append(asked, order[i])) <= Len(order)
  BY <1>1, <1>3, <1>6
<1>9. \A k \in 1 .. Len(Append(asked, order[i])) : Append(asked, order[i])[k] = order[k]
  BY <1>6, <1>7
<1> QED
  BY <1>6, <1>8, <1>9, PrefixIfElements

-----------------------------------------------------------------------------
(* AskedInOrder *)

Stored == UNION {bank[b] : b \in Banks}

(* Until a restart the queue has no question twice: what it holds and what  *)
(* is about to be appended are different questions of the banks.            *)
QueueInv ==
  /\ IsInjective(room.order)
  /\ ToSet(room.order) \subseteq Stored
  /\ \A r \in Requests : pending[r].op = "enqueue" => pending[r].q \in Stored \ ToSet(room.order)
  /\ \A r, r2 \in Requests :
       pending[r].op = "enqueue" /\ pending[r2].op = "enqueue" /\ pending[r].q = pending[r2].q
         => r = r2

(* Whatever was asked, and whatever a request is about to have asked, is    *)
(* the beginning of the queue.                                              *)
PrefixInv ==
  /\ IsPrefix(room.asked, room.order)
  /\ \A r \in Requests : pending[r].op = "activate" => IsPrefix(pending[r].asked, room.order)

OrderInv == round = 0 => QueueInv /\ PrefixInv

(* A request goes on with another kind of statement, and neither the room's *)
(* lists nor the banks change.                                              *)
LEMMA OrderQuiet ==
  ASSUME TypeOK, OrderInv, NEW r \in Requests, NEW p, Then(r, p), p.op \notin {"activate", "enqueue"},
         room'.order = room.order, room'.asked = room.asked, bank' = bank, round' = round
  PROVE  OrderInv'
<1> SUFFICES ASSUME round = 0 PROVE QueueInv' /\ PrefixInv'
  BY DEF OrderInv
<1>1. QueueInv /\ PrefixInv
  BY DEF OrderInv
<1>2. \A r2 \in Requests : pending'[r2] = pending[r2] \/ pending'[r2].op \notin {"activate", "enqueue"}
  BY DEF TypeOK, Then
<1>3. QueueInv'
  BY <1>1, <1>2 DEF QueueInv, Stored
<1>4. PrefixInv'
  BY <1>1, <1>2 DEF PrefixInv
<1> QED
  BY <1>3, <1>4

(* No request and none of those columns change.                             *)
LEMMA OrderStill ==
  ASSUME OrderInv, pending' = pending,
         room'.order = room.order, room'.asked = room.asked, bank' = bank, round' = round
  PROVE  OrderInv'
  BY DEF OrderInv, QueueInv, PrefixInv, Stored

(* The statements that leave the queue, the list of asked questions, the    *)
(* banks and the round alone.                                               *)
LEMMA OrderKept ==
  ASSUME TypeOK
  PROVE  /\ \A from, to : SetStatus(from, to) =>
              room'.order = room.order /\ room'.asked = room.asked /\ bank' = bank /\ round' = round
         /\ ForceFinish =>
              room'.order = room.order /\ room'.asked = room.asked /\ bank' = bank /\ round' = round
  BY DEF TypeOK, StoreTypeOK, Room, SetStatus, ForceFinish


(* Every action keeps it.  The decisions are taken on one snapshot, and the *)
(* queue only grows at its end; a question is appended by the one request   *)
(* that inserted it, and until then it is in nobody's hands.                *)
LEMMA OrderStep == TypeOK /\ OrderInv /\ [Next]_vars => OrderInv'
<1> SUFFICES ASSUME TypeOK, OrderInv, [Next]_vars PROVE OrderInv'
  OBVIOUS
<1>0. /\ room \in Room /\ room.order \in Seq(Questions) /\ room.asked \in Seq(Questions)
      /\ pending \in [Requests -> Pending] /\ round \in Nat /\ bank \in [Banks -> SUBSET Questions]
  BY DEF TypeOK, StoreTypeOK, Room
<1>1. ASSUME NEW h \in HostReqs, HostCalls(h)
      PROVE  OrderInv'
  <2>0. h \in Requests
    BY DEF Requests
  <2>1. ASSUME NEW q, NEW asked, NEW by, IsPrefix(asked, room.order) \/ round # 0,
               Reads(h, [op |-> "activate", by |-> by, q |-> q, asked |-> asked])
        PROVE  OrderInv'
    <3> SUFFICES ASSUME round = 0 PROVE QueueInv' /\ PrefixInv'
      BY <2>1 DEF OrderInv, Reads, storeVars
    <3>1. QueueInv /\ PrefixInv /\ room' = room /\ bank' = bank
      BY <2>1 DEF OrderInv, Reads, storeVars
    <3>2. \A r \in Requests :
            \/ pending'[r] = pending[r]
            \/ pending'[r].op = "activate" /\ pending'[r].asked = asked
      BY <1>0, <2>1 DEF Reads, Then
    <3>3. QueueInv'
      BY <3>1, <3>2 DEF QueueInv, Stored
    <3>4. PrefixInv'
      BY <2>1, <3>1, <3>2 DEF PrefixInv
    <3> QED
      BY <3>3, <3>4
  <2>2. CASE StartRoom(h)
    <3>1. CASE Reads(h, [op |-> "start", from |-> room.status])
      BY <2>0, <3>1, OrderQuiet DEF Reads, storeVars
    <3>2. CASE /\ room.order # <<>>
               /\ Reads(h, [op |-> "activate", by |-> "start",
                            q |-> Head(room.order), asked |-> <<Head(room.order)>>])
      <4>1. /\ <<Head(room.order)>> \in Seq(Questions) /\ Len(<<Head(room.order)>>) = 1
            /\ <<Head(room.order)>>[1] = room.order[1] /\ Len(room.order) >= 1
        BY <1>0, <3>2
      <4>2. IsPrefix(<<Head(room.order)>>, room.order)
        <5> DEFINE first == <<Head(room.order)>>
        <5>1. first \in Seq(Questions) /\ Len(first) <= Len(room.order)
          BY <4>1
        <5>2. \A i \in 1 .. Len(first) : first[i] = room.order[i]
          BY <4>1
        <5> HIDE DEF first
        <5>3. IsPrefix(first, room.order)
          BY <1>0, <5>1, <5>2, PrefixIfElements
        <5> QED
          BY <5>3 DEF first
      <4> QED
        BY <2>1, <3>2, <4>2
    <3> QED
      BY <2>2, <3>1, <3>2 DEF StartRoom
  <2>3. CASE NextQuestion(h)
    <3>1. CASE Reads(h, [op |-> "finish", from |-> room.status])
      BY <2>0, <3>1, OrderQuiet DEF Reads, storeVars
    <3>2. ASSUME NEW i \in Unasked(room.order, room.asked),
                 \A j \in Unasked(room.order, room.asked) : i <= j,
                 Reads(h, [op |-> "activate", by |-> "next", q |-> room.order[i],
                           asked |-> Append(room.asked, room.order[i])])
          PROVE  OrderInv'
      <4>1. round = 0 => IsPrefix(Append(room.asked, room.order[i]), room.order)
        BY <1>0, <3>2, NextInQueue DEF OrderInv, QueueInv, PrefixInv
      <4> QED
        BY <2>1, <3>2, <4>1
    <3> QED
      BY <2>3, <3>1, <3>2 DEF NextQuestion
  <2>4. CASE FinishRoom(h) \/ ReviewQuestion(h)
    BY <2>0, <2>4, OrderQuiet DEF FinishRoom, ReviewQuestion, Reads, storeVars
  <2>5. CASE RestartRoom(h) \/ AppendQuestion(h)
    BY <2>0, <2>5, OrderQuiet DEF RestartRoom, AppendQuestion, Reads, storeVars
  <2> QED
    BY <1>1, <2>2, <2>3, <2>4, <2>5 DEF HostCalls
<1>2. ASSUME NEW h \in HostReqs, HostContinues(h)
      PROVE  OrderInv'
  <2>0. h \in Requests /\ pending[h] \in Pending
    BY <1>0 DEF Requests
  <2>1. CASE StartSolo(h) \/ CloseRoom(h) \/ ShowReview(h)
    BY <2>0, <2>1, OrderKept, OrderQuiet DEF StartSolo, CloseRoom, ShowReview, Announcing
  <2>2. CASE ActivateQuestion(h)
    <3>1. SUFFICES ASSUME round = 0 PROVE QueueInv' /\ PrefixInv'
      BY <2>2 DEF OrderInv, ActivateQuestion, SetCurrentQuestion
    <3>2. QueueInv /\ PrefixInv
      BY <3>1 DEF OrderInv
    <3>3. room'.order = room.order /\ room'.asked = pending[h].asked /\ bank' = bank
      BY <1>0, <2>2 DEF ActivateQuestion, SetCurrentQuestion, Room
    <3>4. \A r \in Requests : pending'[r] = pending[r] \/ pending'[r].op = "announce"
      BY <1>0, <2>2 DEF ActivateQuestion, Then, Announcing
    <3>5. QueueInv'
      BY <3>2, <3>3, <3>4 DEF QueueInv, Stored
    <3>6. PrefixInv'
      BY <2>0, <2>2, <3>2, <3>3, <3>4 DEF PrefixInv, ActivateQuestion
    <3> QED
      BY <3>5, <3>6
  <2>3. CASE ListBank(h)
    BY <2>0, <2>3, OrderQuiet DEF ListBank, Reads, storeVars, Idle
  <2>4. CASE CommitRestart(h)
    <3>1. round' = round + 1
      BY <2>4, Zenon DEF CommitRestart, RestartTx
    <3>2. round' # 0
      BY <1>0, <3>1
    <3> QED
      BY <3>2 DEF OrderInv
  <2>5. CASE CreateQuestion(h)
    <3>1. SUFFICES ASSUME round = 0 PROVE QueueInv' /\ PrefixInv'
      BY <2>5 DEF OrderInv, CreateQuestion, InsertQuestion
    <3>2. QueueInv /\ PrefixInv
      BY <3>1 DEF OrderInv
    <3>3. pending[h].bank \in Banks
      BY <2>0, <2>5, PendingFields DEF CreateQuestion
    <3>4. PICK q \in Questions : InsertQuestion(pending[h].bank, q) /\ Then(h, [op |-> "enqueue", q |-> q])
      BY <2>5 DEF CreateQuestion
    <3>5. q \notin Stored /\ room' = room
      BY <3>4 DEF InsertQuestion, Stored
    <3>6. Stored \subseteq Stored' /\ q \in Stored'
      BY <1>0, <3>3, <3>4 DEF InsertQuestion, Stored
    <3>7. /\ pending'[h] = [op |-> "enqueue", q |-> q]
          /\ \A r \in Requests : r # h => pending'[r] = pending[r]
      BY <1>0, <2>0, <3>4 DEF Then
    <3>8. QueueInv'
      <4>1. IsInjective(room'.order) /\ ToSet(room'.order) \subseteq Stored'
        BY <3>2, <3>5, <3>6 DEF QueueInv
      <4>2. \A r \in Requests :
              pending'[r].op = "enqueue" => pending'[r].q \in Stored' \ ToSet(room'.order)
        BY <3>2, <3>5, <3>6, <3>7 DEF QueueInv
      <4>3. \A r, r2 \in Requests :
              pending'[r].op = "enqueue" /\ pending'[r2].op = "enqueue" /\ pending'[r].q = pending'[r2].q
                => r = r2
        BY <3>2, <3>5, <3>7 DEF QueueInv
      <4> QED
        BY <4>1, <4>2, <4>3 DEF QueueInv
    <3>9. PrefixInv'
      BY <3>2, <3>5, <3>7 DEF PrefixInv
    <3> QED
      BY <3>8, <3>9
  <2>6. CASE EnqueueQuestion(h)
    <3>1. SUFFICES ASSUME round = 0 PROVE QueueInv' /\ PrefixInv'
      BY <2>6 DEF OrderInv, EnqueueQuestion, AppendQuestionToOrder
    <3> DEFINE q == pending[h].q
    <3>2. QueueInv /\ PrefixInv
      BY <3>1 DEF OrderInv
    <3>3. q \in Questions /\ q \in Stored /\ q \notin ToSet(room.order)
      BY <2>0, <2>6, <3>2, PendingFields DEF EnqueueQuestion, QueueInv
    <3>4. room'.order = Append(room.order, q) /\ room'.asked = room.asked /\ bank' = bank
      BY <1>0, <2>6 DEF EnqueueQuestion, AppendQuestionToOrder, Room
    <3>5. /\ pending'[h] = Idle
          /\ \A r \in Requests : r # h => pending'[r] = pending[r]
      BY <1>0, <2>0, <2>6 DEF EnqueueQuestion, Then
    <3>6. IsInjective(room'.order) /\ ToSet(room'.order) = ToSet(room.order) \cup {q}
      BY <1>0, <3>2, <3>3, <3>4, AppendConsistent, AppendElements DEF QueueInv, Consistent
    <3>7. QueueInv'
      <4>1. ToSet(room'.order) \subseteq Stored'
        BY <3>2, <3>3, <3>4, <3>6 DEF QueueInv, Stored
      <4>2. \A r \in Requests :
              pending'[r].op = "enqueue" => pending'[r].q \in Stored' \ ToSet(room'.order)
        BY <2>0, <2>6, <3>2, <3>4, <3>5, <3>6 DEF QueueInv, Stored, EnqueueQuestion, Idle
      <4>3. \A r, r2 \in Requests :
              pending'[r].op = "enqueue" /\ pending'[r2].op = "enqueue" /\ pending'[r].q = pending'[r2].q
                => r = r2
        BY <3>2, <3>5 DEF QueueInv, Idle
      <4> QED
        BY <3>6, <4>1, <4>2, <4>3 DEF QueueInv
    <3>8. PrefixInv'
      <4>1. IsPrefix(room'.asked, room'.order)
        BY <1>0, <3>2, <3>3, <3>4, PrefixOfLonger DEF PrefixInv
      <4>2. ASSUME NEW r \in Requests, pending'[r].op = "activate"
            PROVE  IsPrefix(pending'[r].asked, room'.order)
        <5>1. pending'[r] = pending[r]
          BY <3>5, <4>2 DEF Idle
        <5>2. pending[r].asked \in Seq(Questions) /\ IsPrefix(pending[r].asked, room.order)
          BY <1>0, <3>2, <4>2, <5>1, PendingFields DEF PrefixInv
        <5> QED
          BY <1>0, <3>3, <3>4, <5>1, <5>2, PrefixOfLonger
      <4> QED
        BY <4>1, <4>2 DEF PrefixInv
    <3> QED
      BY <3>7, <3>8
  <2>7. CASE Announce(h)
    BY <2>0, <2>7, OrderQuiet DEF Announce, Reads, storeVars, Idle
  <2> QED
    BY <1>2, <2>1, <2>2, <2>3, <2>4, <2>5, <2>6, <2>7 DEF HostContinues
<1>3. ASSUME NEW s \in Students, NEW t \in Tabs, StudentCalls(s, t)
      PROVE  OrderInv'
  <2>0. <<s, t>> \in Requests
    BY DEF Requests
  <2>1. CASE JoinRoom(s, t) \/ SubmitAnswer(s, t) \/ SubmitMyAnswer(s, t)
    BY <2>0, <2>1, OrderQuiet DEF JoinRoom, SubmitAnswer, SubmitMyAnswer, Reads, storeVars
  <2>2. CASE LeaveRoom(s, t)
    BY <2>2, OrderStill DEF LeaveRoom, LeaveParticipant
  <2> QED
    BY <1>3, <2>1, <2>2 DEF StudentCalls
<1>4. ASSUME NEW s \in Students, NEW t \in Tabs, StudentContinues(s, t)
      PROVE  OrderInv'
  <2>0. <<s, t>> \in Requests
    BY DEF Requests
  <2>1. CASE Enter(s, t)
    BY <2>0, <2>1, OrderQuiet DEF Enter, AddParticipant, Reads, storeVars, Idle
  <2>2. CASE FirstJoin(s, t)
    BY <2>0, <2>2, OrderKept, OrderQuiet DEF FirstJoin, Tolerated, storeVars, Idle
  <2>3. CASE Rejoin(s, t)
    BY <2>0, <2>3, OrderQuiet DEF Rejoin, RejoinParticipant, Tolerated, storeVars, Idle
  <2>4. CASE SaveAnswer(s, t)
    BY <2>0, <2>4, OrderQuiet DEF SaveAnswer, InsertAnswer, Idle
  <2>5. CASE CheckMyAnswer(s, t)
    BY <2>0, <2>5, OrderQuiet DEF CheckMyAnswer, Reads, storeVars, Idle
  <2>6. CASE SaveMyAnswer(s, t)
    BY <2>0, <2>6, OrderQuiet DEF SaveMyAnswer, InsertAnswer
  <2>7. CASE Advance(s, t)
    BY <2>0, <2>7, OrderQuiet DEF Advance, AdvanceParticipant, Idle
  <2>8. CASE DropAnswers(s, t)
    BY <2>0, <2>8, OrderQuiet DEF DropAnswers, DeleteByParticipant, Tolerated, storeVars
  <2>9. CASE ResetProgress(s, t)
    BY <2>0, <2>9, OrderQuiet DEF ResetProgress, ResetParticipant, Idle
  <2>10. CASE CheckAllFinished(s, t)
    BY <2>0, <2>10, OrderQuiet DEF CheckAllFinished, Reads, storeVars, Idle
  <2>11. CASE AutoFinish(s, t)
    BY <2>0, <2>11, OrderKept, OrderQuiet DEF AutoFinish, Announcing, Tolerated, storeVars
  <2>12. CASE Announce(<<s, t>>)
    BY <2>0, <2>12, OrderQuiet DEF Announce, Reads, storeVars, Idle
  <2> QED
    BY <1>4, <2>1, <2>2, <2>3, <2>4, <2>5, <2>6, <2>7, <2>8, <2>9, <2>10, <2>11, <2>12
    DEF StudentContinues
<1>5. ASSUME NEW r \in Requests, Abort(r)
      PROVE  OrderInv'
  BY <1>5, OrderQuiet DEF Abort, Reads, storeVars, Idle
<1>6. CASE AdminFinish
  BY <1>6, OrderKept, OrderStill DEF AdminFinish
<1>7. CASE AdminDeleteAnswer
  BY <1>7, OrderStill DEF AdminDeleteAnswer, DeleteAnswer
<1>8. CASE UNCHANGED vars
  BY <1>8, OrderStill DEF vars
<1> QED
  BY <1>1, <1>2, <1>3, <1>4, <1>5, <1>6, <1>7, <1>8 DEF Next

(* Until the first restart the questions are asked in the order of the      *)
(* queue, and none is passed over: not by two presses of "next" at once, a  *)
(* second start, or an append between the reading of the queue and the      *)
(* writing of the question.                                                 *)
THEOREM AskedInOrderHolds == Spec => []AskedInOrder
<1>1. Init => OrderInv
  <2> SUFFICES ASSUME Init PROVE QueueInv /\ PrefixInv
    BY DEF OrderInv
  <2>1. PICK b \in Banks : \E m \in Modes : \E o \in Orderings(InitialBank[b]) :
          room = [status |-> "created", mode |-> m, bank |-> b, order |-> o,
                  asked |-> <<>>, current |-> NoQuestion, started |-> FALSE, ended |-> FALSE]
    BY DEF Init, StoreInit
  <2>2. PICK o \in Orderings(InitialBank[b]) : room.order = o /\ room.asked = <<>>
    BY <2>1
  <2>3. InitialBank[b] \in SUBSET Questions /\ bank = InitialBank
    BY StoreAssumption DEF StoreAssumption, Init, StoreInit
  <2>4. o \in Seq(Questions) /\ IsInjective(o)
    BY <2>3, OrderingIsSeq
  <2>5. ToSet(o) \subseteq InitialBank[b]
    BY DEF ToSet, Orderings
  <2>6. \A r \in Requests : pending[r].op = "idle"
    BY DEF Init, Idle
  <2>7. IsPrefix(<<>>, o)
    <3> DEFINE none == <<>>
    <3>1. none \in Seq(Questions) /\ Len(none) = 0
      OBVIOUS
    <3> HIDE DEF none
    <3>2. Len(none) <= Len(o) /\ \A i \in 1 .. Len(none) : none[i] = o[i]
      BY <2>4, <3>1
    <3>3. IsPrefix(none, o)
      BY <2>4, <3>1, <3>2, PrefixIfElements
    <3> QED
      BY <3>3 DEF none
  <2> QED
    BY <2>2, <2>3, <2>4, <2>5, <2>6, <2>7 DEF QueueInv, PrefixInv, Stored
<1>2. OrderInv => AskedInOrder
  BY DEF OrderInv, PrefixInv, AskedInOrder
<1> QED
  BY <1>1, <1>2, OrderStep, TypeCorrect, PTL DEF Spec

-----------------------------------------------------------------------------
(* AnswersMatchProgress *)

(* What AnswersMatchProgress takes: students with one tab each, no restart, *)
(* nobody who answers the question of the room or deletes answers, and a    *)
(* wrong answer of a race whose two statements both happen.  The runs       *)
(* v_double_submit and v_restart_answer show what the first two are for.    *)
Undisturbed ==
  /\ \E t : Tabs = {t}
  /\ MaxRestarts = 0
  /\ Endpoints \cap {"answer", "delete_answer"} = {}
  /\ Fallible \cap {"delete", "reset"} = {}

(* The answer to the question at the student's index is on record, and the  *)
(* index not moved yet.                                                     *)
OneAhead(s) ==
  /\ part[s].idx < Len(room.order)
  /\ Answered(s) = Passed(s) \cup {room.order[part[s].idx + 1]}

(* The snapshot of a request agrees with the row of its student, which only *)
(* that request can move; the queue may have grown meanwhile.               *)
SnapshotInv(s, p) ==
  /\ p.op = "my_answer" => IsPrefix(p.order, room.order)
  /\ p.op \in {"insert", "advance"} => part[s].idx < p.total /\ p.total <= Len(room.order)
  /\ p.op = "insert" => p.q = room.order[part[s].idx + 1]
  /\ p.op = "advance" => OneAhead(s)
  /\ p.op \in {"insert", "advance", "delete", "reset"} => part[s].joined /\ ~part[s].fin

(* The answers of a student against the index.                              *)
AnswersInv(s, p) ==
  /\ part[s].idx <= Len(room.order)
  /\ p.op = "reset" => Answered(s) = {}
  /\ p.op # "reset" => Answered(s) = Passed(s) \/ OneAhead(s)
  /\ ~part[s].joined => part[s].idx = 0 /\ Answered(s) = {}

Pace(s, t) == SnapshotInv(s, pending[<<s, t>>]) /\ AnswersInv(s, pending[<<s, t>>])

PaceInv ==
  /\ round = 0
  /\ \A r \in Requests : pending[r].op \notin {"list_bank", "restart", "answer"}
  /\ \A s \in Students, t \in Tabs : Pace(s, t)

(* The statements a request is left with that say nothing of the progress.  *)
Indifferent == {"idle", "first_join", "rejoin", "join", "check", "auto_finish", "announce"}

(* A queue that stays or gets one question more.                            *)
Grown == room'.order = room.order \/ \E q \in Questions : room'.order = Append(room.order, q)

(* ... keeps its questions at their places.                                 *)
LEMMA GrownKeeps ==
  ASSUME TypeOK, Grown
  PROVE  /\ room.order \in Seq(Questions) /\ room'.order \in Seq(Questions)
         /\ Len(room.order) \in Nat /\ Len(room'.order) \in Nat
         /\ Len(room.order) <= Len(room'.order)
         /\ \A i \in 1 .. Len(room.order) : room'.order[i] = room.order[i]
<1>1. room.order \in Seq(Questions)
  BY DEF TypeOK, StoreTypeOK, Room
<1>2. ASSUME NEW q \in Questions, room'.order = Append(room.order, q)
      PROVE  /\ room'.order \in Seq(Questions) /\ Len(room'.order) = Len(room.order) + 1
             /\ \A i \in 1 .. Len(room.order) : room'.order[i] = room.order[i]
  BY <1>1, <1>2
<1>3. CASE room'.order = room.order
  BY <1>1, <1>3
<1>4. CASE \E q \in Questions : room'.order = Append(room.order, q)
  BY <1>1, <1>2, <1>4
<1> QED
  BY <1>3, <1>4 DEF Grown

(* A student whose row and answers stay, and whose request stays or is left *)
(* with an indifferent statement after one other than the reset, keeps pace.*)
LEMMA PaceKept ==
  ASSUME TypeOK, Grown, NEW s \in Students, NEW t \in Tabs, Pace(s, t),
         part'[s].joined = part[s].joined, part'[s].fin = part[s].fin, part'[s].idx = part[s].idx,
         Answered(s)' = Answered(s),
         \/ pending'[<<s, t>>] = pending[<<s, t>>]
         \/ pending[<<s, t>>].op # "reset" /\ pending'[<<s, t>>].op \in Indifferent
  PROVE  Pace(s, t)'
<1> DEFINE p == pending[<<s, t>>]
           i == part[s].idx
<1>1. /\ room.order \in Seq(Questions) /\ room'.order \in Seq(Questions)
      /\ Len(room.order) \in Nat /\ Len(room'.order) \in Nat
      /\ Len(room.order) <= Len(room'.order)
      /\ \A k \in 1 .. Len(room.order) : room'.order[k] = room.order[k]
  BY GrownKeeps
<1>2. i \in Nat /\ i <= Len(room.order) /\ p \in Pending
  BY DEF TypeOK, StoreTypeOK, Participant, Pace, AnswersInv, Requests
<1>3. Passed(s)' = Passed(s)
  <2>1. \A k \in 1 .. i : room'.order[k] = room.order[k]
    BY <1>1, <1>2
  <2> QED
    BY <2>1 DEF Passed
<1>4. ASSUME i < Len(room.order)
      PROVE  room'.order[i + 1] = room.order[i + 1] /\ i < Len(room'.order)
  <2>1. i + 1 \in 1 .. Len(room.order) /\ i < Len(room'.order)
    BY <1>1, <1>2, <1>4
  <2> QED
    BY <1>1, <2>1
<1>5. OneAhead(s) => OneAhead(s)'
  BY <1>3, <1>4 DEF OneAhead
<1>6. AnswersInv(s, p)'
  <2>1. /\ p.op = "reset" => Answered(s) = {}
        /\ p.op # "reset" => Answered(s) = Passed(s) \/ OneAhead(s)
        /\ ~part[s].joined => i = 0 /\ Answered(s) = {}
    BY DEF Pace, AnswersInv
  <2>2. /\ p'.op = "reset" => p.op = "reset"
        /\ p'.op # "reset" => p.op # "reset"
    BY DEF Indifferent
  <2>3. part[s].idx <= Len(room'.order)
    BY <1>1, <1>2
  <2> QED
    BY <1>3, <1>5, <2>1, <2>2, <2>3 DEF AnswersInv
<1>7. SnapshotInv(s, p)'
  <2>1. CASE p' = p
    <3>0. SnapshotInv(s, p)
      BY DEF Pace
    <3>1. p.op = "my_answer" => IsPrefix(p.order, room'.order)
      <4> SUFFICES ASSUME p.op = "my_answer" PROVE IsPrefix(p.order, room'.order)
        OBVIOUS
      <4>1. p.order \in Seq(Questions)
        BY <1>2, PendingFields
      <4>2. IsPrefix(p.order, room.order)
        BY <3>0 DEF SnapshotInv
      <4> QED
        BY <1>1, <4>1, <4>2, PrefixOfLonger DEF Grown
    <3>2. p.op \in {"insert", "advance"} => i < p.total /\ p.total <= Len(room'.order) /\ i < Len(room.order)
      <4>1. p.op \in {"insert", "advance"} => p.total \in Nat
        BY <1>2, PendingFields
      <4> QED
        BY <1>1, <1>2, <3>0, <4>1 DEF SnapshotInv
    <3>3. p.op = "insert" => p.q = room'.order[i + 1]
      BY <1>4, <3>0, <3>2 DEF SnapshotInv
    <3> QED
      BY <1>5, <2>1, <3>0, <3>1, <3>2, <3>3 DEF SnapshotInv
  <2>2. CASE p'.op \in Indifferent
    BY <2>2 DEF SnapshotInv, Indifferent
  <2> QED
    BY <2>1, <2>2
<1> QED
  BY <1>6, <1>7 DEF Pace

(* A step of one request r that leaves it with a statement of the same kind *)
(* as those above and touches neither participants nor answers.             *)
LEMMA PaceQuiet ==
  ASSUME TypeOK, PaceInv, NEW r \in Requests, NEW p, Then(r, p), Grown,
         pending[r].op # "reset", p.op \in Indifferent \/ r \in HostReqs,
         p.op \notin {"list_bank", "restart", "answer"},
         part' = part, answers' = answers, round' = round
  PROVE  PaceInv'
<1>1. /\ pending'[r] = p /\ \A x \in Requests : x # r => pending'[x] = pending[x]
  BY DEF TypeOK, Then
<1>2. ASSUME NEW s \in Students, NEW t \in Tabs
      PROVE  Pace(s, t)'
  <2>1. <<s, t>> \in Requests /\ <<s, t>> \notin HostReqs
    BY SessionAssumption DEF SessionAssumption, Requests
  <2>2. Answered(s)' = Answered(s) /\ part'[s] = part[s]
    BY DEF Answered
  <2>3. \/ pending'[<<s, t>>] = pending[<<s, t>>]
        \/ pending[<<s, t>>].op # "reset" /\ pending'[<<s, t>>].op \in Indifferent
    BY <1>1, <2>1
  <2> QED
    BY <2>2, <2>3, PaceKept DEF PaceInv
<1> QED
  BY <1>1, <1>2 DEF PaceInv

(* A step of student s, by its only tab, which keeps pace itself: the other *)
(* students are not concerned.                                              *)
LEMMA PaceOthers ==
  ASSUME TypeOK, PaceInv, NEW s \in Students, NEW t \in Tabs, NEW p, Then(<<s, t>>, p),
         \A u \in Tabs : u = t, Pace(s, t)', p.op \notin {"list_bank", "restart", "answer"},
         room'.order = room.order, round' = round,
         \A u \in Students : u # s => part'[u] = part[u] /\ Answered(u)' = Answered(u)
  PROVE  PaceInv'
<1>1. <<s, t>> \in Requests
  BY DEF Requests
<1>2. /\ pending'[<<s, t>>] = p
      /\ \A x \in Requests : x # <<s, t>> => pending'[x] = pending[x]
  BY <1>1 DEF TypeOK, Then
<1>3. ASSUME NEW u \in Students, NEW v \in Tabs
      PROVE  Pace(u, v)'
  <2>1. CASE u = s
    BY <2>1
  <2>2. CASE u # s
    <3>1. pending'[<<u, v>>] = pending[<<u, v>>]
      <4>1. <<u, v>> \in Requests /\ <<u, v>> # <<s, t>>
        BY <2>2 DEF Requests
      <4> QED
        BY <1>2, <4>1
    <3> QED
      BY <2>2, <3>1, PaceKept DEF PaceInv, Grown
  <2> QED
    BY <2>1, <2>2
<1> QED
  BY <1>2, <1>3 DEF PaceInv

(* A step of no request.                                                    *)
LEMMA PaceStill ==
  ASSUME TypeOK, PaceInv, Grown, pending' = pending, part' = part, answers' = answers, round' = round
  PROVE  PaceInv'
<1>1. ASSUME NEW s \in Students, NEW t \in Tabs
      PROVE  Pace(s, t)'
  BY PaceKept DEF PaceInv, Answered
<1> QED
  BY <1>1 DEF PaceInv

(* What the statements on answers make of the answers on record.            *)
LEMMA AnsweredAfter ==
  ASSUME TypeOK, NEW s \in Students
  PROVE  /\ \A q \in Questions, n \in Nat : InsertAnswer(s, q, n) =>
              /\ Answered(s)' = Answered(s) \cup {q}
              /\ \A u \in Students : u # s => Answered(u)' = Answered(u)
         /\ DeleteByParticipant(s) =>
              /\ Answered(s)' = {}
              /\ \A u \in Students : u # s => Answered(u)' = Answered(u)
<1>1. ASSUME NEW q \in Questions, NEW n \in Nat, InsertAnswer(s, q, n)
      PROVE  /\ Answered(s)' = Answered(s) \cup {q}
             /\ \A u \in Students : u # s => Answered(u)' = Answered(u)
  <2>1. CASE q \in Answered(s)
    BY <1>1, <2>1 DEF InsertAnswer, Answered
  <2>2. CASE q \notin Answered(s)
    <3> DEFINE a == [who |-> s, question |-> q, round |-> n]
    <3>1. answers' = answers \cup {a} /\ a.who = s /\ a.question = q
      BY <1>1, <2>2 DEF InsertAnswer
    <3> HIDE DEF a
    <3> QED
      BY <3>1 DEF Answered
  <2> QED
    BY <2>1, <2>2
<1>2. ASSUME DeleteByParticipant(s)
      PROVE  /\ Answered(s)' = {}
             /\ \A u \in Students : u # s => Answered(u)' = Answered(u)
  BY <1>2 DEF DeleteByParticipant, Answered
<1> QED
  BY <1>1, <1>2

(* Every action keeps the students in pace.                                 *)
LEMMA PaceStep ==
  ASSUME Undisturbed, TypeOK, PaceInv, [Next]_vars
  PROVE  PaceInv'
<1>0. /\ room \in Room /\ room.order \in Seq(Questions) /\ Len(room.order) \in Nat
      /\ pending \in [Requests -> Pending] /\ part \in [Students -> Participant]
      /\ \A r \in Requests : pending[r] \in Pending
  BY DEF TypeOK, StoreTypeOK, Room
<1>1. ASSUME NEW h \in HostReqs, HostCalls(h)
      PROVE  PaceInv'
  <2>0. h \in Requests
    BY DEF Requests
  <2>1. CASE StartRoom(h)
    BY <2>0, <2>1, PaceQuiet DEF StartRoom, Calls, Reads, storeVars, Idle, Grown
  <2>2. CASE NextQuestion(h)
    <3>1. pending[h].op = "idle"
      BY <2>2 DEF NextQuestion, Calls, Idle
    <3>2. ASSUME NEW n, Reads(h, n), n.op \in {"finish", "activate"}
          PROVE  PaceInv'
      BY <2>0, <3>1, <3>2, PaceQuiet DEF Reads, storeVars, Grown
    <3>3. \/ Reads(h, [op |-> "finish", from |-> room.status])
          \/ \E j \in Unasked(room.order, room.asked) :
               Reads(h, [op |-> "activate", by |-> "next", q |-> room.order[j],
                         asked |-> Append(room.asked, room.order[j])])
      BY <2>2 DEF NextQuestion
    <3> QED
      BY <3>2, <3>3
  <2>3. CASE FinishRoom(h) \/ ReviewQuestion(h)
    BY <2>0, <2>3, PaceQuiet DEF FinishRoom, ReviewQuestion, Calls, Reads, storeVars, Idle, Grown
  <2>4. CASE AppendQuestion(h)
    BY <2>0, <2>4, PaceQuiet DEF AppendQuestion, Calls, Reads, storeVars, Idle, Grown
  <2>5. CASE RestartRoom(h)
    BY <2>5 DEF RestartRoom, PaceInv, Undisturbed
  <2> QED
    BY <1>1, <2>1, <2>2, <2>3, <2>4, <2>5 DEF HostCalls
<1>2. ASSUME NEW h \in HostReqs, HostContinues(h)
      PROVE  PaceInv'
  <2>0. h \in Requests
    BY DEF Requests
  <2>1. CASE StartSolo(h) \/ CloseRoom(h) \/ ShowReview(h)
    <3>1. /\ room'.order = room.order /\ round' = round
          /\ part' = part /\ answers' = answers
      BY <2>1, OrderKept DEF StartSolo, CloseRoom, ShowReview, SetStatus
    <3> QED
      BY <2>0, <2>1, <3>1, PaceQuiet
      DEF StartSolo, CloseRoom, ShowReview, Announcing, Indifferent, Grown
  <2>2. CASE ActivateQuestion(h)
    <3>1. room'.order = room.order
      BY <1>0, <2>2 DEF ActivateQuestion, SetCurrentQuestion, Room
    <3> QED
      BY <2>0, <2>2, <3>1, PaceQuiet
      DEF ActivateQuestion, SetCurrentQuestion, Announcing, Indifferent, Grown
  <2>3. CASE ListBank(h) \/ CommitRestart(h)
    BY <2>0, <2>3 DEF ListBank, CommitRestart, PaceInv
  <2>4. CASE CreateQuestion(h)
    BY <2>0, <2>4, PaceQuiet DEF CreateQuestion, InsertQuestion, Grown
  <2>5. CASE EnqueueQuestion(h)
    <3>1. pending[h].op = "enqueue" /\ pending[h].q \in Questions
      BY <1>0, <2>0, <2>5, PendingFields DEF EnqueueQuestion
    <3>2. room'.order = Append(room.order, pending[h].q)
      BY <1>0, <2>5 DEF EnqueueQuestion, AppendQuestionToOrder, Room
    <3> QED
      BY <2>0, <2>5, <3>1, <3>2, PaceQuiet
      DEF EnqueueQuestion, AppendQuestionToOrder, Idle, Indifferent, Grown
  <2>6. CASE Announce(h)
    BY <2>0, <2>6, PaceQuiet DEF Announce, Reads, storeVars, Idle, Indifferent, Grown
  <2> QED
    BY <1>2, <2>1, <2>2, <2>3, <2>4, <2>5, <2>6 DEF HostContinues
<1>3. ASSUME NEW s \in Students, NEW t \in Tabs, StudentCalls(s, t)
      PROVE  PaceInv'
  <2> DEFINE r == <<s, t>>
  <2>0. r \in Requests /\ \A u \in Tabs : u = t
    BY DEF Requests, Undisturbed
  <2>1. CASE JoinRoom(s, t)
    BY <2>0, <2>1, PaceQuiet DEF JoinRoom, Calls, Reads, storeVars, Idle, Indifferent, Grown
  <2>2. CASE LeaveRoom(s, t)
    <3>1. /\ part' = [part EXCEPT ![s].left = TRUE] /\ pending' = pending
          /\ UNCHANGED <<room, answers, round>>
      BY <2>2 DEF LeaveRoom, LeaveParticipant
    <3>2. /\ part'[s].joined = part[s].joined /\ part'[s].fin = part[s].fin
          /\ part'[s].idx = part[s].idx
          /\ \A u \in Students : u # s => part'[u] = part[u]
      BY <1>0, <3>1 DEF Participant
    <3>3. Pace(s, t)'
      BY <3>1, <3>2, PaceKept DEF PaceInv, Grown, Answered
    <3>4. Then(r, pending[r]) /\ pending[r].op \notin {"list_bank", "restart", "answer"}
      BY <1>0, <2>0, <3>1 DEF Then, PaceInv
    <3> QED
      BY <2>0, <3>1, <3>2, <3>3, <3>4, PaceOthers DEF Answered
  <2>3. CASE SubmitAnswer(s, t)
    BY <2>3 DEF SubmitAnswer, Calls, Undisturbed
  <2>4. CASE SubmitMyAnswer(s, t)
    <3>1. PICK p : /\ p = [op |-> "my_answer", mode |-> room.mode, order |-> room.order, round |-> round]
                   /\ Then(r, p) /\ UNCHANGED storeVars
      BY <2>4 DEF SubmitMyAnswer, Reads
    <3>2. pending'[r] = p /\ pending[r].op = "idle" /\ p.op = "my_answer" /\ p.order = room.order
      BY <1>0, <2>0, <2>4, <3>1 DEF SubmitMyAnswer, Calls, Idle, Then
    <3>3. IsPrefix(room.order, room.order)
      BY <1>0, PrefixIfElements
    <3>4. Pace(s, t)'
      <4>1. AnswersInv(s, pending[r]) /\ Answered(s)' = Answered(s) /\ Passed(s)' = Passed(s)
            /\ OneAhead(s)' = OneAhead(s)
        BY <3>1 DEF PaceInv, Pace, Answered, Passed, OneAhead, storeVars
      <4>2. AnswersInv(s, pending[r])'
        BY <3>1, <3>2, <4>1 DEF AnswersInv, storeVars
      <4>3. SnapshotInv(s, pending[r])'
        BY <3>1, <3>2, <3>3 DEF SnapshotInv, storeVars
      <4> QED
        BY <4>2, <4>3 DEF Pace
    <3> QED
      BY <2>0, <3>1, <3>2, <3>4, PaceOthers DEF storeVars, Answered
  <2> QED
    BY <1>3, <2>1, <2>2, <2>3, <2>4 DEF StudentCalls
<1>4. ASSUME NEW s \in Students, NEW t \in Tabs, StudentContinues(s, t)
      PROVE  PaceInv'
  <2> DEFINE r == <<s, t>>
             p == pending[r]
             i == part[s].idx
  <2>0. /\ r \in Requests /\ p \in Pending /\ \A u \in Tabs : u = t
        /\ i \in Nat /\ part[s] \in Participant
        /\ SnapshotInv(s, p) /\ AnswersInv(s, p)
    BY <1>0 DEF Requests, Undisturbed, Participant, PaceInv, Pace
  <2>1. CASE Enter(s, t)
    <3>1. CASE AddParticipant(s)
      <4>1. PICK n : Then(r, n) /\ n.op \in {"first_join", "idle"}
        BY <2>1, <3>1 DEF Enter, AddParticipant, Idle
      <4>2. pending'[r] = n
        BY <1>0, <2>0, <4>1 DEF Then
      <4>3. /\ part'[s].idx = 0 /\ part'[s].joined /\ UNCHANGED <<room, answers, round>>
            /\ \A u \in Students : u # s => part'[u] = part[u]
        BY <1>0, <3>1 DEF AddParticipant
      <4>4. Answered(s)' = {} /\ Passed(s)' = {}
        BY <2>0, <3>1, <4>3 DEF AnswersInv, AddParticipant, Answered, Passed
      <4>5. Pace(s, t)'
        BY <1>0, <4>1, <4>2, <4>3, <4>4 DEF Pace, SnapshotInv, AnswersInv
      <4> QED
        BY <2>0, <4>1, <4>3, <4>5, PaceOthers DEF Answered
    <3>2. CASE Reads(r, IF part[s].left THEN [op |-> "rejoin"] ELSE Idle)
      BY <2>0, <2>1, <3>2, PaceQuiet DEF Enter, Reads, storeVars, Idle, Indifferent, Grown
    <3> QED
      BY <2>1, <3>1, <3>2 DEF Enter
  <2>2. CASE FirstJoin(s, t)
    <3>1. /\ room'.order = room.order /\ round' = round
          /\ part' = part /\ answers' = answers
      BY <2>2, OrderKept DEF FirstJoin, SetStatus, Tolerated, storeVars
    <3> QED
      BY <2>0, <2>2, <3>1, PaceQuiet DEF FirstJoin, Idle, Indifferent, Grown
  <2>3. CASE Rejoin(s, t)
    <3>1. CASE RejoinParticipant(s)
      <4>1. /\ part' = [part EXCEPT ![s].left = FALSE] /\ UNCHANGED <<room, answers, round>>
            /\ Then(r, Idle) /\ Idle.op = "idle" /\ p.op = "rejoin"
        BY <2>3, <3>1 DEF RejoinParticipant, Rejoin, Idle
      <4>2. /\ part'[s].joined = part[s].joined /\ part'[s].fin = part[s].fin
            /\ part'[s].idx = part[s].idx
            /\ \A u \in Students : u # s => part'[u] = part[u]
        BY <1>0, <4>1 DEF Participant
      <4>3. pending'[r] = Idle
        BY <1>0, <2>0, <4>1 DEF Then
      <4>4. Pace(s, t)'
        BY <4>1, <4>2, <4>3, PaceKept DEF PaceInv, Grown, Answered, Indifferent
      <4> QED
        BY <2>0, <4>1, <4>2, <4>4, PaceOthers DEF Answered
    <3>2. CASE UNCHANGED storeVars
      BY <2>0, <2>3, <3>2, PaceQuiet DEF Rejoin, storeVars, Idle, Indifferent, Grown
    <3> QED
      BY <2>3, <3>1, <3>2 DEF Rejoin, Tolerated
  <2>4. CASE SaveAnswer(s, t)
    BY <2>0, <2>4 DEF SaveAnswer, PaceInv
  <2>5. CASE CheckMyAnswer(s, t)
    <3>1. p.op = "my_answer" /\ p.order \in Seq(Questions) /\ IsPrefix(p.order, room.order)
      <4>1. p.op = "my_answer"
        BY <2>5 DEF CheckMyAnswer
      <4> QED
        BY <2>0, <4>1, PendingFields DEF SnapshotInv
    <3>2. /\ Len(p.order) \in Nat /\ Len(p.order) <= Len(room.order)
          /\ \A k \in 1 .. Len(p.order) : p.order[k] = room.order[k]
      <4> DEFINE u == p.order
                 v == room.order
      <4>1. u \in Seq(Questions) /\ v \in Seq(Questions) /\ IsPrefix(u, v)
        BY <1>0, <3>1
      <4> HIDE DEF u, v
      <4>2. Len(u) \in Nat /\ Len(u) <= Len(v) /\ \A k \in 1 .. Len(u) : u[k] = v[k]
        BY <4>1, PrefixHasElements
      <4> QED
        BY <4>2 DEF u, v
    <3>3. ASSUME NEW n, Reads(r, n), part[s].joined, i < Len(p.order), ~part[s].fin,
                 \/ n.op = "delete"
                 \/ n.op = "insert" /\ n.q = p.order[i + 1] /\ n.total = Len(p.order)
          PROVE  PaceInv'
      <4>1. pending'[r] = n /\ UNCHANGED storeVars
        BY <1>0, <2>0, <3>3 DEF Reads, Then
      <4>2. /\ Answered(s)' = Answered(s) /\ Passed(s)' = Passed(s) /\ OneAhead(s)' = OneAhead(s)
        BY <4>1 DEF Answered, Passed, OneAhead, storeVars
      <4>3. AnswersInv(s, p)'
        BY <2>0, <3>1, <3>3, <4>1, <4>2 DEF AnswersInv, storeVars
      <4>4. i + 1 \in 1 .. Len(p.order)
        BY <2>0, <3>2, <3>3
      <4>5. p.order[i + 1] = room.order[i + 1]
        BY <3>2, <4>4
      <4>6. SnapshotInv(s, p)'
        BY <3>2, <3>3, <4>1, <4>5 DEF SnapshotInv, storeVars
      <4>7. Pace(s, t)'
        BY <4>3, <4>6 DEF Pace
      <4> QED
        BY <2>0, <3>3, <4>1, <4>7, PaceOthers DEF Reads, storeVars, Answered
    <3>4. CASE Reads(r, Idle)
      BY <2>0, <3>1, <3>4, PaceQuiet DEF Reads, storeVars, Idle, Indifferent, Grown
    <3>5. CASE part[s].joined /\ i < Len(p.order) /\ ~part[s].fin
      <4>1. \/ Reads(r, [op |-> "insert", mode |-> p.mode, q |-> p.order[i + 1],
                         total |-> Len(p.order), round |-> p.round])
            \/ Reads(r, [op |-> "delete"])
        BY <2>5, <3>5 DEF CheckMyAnswer
      <4> QED
        BY <3>3, <3>5, <4>1
    <3> QED
      BY <2>5, <3>4, <3>5 DEF CheckMyAnswer
  <2>6. CASE SaveMyAnswer(s, t)
    <3>1. /\ p.op = "insert" /\ p.q \in Questions /\ p.total \in Nat /\ p.round \in Nat
          /\ InsertAnswer(s, p.q, p.round)
      BY <2>0, <2>6, PendingFields DEF SaveMyAnswer
    <3>2. /\ i < p.total /\ p.total <= Len(room.order) /\ p.q = room.order[i + 1]
          /\ part[s].joined /\ ~part[s].fin
          /\ i <= Len(room.order) /\ (Answered(s) = Passed(s) \/ OneAhead(s))
      BY <2>0, <3>1 DEF SnapshotInv, AnswersInv
    <3>3. PICK n : Then(r, n) /\ n.op = "advance" /\ n.total = p.total
      BY <2>6 DEF SaveMyAnswer
    <3>4. /\ pending'[r] = n /\ UNCHANGED <<room, part, round>>
      BY <1>0, <2>0, <3>1, <3>3 DEF Then, InsertAnswer
    <3>5. /\ Answered(s)' = Answered(s) \cup {p.q}
          /\ \A u \in Students : u # s => Answered(u)' = Answered(u)
      BY <3>1, AnsweredAfter
    <3>6. Passed(s)' = Passed(s)
      BY <3>4 DEF Passed
    <3>7. OneAhead(s)'
      BY <1>0, <2>0, <3>1, <3>2, <3>4, <3>5, <3>6 DEF OneAhead
    <3>8. Pace(s, t)'
      <4>1. SnapshotInv(s, p)'
        BY <3>2, <3>3, <3>4, <3>7 DEF SnapshotInv
      <4>2. AnswersInv(s, p)'
        BY <3>2, <3>3, <3>4, <3>7 DEF AnswersInv
      <4> QED
        BY <4>1, <4>2 DEF Pace
    <3> QED
      BY <2>0, <3>3, <3>4, <3>5, <3>8, PaceOthers
  <2>7. CASE Advance(s, t)
    <3>1. p.op = "advance" /\ p.total \in Nat /\ AdvanceParticipant(s, p.total)
      BY <2>0, <2>7, PendingFields DEF Advance
    <3>2. i < p.total /\ p.total <= Len(room.order) /\ OneAhead(s) /\ part[s].joined
      BY <2>0, <3>1 DEF SnapshotInv
    <3>3. PICK n : Then(r, n) /\ n.op \in {"check", "idle"}
      BY <2>7 DEF Advance, Idle
    <3>4. /\ part'[s].idx = i + 1 /\ part'[s].joined
          /\ \A u \in Students : u # s => part'[u] = part[u]
          /\ UNCHANGED <<room, answers, round>>
      BY <1>0, <2>0, <3>1, <3>2 DEF AdvanceParticipant, Participant
    <3>5. \A u \in Students : Answered(u)' = Answered(u)
      BY <3>4 DEF Answered
    <3>6. Passed(s)' = Passed(s) \cup {room.order[i + 1]}
      <4>1. \A k : k \in 1 .. i + 1 <=> k \in 1 .. i \/ k = i + 1
        BY <2>0
      <4> QED
        BY <3>4, <4>1 DEF Passed
    <3>7. Answered(s)' = Passed(s)'
      BY <3>2, <3>5, <3>6 DEF OneAhead
    <3>8. i + 1 <= Len(room.order)
      BY <1>0, <2>0, <3>1, <3>2
    <3>9. pending'[r] = n
      BY <1>0, <2>0, <3>3 DEF Then
    <3>10. Pace(s, t)'
      <4>1. SnapshotInv(s, p)'
        BY <3>3, <3>9 DEF SnapshotInv
      <4>2. AnswersInv(s, p)'
        BY <3>3, <3>4, <3>7, <3>8, <3>9 DEF AnswersInv
      <4> QED
        BY <4>1, <4>2 DEF Pace
    <3> QED
      BY <2>0, <3>3, <3>4, <3>5, <3>10, PaceOthers
  <2>8. CASE DropAnswers(s, t)
    <3>1. /\ p.op = "delete" /\ DeleteByParticipant(s) /\ part[s].joined /\ ~part[s].fin
          /\ i <= Len(room.order)
      BY <2>0, <2>8 DEF DropAnswers, Tolerated, Undisturbed, SnapshotInv, AnswersInv
    <3>2. PICK n : Then(r, n) /\ n.op = "reset"
      BY <2>8 DEF DropAnswers
    <3>3. pending'[r] = n /\ UNCHANGED <<room, part, round>>
      BY <1>0, <2>0, <3>1, <3>2 DEF Then, DeleteByParticipant
    <3>4. /\ Answered(s)' = {}
          /\ \A u \in Students : u # s => Answered(u)' = Answered(u)
      BY <3>1, AnsweredAfter
    <3>5. Pace(s, t)'
      BY <3>1, <3>2, <3>3, <3>4 DEF Pace, SnapshotInv, AnswersInv
    <3> QED
      BY <2>0, <3>2, <3>3, <3>4, <3>5, PaceOthers
  <2>9. CASE ResetProgress(s, t)
    <3>1. p.op = "reset" /\ ~part[s].fin /\ Answered(s) = {} /\ Then(r, Idle) /\ Idle.op = "idle"
      BY <2>0, <2>9 DEF ResetProgress, SnapshotInv, AnswersInv, Idle
    <3>2. /\ part'[s].idx = 0 /\ UNCHANGED <<room, answers, round>>
          /\ \A u \in Students : u # s => part'[u] = part[u]
      BY <1>0, <2>0, <2>9, <3>1 DEF ResetProgress, ResetParticipant, Participant
    <3>3. Passed(s)' = {}
      BY <3>2 DEF Passed
    <3>4. \A u \in Students : Answered(u)' = Answered(u)
      BY <3>2 DEF Answered
    <3>5. pending'[r] = Idle
      BY <1>0, <2>0, <3>1 DEF Then
    <3>6. Pace(s, t)'
      BY <1>0, <3>1, <3>2, <3>3, <3>4, <3>5 DEF Pace, SnapshotInv, AnswersInv
    <3> QED
      BY <2>0, <3>1, <3>2, <3>4, <3>6, PaceOthers
  <2>10. CASE CheckAllFinished(s, t)
    BY <2>0, <2>10, PaceQuiet DEF CheckAllFinished, Reads, storeVars, Idle, Indifferent, Grown
  <2>11. CASE AutoFinish(s, t)
    <3>1. /\ room'.order = room.order /\ round' = round
          /\ part' = part /\ answers' = answers
      BY <2>11, OrderKept DEF AutoFinish, SetStatus, Tolerated, storeVars
    <3> QED
      BY <2>0, <2>11, <3>1, PaceQuiet DEF AutoFinish, Announcing, Indifferent, Grown
  <2>12. CASE Announce(r)
    BY <2>0, <2>12, PaceQuiet DEF Announce, Reads, storeVars, Idle, Indifferent, Grown
  <2> QED
    BY <1>4, <2>1, <2>2, <2>3, <2>4, <2>5, <2>6, <2>7, <2>8, <2>9, <2>10, <2>11, <2>12
    DEF StudentContinues
<1>5. ASSUME NEW r \in Requests, Abort(r)
      PROVE  PaceInv'
  BY <1>5, PaceQuiet DEF Abort, Undisturbed, Reads, storeVars, Idle, Indifferent, Grown
<1>6. CASE AdminFinish
  <2>1. room'.order = room.order
    BY <1>6, OrderKept DEF AdminFinish
  <2> QED
    BY <1>6, <2>1, PaceStill DEF AdminFinish, ForceFinish, Grown
<1>7. CASE AdminDeleteAnswer
  BY <1>7 DEF AdminDeleteAnswer, Undisturbed
<1>8. CASE UNCHANGED vars
  BY <1>8, PaceStill DEF vars, Grown
<1> QED
  BY <1>1, <1>2, <1>3, <1>4, <1>5, <1>6, <1>7, <1>8 DEF Next

(* A student moved past n questions has been moved past n different ones at *)
(* most.                                                                    *)
LEMMA PassedIsSmall ==
  ASSUME TypeOK, NEW s \in Students, part[s].idx <= Len(room.order)
  PROVE  IsFiniteSet(Passed(s)) /\ Cardinality(Passed(s)) <= part[s].idx
<1> DEFINE n == part[s].idx
           f == [k \in 1 .. n |-> room.order[k]]
<1>1. n \in Nat
  BY DEF TypeOK, StoreTypeOK, Participant
<1>2. IsFiniteSet(1 .. n) /\ Cardinality(1 .. n) = n
  <2> HIDE DEF n
  <2>1. 1 \in Int /\ n \in Int
    BY <1>1
  <2>2. IsFiniteSet(1 .. n) /\ Cardinality(1 .. n) = IF 1 > n THEN 0 ELSE n - 1 + 1
    BY <2>1, FS_Interval
  <2> QED
    BY <1>1, <2>2
<1>3. f \in Surjection(1 .. n, Passed(s))
  BY DEF Surjection, Passed
<1> HIDE DEF n, f
<1> QED
  BY <1>2, <1>3, FS_Surjection DEF n

(* Where nothing disturbs them, the answers on record of each student are   *)
(* those the student was moved past and at most the next one, for any       *)
(* number of students, questions and requests of the teacher: SubmitMyAnswer*)
(* writes the answer and the index in two statements, and may die between   *)
(* them, but what it does is decided on a row nobody else moves.            *)
THEOREM AnswersKeepPace ==
  ASSUME Undisturbed
  PROVE  Spec => []AnswersMatchProgress
<1>1. Init => PaceInv
  <2> SUFFICES ASSUME Init PROVE PaceInv
    OBVIOUS
  <2>1. \A r \in Requests : pending[r] = Idle
    BY DEF Init
  <2>2. ASSUME NEW s \in Students, NEW t \in Tabs
        PROVE  Pace(s, t)
    <3>1. <<s, t>> \in Requests
      BY DEF Requests
    <3>2. pending[<<s, t>>].op = "idle"
      BY <2>1, <3>1 DEF Idle
    <3>3. part[s].idx = 0 /\ answers = {}
      BY DEF Init, StoreInit
    <3>4. Answered(s) = {} /\ Passed(s) = {}
      BY <3>3 DEF Answered, Passed
    <3>5. Len(room.order) \in Nat
      <4>1. PICK b \in Banks : \E o \in Orderings(InitialBank[b]) : room.order = o
        BY DEF Init, StoreInit
      <4>2. PICK o \in Orderings(InitialBank[b]) : room.order = o
        BY <4>1
      <4>3. o \in Seq(Questions)
        BY StoreAssumption, OrderingIsSeq DEF StoreAssumption
      <4> QED
        BY <4>2, <4>3
    <3> QED
      BY <3>2, <3>3, <3>4, <3>5 DEF Pace, SnapshotInv, AnswersInv
  <2> QED
    BY <2>1, <2>2 DEF PaceInv, Init, StoreInit, Idle
<1>2. TypeOK /\ PaceInv => AnswersMatchProgress
  <2> SUFFICES ASSUME TypeOK, PaceInv PROVE AnswersMatchProgress
    OBVIOUS
  <2>0. SUFFICES ASSUME NEW s \in Students, ~\E t \in Tabs : pending[<<s, t>>].op = "reset"
               PROVE  /\ part[s].idx <= Len(room.order)
                      /\ Passed(s) \subseteq Answered(s)
                      /\ Cardinality(Answered(s)) <= part[s].idx + 1
    BY DEF AnswersMatchProgress
  <2>1. PICK t \in Tabs : pending[<<s, t>>].op # "reset"
    BY <2>0 DEF Undisturbed
  <2>2. part[s].idx <= Len(room.order) /\ (Answered(s) = Passed(s) \/ OneAhead(s))
    BY <2>1 DEF PaceInv, Pace, AnswersInv
  <2>3. IsFiniteSet(Passed(s)) /\ Cardinality(Passed(s)) <= part[s].idx
    BY <2>2, PassedIsSmall
  <2>4. part[s].idx \in Nat
    BY DEF TypeOK, StoreTypeOK, Participant
  <2>5. CASE Answered(s) = Passed(s)
    BY <2>2, <2>3, <2>4, <2>5, FS_CardinalityType
  <2>6. CASE OneAhead(s)
    <3> DEFINE q == room.order[part[s].idx + 1]
               old == Passed(s)
    <3>1. IsFiniteSet(old) /\ Cardinality(old) <= part[s].idx /\ Answered(s) = old \cup {q}
      BY <2>3, <2>6 DEF OneAhead
    <3>2. Passed(s) \subseteq Answered(s)
      BY <2>6 DEF OneAhead
    <3> HIDE DEF q, old
    <3>3. Cardinality(old) \in Nat
      BY <3>1, FS_CardinalityType
    <3>4. Cardinality(old \cup {q}) = IF q \in old THEN Cardinality(old) ELSE Cardinality(old) + 1
      BY <3>1, FS_AddElement
    <3> QED
      BY <2>2, <2>4, <3>1, <3>2, <3>3, <3>4
  <2> QED
    BY <2>2, <2>5, <2>6
<1>3. TypeOK /\ PaceInv /\ [Next]_vars => PaceInv'
  BY PaceStep
<1> QED
  BY <1>1, <1>2, <1>3, TypeCorrect, PTL DEF Spec
=============================================================================
