---------------------------- MODULE RewardsProofs ----------------------------
(***************************************************************************)
(* Theorems about Scoring for every input, and about Rewards for every set *)
(* of requests, rooms, questions and badges, and every choice of the       *)
(* statements that fail.                                                   *)
(***************************************************************************)
EXTENDS Rewards, FiniteSetTheorems, WellFoundedInduction, TLAPS

-----------------------------------------------------------------------------
(* What the rules of Scoring return, for every input *)

(* Every set of natural numbers that is not empty has a least element.      *)
LEMMA LeastNatural ==
  ASSUME NEW T, T \subseteq Nat, T # {}
  PROVE  \E x \in T : \A y \in T : x <= y
<1>1. PICK x \in T : \A y \in T : ~ (<<y, x>> \in OpToRel(<, Nat))
  BY NatLessThanWellFounded, WFMin
<1>2. ASSUME NEW y \in T, y < x
      PROVE  <<y, x>> \in OpToRel(<, Nat)
  <2>1. <<y, x>> \in Nat \X Nat
    OBVIOUS
  <2>2. <<y, x>>[1] < <<y, x>>[2]
    BY <1>2
  <2>3. QED
    BY <2>1, <2>2 DEF OpToRel
<1>3. \A y \in T : ~ (y < x)
  BY <1>1, <1>2
<1>4. QED
  BY <1>3

(* LevelFromXP is the integer square root of xp / 100: its linear search    *)
(* ends, at the only such level.                                            *)
THEOREM LevelIsRoot ==
  ASSUME NEW xp \in Nat
  PROVE  /\ LevelFromXP(xp) \in 0 .. xp
         /\ LevelFromXP(xp) * LevelFromXP(xp) * 100 <= xp
         /\ xp < (LevelFromXP(xp) + 1) * (LevelFromXP(xp) + 1) * 100
<1> DEFINE T == {l \in Nat : xp < (l + 1) * (l + 1) * 100}
<1>1. xp \in T
  OBVIOUS
<1>2. PICK l \in T : \A m \in T : l <= m
  <2>1. T \in SUBSET Nat /\ T # {}
    BY <1>1
  <2>2. \E l \in T : \A m \in T : l <= m
    <3> HIDE DEF T
    <3> QED
      BY <2>1, LeastNatural
  <2> QED
    BY <2>2
<1>3. l \in 0 .. xp
  BY <1>1, <1>2
<1>4. l * l * 100 <= xp
  <2>1. CASE l = 0
    BY <2>1
  <2>2. CASE l > 0
    <3>1. l - 1 \in Nat /\ l - 1 \notin T
      BY <1>2, <2>2
    <3>2. ~ (xp < ((l - 1) + 1) * ((l - 1) + 1) * 100)
      BY <3>1
    <3>3. (l - 1) + 1 = l
      BY <1>3
    <3>4. QED
      BY <1>3, <3>2, <3>3
  <2>3. QED
    BY <1>3, <2>1, <2>2
<1>5. \E k \in 0 .. xp : k * k * LevelUnit <= xp /\ xp < (k + 1) * (k + 1) * LevelUnit
  BY <1>2, <1>3, <1>4 DEF LevelUnit
<1>6. QED
  BY <1>5 DEF LevelFromXP, LevelUnit

(* The level never falls when the experience grows.                         *)
THEOREM LevelMonotone ==
  ASSUME NEW x \in Nat, NEW y \in Nat, x <= y
  PROVE  LevelFromXP(x) <= LevelFromXP(y)
<1> DEFINE l == LevelFromXP(x)
           m == LevelFromXP(y)
<1>1. l \in Nat /\ m \in Nat /\ l * l * 100 <= x /\ y < (m + 1) * (m + 1) * 100
  BY LevelIsRoot
<1>2. SUFFICES ASSUME m + 1 <= l PROVE FALSE
  BY <1>1
<1>3. (m + 1) * (m + 1) <= l * l
  <2> HIDE DEF l, m
  <2>1. (m + 1) * (m + 1) <= (m + 1) * l
    BY <1>1, <1>2
  <2>2. (m + 1) * l <= l * l
    BY <1>1, <1>2
  <2>3. QED
    BY <1>1, <2>1, <2>2
<1>4. QED
  <2> HIDE DEF l, m
  <2>1. (m + 1) * (m + 1) \in Nat /\ l * l \in Nat
    BY <1>1
  <2>2. QED
    BY <1>1, <1>3, <2>1

(* An answer never costs experience, and never earns more than 50.          *)
THEOREM XPBounds ==
  ASSUME NEW correct \in BOOLEAN, NEW difficulty \in 1 .. 5, NEW elapsed \in Nat, NEW limit \in Nat,
         NEW xp \in XPAwards(correct, difficulty, elapsed, limit)
  PROVE  xp \in 0 .. 50
<1> DEFINE t == IF elapsed > limit THEN limit ELSE elapsed
           n == 20 * difficulty * limit - 10 * difficulty * t + limit
<1>1. CASE ~correct
  BY <1>1 DEF XPAwards
<1>2. CASE correct /\ limit = 0
  BY <1>2 DEF XPAwards
<1>3. CASE correct /\ limit # 0
  <2>1. xp \in {n \div (2 * limit), n \div (2 * limit) - 1}
    BY <1>3 DEF XPAwards
  <2>2. n \in Int /\ 11 * limit <= n /\ n <= 101 * limit
    <3>1. t \in 0 .. limit
      OBVIOUS
    <3>2. \A d \in {1, 2, 3, 4, 5} : 11 * limit <= 20 * d * limit - 10 * d * t + limit
                                 /\ 20 * d * limit - 10 * d * t + limit <= 101 * limit
      BY <3>1
    <3>3. QED
      BY <3>1, <3>2
  <2>3. n \div (2 * limit) \in 1 .. 50
    <3> HIDE DEF n
    <3> DEFINE m == 2 * limit
               k == n \div m
    <3>1. m \in Nat \ {0} /\ k \in Int /\ m * k <= n /\ n < m * (k + 1)
      BY <1>3, <2>2
    <3>2. k >= 1
      BY <1>3, <2>2, <3>1
    <3>3. k <= 50
      BY <1>3, <2>2, <3>1
    <3>4. QED
      BY <3>1, <3>2, <3>3
  <2>4. QED
    BY <2>1, <2>3
<1>4. QED
  BY <1>1, <1>2, <1>3

(* The score is on the scale Sm2Update expects, and at least 3 exactly for  *)
(* a correct answer.                                                        *)
LEMMA QScoreRange ==
  ASSUME NEW correct \in BOOLEAN, NEW elapsed \in Nat, NEW limit \in Nat
  PROVE  /\ QScore(correct, elapsed, limit) \in 1 .. 5
         /\ QScore(correct, elapsed, limit) >= 3 <=> correct
<1>1. CASE ~correct
  BY <1>1 DEF QScore
<1>2. CASE correct /\ limit = 0
  BY <1>2 DEF QScore
<1>3. CASE correct /\ limit > 0
  BY <1>3 DEF QScore
<1>4. QED
  BY <1>1, <1>2, <1>3

(* Whatever the score, a reviewed card is a card of the promised shape, its *)
(* repetitions grow by one with a correct answer and start over with a      *)
(* wrong one.                                                               *)
THEOREM Sm2Shape ==
  ASSUME NEW s \in Card, s = NewSm2State \/ CardShape(s),
         NEW q \in 1 .. 5, NEW today \in Nat,
         NEW c \in Sm2Update(s, q, today)
  PROVE  c \in Card /\ CardShape(c) /\ c.reps = IF q >= 3 THEN s.reps + 1 ELSE 0
<1> DEFINE ef == s.ef + 10 - (5 - q) * (8 + (5 - q) * 2)
           floor == IF ef < 130 THEN 130 ELSE ef
           reps == IF q < 3 THEN 0 ELSE s.reps + 1
<1>1. s.ef \in Nat /\ s.interval \in Nat /\ s.reps \in Nat
  BY DEF Card
<1>2. PICK i \in Intervals(s, q) :
        c = [ef |-> floor, interval |-> i, reps |-> reps, last |-> today, due |-> today + Wrapped(i)]
  BY DEF Sm2Update
<1>3. floor \in Nat /\ floor >= 130
  <2>1. \A p \in {1, 2, 3, 4, 5} : (5 - p) * (8 + (5 - p) * 2) \in Int
    OBVIOUS
  <2>2. ef \in Int
    BY <1>1, <2>1
  <2>3. QED
    BY <2>2
<1>4. i \in Nat /\ (reps \in {0, 1} => i = 1) /\ (reps = 2 => i = 6) /\ (reps > 2 => i > 6)
  <2>1. CASE q < 3
    BY <1>2, <2>1 DEF Intervals
  <2>2. CASE q >= 3 /\ s.reps \in {0, 1}
    BY <1>2, <2>2 DEF Intervals
  <2>3. CASE q >= 3 /\ s.reps >= 2
    <3>1. s.interval >= 6 /\ s.ef >= 130
      BY <1>1, <2>3 DEF CardShape, NewSm2State
    <3>2. s.interval * s.ef \in Nat /\ s.interval * s.ef >= 780
      BY <1>1, <3>1
    <3>3. \A p \in Nat : p >= 780 => p \div 100 \in Nat /\ p \div 100 > 6
      OBVIOUS
    <3>4. i \in Products(s.interval, s.ef)
      BY <1>2, <2>3 DEF Intervals
    <3>5. i \in Nat /\ i > 6
      BY <3>2, <3>3, <3>4 DEF Products
    <3>6. QED
      BY <1>1, <2>3, <3>5
  <2>4. QED
    BY <1>1, <2>1, <2>2, <2>3
<1>5. Wrapped(i) \in Int
  BY <1>4 DEF Wrapped, DurationDays
<1>6. c \in Card
  BY <1>1, <1>2, <1>3, <1>4, <1>5 DEF Card
<1>7. CardShape(c)
  BY <1>1, <1>2, <1>3, <1>4 DEF CardShape
<1>8. QED
  BY <1>1, <1>2, <1>6, <1>7

-----------------------------------------------------------------------------
(* Type correctness *)

(* The parameters a pending statement carries have the types of its kind.   *)
LEMMA PendingFields ==
  ASSUME NEW p \in Pending
  PROVE  /\ p.op \in {"list_progress", "count_room", "perfect", "get_card"} => p.award \in Award
         /\ p.op = "begin" => p.award \in Award /\ p.level \in Nat
         /\ p.op = "add_xp" => p.award \in Award /\ p.level \in Nat /\ p.today \in Days
         /\ p.op = "count_course" => p.award \in Award /\ p.got \in Summary
         /\ p.op = "badges" => p.award \in Award /\ p.due \in SUBSET Badges
         /\ p.op = "save_card" => p.question \in Questions /\ p.card \in Card
  BY DEF Pending

(* The statements a request can be left with have the right type.           *)
LEMMA PendingValues ==
  /\ Idle \in Pending
  /\ \A op \in {"list_progress", "count_room", "perfect", "get_card"}, a \in Award :
       [op |-> op, award |-> a] \in Pending
  /\ \A a \in Award, l \in Nat : [op |-> "begin", award |-> a, level |-> l] \in Pending
  /\ \A a \in Award, l \in Nat, d \in Days :
       [op |-> "add_xp", award |-> a, level |-> l, today |-> d] \in Pending
  /\ \A a \in Award, g \in Summary : [op |-> "count_course", award |-> a, got |-> g] \in Pending
  /\ \A a \in Award, d \in SUBSET Badges : [op |-> "badges", award |-> a, due |-> d] \in Pending
  /\ \A q \in Questions, c \in Card :
       [op |-> "save_card", question |-> q, card |-> c] \in Pending
  BY DEF Pending, Idle

(* A level is a natural number.                                             *)
LEMMA LevelType == \A n \in Nat : LevelFromXP(n) \in Nat
  BY LevelIsRoot

(* The streak AddXP writes is a number of days.                             *)
LEMMA StreakType ==
  ASSUME NEW last \in Nat, NEW streak \in Nat, NEW today \in Nat
  PROVE  Streak(last, streak, today) \in Nat
  BY DEF Streak

(* The shape of the cards, in the table and about to be written.            *)
CardsInv ==
  /\ CardsAreShaped
  /\ \A r \in Requests : pending[r].op = "save_card" => CardShape(pending[r].card)

(* What a review of a card gives is a card of the promised shape.           *)
LEMMA ReviewedShape ==
  ASSUME TypeOK, CardsAreShaped, NEW q \in Questions, NEW correct \in BOOLEAN,
         NEW t \in Timings, NEW c \in Reviewed(q, correct, t)
  PROVE  c \in Card /\ CardShape(c)
<1> DEFINE s == IF cards[q] = NoCard THEN NewSm2State ELSE cards[q]
<1>1. NewSm2State \in Card
  BY DEF NewSm2State, Card
<1>2. s \in Card /\ (s = NewSm2State \/ CardShape(s))
  BY <1>1 DEF TypeOK, CardsAreShaped
<1>3. t[1] \in Nat /\ t[2] \in Nat
  BY RewardsAssumption DEF RewardsAssumption
<1>4. QScore(correct, t[1], t[2]) \in 1 .. 5
  BY <1>3, QScoreRange
<1>5. day \in Nat
  BY DEF TypeOK, Days
<1>6. c \in Sm2Update(s, QScore(correct, t[1], t[2]), day)
  BY DEF Reviewed
<1> HIDE DEF s
<1>7. QED
  BY <1>2, <1>4, <1>5, <1>6, Sm2Shape

(* A step that gives one request a well-typed statement, and leaves the     *)
(* tables and the history alone.                                            *)
LEMMA ReadStep ==
  ASSUME TypeOK, CardsInv, NEW r \in Requests, NEW p \in Pending, Then(r, p),
         p.op = "save_card" => CardShape(p.card),
         UNCHANGED <<tables, day, sent, history>>
  PROVE  TypeOK' /\ CardsInv'
  BY DEF TypeOK, CardsInv, CardsAreShaped, Then, tables, history

(* What SubmitAnswer hands to awardForAnswer.                               *)
LEMMA AwardType ==
  ASSUME NEW m \in Rooms, NEW q \in Questions, NEW v \in Verdicts, NEW t \in Timings,
         NEW f \in BOOLEAN, NEW xp \in XPAwards(v = "correct", Difficulty[q], t[1], t[2])
  PROVE  [room |-> m, question |-> q, verdict |-> v, time |-> t, xp |-> xp, finished |-> f]
           \in Award
<1>1. t[1] \in Nat /\ t[2] \in Nat /\ Difficulty[q] \in 1 .. 5
  BY RewardsAssumption DEF RewardsAssumption
<1>2. xp \in 0 .. 50
  BY <1>1, XPBounds
<1>3. xp \in Nat
  BY <1>2
<1>4. QED
  BY <1>3 DEF Award

(* The tables have their types and every card, stored or about to be, its   *)
(* shape; the two are proved together, a review needs both.                 *)
LEMMA TypeStep == TypeOK /\ CardsInv /\ [Next]_vars => TypeOK' /\ CardsInv'
<1> SUFFICES ASSUME TypeOK, CardsInv, [Next]_vars
             PROVE  TypeOK' /\ CardsInv'
  OBVIOUS
<1>0. pending \in [Requests -> Pending] /\ CardsAreShaped
  BY DEF TypeOK, CardsInv
<1>1. ASSUME NEW r \in Requests, SubmitAnswer(r)
      PROVE  TypeOK' /\ CardsInv'
  <2>1. PICK m \in Rooms, q \in Questions, t \in Timings, f \in BOOLEAN : \E v \in Marks(q) :
          /\ Record(m, q, v, f)
          /\ Solve(q, v)
          /\ \E xp \in XPAwards(v = "correct", Difficulty[q], t[1], t[2]) :
               Then(r, [op |-> "list_progress",
                        award |-> [room |-> m, question |-> q, verdict |-> v, time |-> t,
                                   xp |-> xp, finished |-> f]])
    BY <1>1 DEF SubmitAnswer
  <2>2. PICK v \in Marks(q) :
          /\ Record(m, q, v, f)
          /\ Solve(q, v)
          /\ \E xp \in XPAwards(v = "correct", Difficulty[q], t[1], t[2]) :
               Then(r, [op |-> "list_progress",
                        award |-> [room |-> m, question |-> q, verdict |-> v, time |-> t,
                                   xp |-> xp, finished |-> f]])
    BY <2>1
  <2>3. v \in Verdicts
    BY DEF Marks
  <2>4. PICK xp \in XPAwards(v = "correct", Difficulty[q], t[1], t[2]) :
          Then(r, [op |-> "list_progress",
                   award |-> [room |-> m, question |-> q, verdict |-> v, time |-> t,
                              xp |-> xp, finished |-> f]])
    BY <2>2
  <2> DEFINE p == [op |-> "list_progress",
                   award |-> [room |-> m, question |-> q, verdict |-> v, time |-> t,
                              xp |-> xp, finished |-> f]]
  <2>5. p \in Pending /\ p.op # "save_card"
    BY <2>3, AwardType, PendingValues
  <2>6. UNCHANGED <<progress, badges, cards, day, active>>
    BY <1>1 DEF SubmitAnswer
  <2>7. answers' \subseteq Answer
    BY <2>2, <2>3 DEF TypeOK, Answer, Record
  <2>8. sent' \in 0 .. MaxSent /\ solved' \in [Questions -> Nat]
    BY <1>1, <2>2, RewardsAssumption DEF SubmitAnswer, TypeOK, Calls, Solve, RewardsAssumption
  <2> HIDE DEF p
  <2>9. pending' = [pending EXCEPT ![r] = p]
    BY <2>4 DEF Then, p
  <2>10. QED
    BY <2>5, <2>6, <2>7, <2>8, <2>9 DEF TypeOK, CardsInv, CardsAreShaped
<1>2. CASE RestartRoom
  BY <1>2 DEF RestartRoom, TypeOK, CardsInv, CardsAreShaped, history
<1>3. ASSUME NEW r \in Requests, ListProgress(r)
      PROVE  TypeOK' /\ CardsInv'
  <2>1. PICK prevTotal \in {progress.total, 0} :
          Then(r, [op |-> "begin", award |-> pending[r].award,
                   level |-> LevelFromXP(prevTotal + pending[r].award.xp)])
    BY <1>3 DEF ListProgress
  <2>2. pending[r].award \in Award
    BY <1>0, <1>3, PendingFields DEF ListProgress
  <2>3. prevTotal + pending[r].award.xp \in Nat
    BY <2>2 DEF Award, TypeOK
  <2>4. LevelFromXP(prevTotal + pending[r].award.xp) \in Nat
    BY <2>3, LevelType
  <2>5. QED
    BY <1>3, <2>1, <2>2, <2>4, PendingValues, ReadStep DEF ListProgress
<1>4. ASSUME NEW r \in Requests, BeginAddXP(r)
      PROVE  TypeOK' /\ CardsInv'
  <2>1. pending[r].award \in Award /\ pending[r].level \in Nat /\ day \in Days
    BY <1>0, <1>4, PendingFields DEF BeginAddXP, TypeOK
  <2>2. QED
    BY <1>4, <2>1, PendingValues, ReadStep DEF BeginAddXP
<1>5. ASSUME NEW r \in Requests, AddXP(r)
      PROVE  TypeOK' /\ CardsInv'
  <2>1. /\ pending[r].award \in Award /\ pending[r].level \in Nat
        /\ pending[r].today \in Days
    BY <1>0, <1>5, PendingFields DEF AddXP
  <2>2. progress.total + pending[r].award.xp \in Nat
    BY <2>1 DEF Award, TypeOK
  <2>3. Streak(progress.last, progress.streak, pending[r].today) \in Nat
    <3>1. progress.last \in Nat /\ progress.streak \in Nat /\ pending[r].today \in Nat
      BY <2>1 DEF TypeOK, Days
    <3>2. QED
      BY <3>1, StreakType
  <2>4. PICK got \in Summary :
          Then(r, [op |-> "count_course", award |-> pending[r].award, got |-> got])
    <3>1. \A t, l, k \in Nat : [total |-> t, level |-> l, streak |-> k] \in Summary
      BY DEF Summary
    <3>2. QED
      BY <1>5, <2>1, <2>2, <2>3, <3>1 DEF AddXP, Credited, Uncredited
  <2>5. progress' \in [total : Nat, level : Nat, streak : Nat, last : 0 .. MaxDay]
    BY <1>5, <2>1, <2>2, <2>3 DEF AddXP, Credited, TypeOK, Days
  <2>6. active' \subseteq Days
    BY <1>5, <2>1 DEF AddXP, TypeOK
  <2> DEFINE p == [op |-> "count_course", award |-> pending[r].award, got |-> got]
  <2>7. p \in Pending /\ p.op # "save_card"
    BY <2>1, PendingValues
  <2> HIDE DEF p
  <2>8. pending' = [pending EXCEPT ![r] = p]
    BY <2>4 DEF Then, p
  <2>9. UNCHANGED <<badges, cards, answers, day, sent, solved>>
    BY <1>5 DEF AddXP
  <2>10. QED
    BY <2>5, <2>6, <2>7, <2>8, <2>9 DEF TypeOK, CardsInv, CardsAreShaped
<1>6. ASSUME NEW r \in Requests, CountCorrectInCourse(r)
      PROVE  TypeOK' /\ CardsInv'
  <2>1. pending[r].award \in Award
    BY <1>0, <1>6, PendingFields DEF CountCorrectInCourse
  <2>2. PICK due \in SUBSET Badges :
          Then(r, [op |-> "badges", award |-> pending[r].award, due |-> due])
    BY <1>6 DEF CountCorrectInCourse, Due
  <2>3. QED
    BY <1>6, <2>1, <2>2, PendingValues, ReadStep DEF CountCorrectInCourse
<1>7. ASSUME NEW r \in Requests, AwardBadges(r) \/ AwardPerfect(r)
      PROVE  TypeOK' /\ CardsInv'
  <2>1. pending[r].award \in Award /\ (AwardBadges(r) => pending[r].due \in SUBSET Badges)
    BY <1>0, <1>7, PendingFields DEF AwardBadges, AwardPerfect
  <2>2. PICK op \in {"count_room", "get_card"} :
          Then(r, [op |-> op, award |-> pending[r].award])
    BY <1>7 DEF AwardBadges, AwardPerfect
  <2>3. badges' \subseteq Badges
    BY <1>7, <2>1 DEF AwardBadges, AwardPerfect, TypeOK, Badges
  <2> DEFINE p == [op |-> op, award |-> pending[r].award]
  <2>4. p \in Pending /\ p.op # "save_card"
    BY <2>1, PendingValues
  <2> HIDE DEF p
  <2>5. pending' = [pending EXCEPT ![r] = p]
    BY <2>2 DEF Then, p
  <2>6. UNCHANGED <<progress, cards, answers, day, sent, history>>
    BY <1>7 DEF AwardBadges, AwardPerfect
  <2>7. QED
    BY <2>3, <2>4, <2>5, <2>6 DEF TypeOK, CardsInv, CardsAreShaped, history
<1>8. ASSUME NEW r \in Requests, CountCorrectInRoom(r)
      PROVE  TypeOK' /\ CardsInv'
  <2>1. pending[r].award \in Award
    BY <1>0, <1>8, PendingFields DEF CountCorrectInRoom
  <2>2. PICK op \in {"perfect", "get_card"} : Then(r, [op |-> op, award |-> pending[r].award])
    BY <1>8 DEF CountCorrectInRoom
  <2>3. QED
    BY <1>8, <2>1, <2>2, PendingValues, ReadStep DEF CountCorrectInRoom
<1>9. ASSUME NEW r \in Requests, GetCard(r)
      PROVE  TypeOK' /\ CardsInv'
  <2>1. pending[r].award \in Award
    BY <1>0, <1>9, PendingFields DEF GetCard
  <2>2. CASE Then(r, Idle)
    BY <1>9, <2>2, PendingValues, ReadStep DEF GetCard, Idle
  <2>3. ASSUME NEW c \in Reviewed(pending[r].award.question, pending[r].award.verdict = "correct",
                                 pending[r].award.time),
               Then(r, [op |-> "save_card", question |-> pending[r].award.question, card |-> c])
        PROVE  TypeOK' /\ CardsInv'
    <3>1. pending[r].award.question \in Questions /\ pending[r].award.time \in Timings
      BY <2>1 DEF Award
    <3>2. c \in Card /\ CardShape(c)
      BY <1>0, <3>1, ReviewedShape
    <3>3. QED
      BY <1>9, <2>3, <3>1, <3>2, PendingValues, ReadStep DEF GetCard
  <2>4. QED
    BY <1>9, <2>2, <2>3 DEF GetCard
<1>10. ASSUME NEW r \in Requests, AnswerSM2(r)
       PROVE  TypeOK' /\ CardsInv'
  <2>0. PICK q \in Questions, v \in Verdicts, t \in Timings :
          /\ Calls(r, "review")
          /\ Solve(q, v)
          /\ \E c \in Reviewed(q, v = "correct", t) :
               Then(r, [op |-> "save_card", question |-> q, card |-> c])
    BY <1>10 DEF AnswerSM2, Marks
  <2>1. PICK c \in Reviewed(q, v = "correct", t) :
          Then(r, [op |-> "save_card", question |-> q, card |-> c])
    BY <2>0
  <2>2. c \in Card /\ CardShape(c)
    BY <1>0, ReviewedShape
  <2> DEFINE p == [op |-> "save_card", question |-> q, card |-> c]
  <2>3. p \in Pending /\ p.card = c
    BY <2>2, PendingValues
  <2>4. sent' \in 0 .. MaxSent /\ solved' \in [Questions -> Nat]
    BY <2>0, RewardsAssumption DEF TypeOK, Calls, Solve, RewardsAssumption
  <2> HIDE DEF p
  <2>5. pending' = [pending EXCEPT ![r] = p]
    BY <2>1 DEF Then, p
  <2>6. UNCHANGED <<tables, day, active>>
    BY <1>10 DEF AnswerSM2
  <2>7. QED
    BY <2>2, <2>3, <2>4, <2>5, <2>6 DEF TypeOK, CardsInv, CardsAreShaped, tables
<1>11. ASSUME NEW r \in Requests, UpsertCard(r)
       PROVE  TypeOK' /\ CardsInv'
  <2>1. /\ pending[r].question \in Questions /\ pending[r].card \in Card
        /\ CardShape(pending[r].card)
    BY <1>0, <1>11, PendingFields DEF UpsertCard, CardsInv
  <2>2. cards' \in {cards, [cards EXCEPT ![pending[r].question] = pending[r].card]}
    BY <1>11 DEF UpsertCard
  <2>3. cards' \in [Questions -> Card \cup {NoCard}] /\ CardsAreShaped'
    BY <2>1, <2>2 DEF TypeOK, CardsInv, CardsAreShaped
  <2>4. pending' = [pending EXCEPT ![r] = Idle] /\ Idle \in Pending /\ Idle.op # "save_card"
    BY <1>11, PendingValues DEF UpsertCard, Then, Idle
  <2>5. UNCHANGED <<progress, badges, answers, day, sent, history>>
    BY <1>11 DEF UpsertCard
  <2>6. QED
    BY <2>3, <2>4, <2>5 DEF TypeOK, CardsInv, history
<1>12. CASE NextDay
  BY <1>12, RewardsAssumption
     DEF NextDay, TypeOK, CardsInv, CardsAreShaped, tables, history, Days, RewardsAssumption
<1>13. ASSUME NEW r \in Requests, Abort(r)
       PROVE  TypeOK' /\ CardsInv'
  BY <1>13, PendingValues, ReadStep DEF Abort, Idle
<1>14. CASE UNCHANGED vars
  BY <1>14 DEF vars, TypeOK, CardsInv, CardsAreShaped, tables, history
<1>15. QED
  BY <1>1, <1>2, <1>3, <1>4, <1>5, <1>6, <1>7, <1>8, <1>9, <1>10, <1>11, <1>12, <1>13, <1>14
     DEF Next, Continue

(* A student begins without progress, badges or cards.                      *)
LEMMA TypeInit == Init => TypeOK /\ CardsInv
<1> SUFFICES ASSUME Init
             PROVE  TypeOK /\ CardsInv
  OBVIOUS
<1>1. Idle \in Pending /\ Idle.op # "save_card"
  BY PendingValues DEF Idle
<1>2. MaxDay \in Nat \ {0} /\ MaxSent \in Nat
  BY RewardsAssumption DEF RewardsAssumption
<1>3. QED
  BY <1>1, <1>2 DEF Init, TypeOK, CardsInv, CardsAreShaped, Days

(* Every row and every statement in flight is well-formed.                  *)
THEOREM TypeCorrect == Spec => []TypeOK
<1>1. Init => TypeOK /\ CardsInv
  BY TypeInit
<1>2. TypeOK /\ CardsInv /\ [Next]_vars => (TypeOK /\ CardsInv)'
  BY TypeStep
<1>3. QED
  BY <1>1, <1>2, PTL DEF Spec

(* Whatever reviews overtake one another, the card kept is one SuperMemo 2  *)
(* could have written.                                                      *)
THEOREM CardsShaped == Spec => []CardsAreShaped
<1>1. Init => TypeOK /\ CardsInv
  BY TypeInit
<1>2. TypeOK /\ CardsInv /\ [Next]_vars => (TypeOK /\ CardsInv)'
  BY TypeStep
<1>3. CardsInv => CardsAreShaped
  BY DEF CardsInv
<1>4. QED
  BY <1>1, <1>2, <1>3, PTL DEF Spec

-----------------------------------------------------------------------------
(* The streak *)

(* AddXP is the only statement that moves the row of user_progress.         *)
LEMMA ProgressMoves ==
  [Next]_vars => UNCHANGED <<progress, active>> \/ \E r \in Requests : AddXP(r)
<1> SUFFICES ASSUME [Next]_vars
             PROVE  UNCHANGED <<progress, active>> \/ \E r \in Requests : AddXP(r)
  OBVIOUS
<1>1. ASSUME NEW r \in Requests, SubmitAnswer(r) \/ AnswerSM2(r) \/ Abort(r)
      PROVE  UNCHANGED <<progress, active>>
  BY <1>1 DEF SubmitAnswer, AnswerSM2, Abort, tables, history
<1>2. ASSUME NEW r \in Requests, ListProgress(r) \/ BeginAddXP(r) \/ CountCorrectInCourse(r)
      PROVE  UNCHANGED <<progress, active>>
  BY <1>2 DEF ListProgress, BeginAddXP, CountCorrectInCourse, tables, history
<1>3. ASSUME NEW r \in Requests,
             AwardBadges(r) \/ CountCorrectInRoom(r) \/ AwardPerfect(r) \/ GetCard(r) \/ UpsertCard(r)
      PROVE  UNCHANGED <<progress, active>>
  BY <1>3 DEF AwardBadges, CountCorrectInRoom, AwardPerfect, GetCard, UpsertCard, tables, history
<1>4. CASE RestartRoom \/ NextDay \/ UNCHANGED vars
  BY <1>4 DEF RestartRoom, NextDay, vars, tables, history
<1>5. QED
  BY <1>1, <1>2, <1>3, <1>4 DEF Next, Continue

(* AddXP is the only statement that moves the streak, and the day it writes *)
(* is the day it makes active.                                              *)
LEMMA StreakStep == TypeOK /\ StreakIsEarned /\ [Next]_vars => StreakIsEarned'
<1> SUFFICES ASSUME TypeOK, StreakIsEarned, [Next]_vars
             PROVE  StreakIsEarned'
  OBVIOUS
<1>1. CASE \E r \in Requests : AddXP(r)
  <2>1. PICK r \in Requests : AddXP(r)
    BY <1>1
  <2>2. CASE UNCHANGED <<progress, active>>
    BY <2>2 DEF StreakIsEarned, LastDays
  <2>3. CASE /\ progress'.last = pending[r].today
             /\ progress'.streak = Streak(progress.last, progress.streak, pending[r].today)
             /\ active' = active \cup {pending[r].today}
    <3> DEFINE today == pending[r].today
               last == progress.last
               streak == progress.streak
    <3>1. today \in Nat /\ last \in Nat /\ streak \in Nat
      <4>1. pending[r] \in Pending /\ pending[r].op = "add_xp"
        BY <2>1 DEF TypeOK, AddXP
      <4>2. today \in Days
        BY <4>1, PendingFields
      <4>3. QED
        BY <4>2 DEF TypeOK, Days
    <3>2. LastDays(streak, last) \subseteq active
      BY DEF StreakIsEarned
    <3>3. SUFFICES LastDays(Streak(last, streak, today), today) \subseteq active \cup {today}
      BY <2>3 DEF StreakIsEarned, LastDays
    <3> HIDE DEF today, last, streak
    <3>4. CASE last = today
      <4>1. last # today - 1
        BY <3>1, <3>4
      <4>2. Streak(last, streak, today) = streak
        BY <3>4, <4>1 DEF Streak
      <4>3. QED
        BY <3>2, <3>4, <4>2
    <3>5. CASE last = today - 1
      <4>1. last # today
        BY <3>1, <3>5
      <4>2. Streak(last, streak, today) = streak + 1
        BY <3>5, <4>1 DEF Streak
      <4>3. ASSUME NEW i \in 0 .. (streak + 1) - 1, i # 0
            PROVE  today - i \in LastDays(streak, last)
        <5>1. i - 1 \in 0 .. streak - 1 /\ today - i = last - (i - 1)
          BY <3>1, <3>5, <4>3
        <5>2. QED
          BY <5>1 DEF LastDays
      <4>4. today - 0 = today
        BY <3>1
      <4>5. QED
        BY <3>2, <4>2, <4>3, <4>4 DEF LastDays
    <3>6. CASE last # today /\ last # today - 1
      <4>1. Streak(last, streak, today) = 1
        BY <3>6 DEF Streak
      <4>2. LastDays(1, today) = {today}
        BY <3>1 DEF LastDays
      <4>3. QED
        BY <4>1, <4>2
    <3>7. QED
      BY <3>4, <3>5, <3>6
  <2>4. QED
    BY <2>1, <2>2, <2>3 DEF AddXP, Credited
<1>2. CASE UNCHANGED <<progress, active>>
  BY <1>2 DEF StreakIsEarned, LastDays
<1>3. QED
  BY <1>1, <1>2, ProgressMoves

(* No answer is counted as a day of its own, and midnight breaks no streak  *)
(* into days that never were.                                               *)
THEOREM StreakEarned == Spec => []StreakIsEarned
<1>1. Init => StreakIsEarned
  BY DEF Init, StreakIsEarned, LastDays
<1>2. TypeOK /\ StreakIsEarned /\ [Next]_vars => StreakIsEarned'
  BY StreakStep
<1>3. QED
  BY <1>1, <1>2, TypeCorrect, PTL DEF Spec
-----------------------------------------------------------------------------
(* Levels and badges *)

(* Nothing a student has earned is ever taken away.                         *)
Grows ==
  /\ progress'.total >= progress.total
  /\ active \subseteq active'
  /\ \A q \in Questions : solved'[q] >= solved[q]

(* The statement a request is about to make rests on values read earlier:   *)
(* they still bound the tables from below.                                  *)
Justified(r) ==
  LET p == pending[r]
  IN  /\ p.op \in {"begin", "add_xp"} => p.level <= LevelFromXP(progress.total + p.award.xp)
      /\ p.op \notin {"idle", "save_card"} /\ p.award.verdict = "correct" =>
           \E q \in Questions : solved[q] > 0
      /\ p.op = "count_course" =>
           /\ p.got.level <= LevelFromXP(progress.total)
           /\ p.got.total <= progress.total
           /\ p.got.streak = 0 \/ \E last \in active : LastDays(p.got.streak, last) \subseteq active
      /\ p.op = "badges" => \A b \in p.due : Earned(b)

RewardsInv ==
  /\ TypeOK /\ CardsInv
  /\ LevelNeverAhead
  /\ StreakIsEarned
  /\ BadgesAreEarned
  /\ \A r \in Requests : Justified(r)

(* Only AddXP, SubmitAnswer and AnswerSM2 touch the three, and they add.    *)
LEMMA GrowsStep ==
  ASSUME TypeOK, [Next]_vars
  PROVE  Grows
<1>1. ASSUME NEW q \in Questions, NEW v \in Verdicts, Solve(q, v)
      PROVE  \A k \in Questions : solved'[k] >= solved[k]
  BY <1>1 DEF TypeOK, Solve
<1>2. \A k \in Questions : solved'[k] >= solved[k]
  <2>0. solved \in [Questions -> Nat]
    BY DEF TypeOK
  <2>1. CASE UNCHANGED solved
    BY <2>0, <2>1
  <2>2. CASE \E q \in Questions : \E v \in Verdicts : Solve(q, v)
    BY <1>1, <2>2
  <2>3. ASSUME NEW r \in Requests, SubmitAnswer(r) \/ AnswerSM2(r)
        PROVE  \E q \in Questions : \E v \in Verdicts : Solve(q, v)
    BY <2>3 DEF SubmitAnswer, AnswerSM2, Marks
  <2>4. ASSUME NEW r \in Requests,
               \/ ListProgress(r) \/ BeginAddXP(r) \/ AddXP(r) \/ CountCorrectInCourse(r)
               \/ CountCorrectInRoom(r) \/ GetCard(r) \/ Abort(r)
        PROVE  UNCHANGED solved
    BY <2>4 DEF ListProgress, BeginAddXP, AddXP, CountCorrectInCourse, CountCorrectInRoom, GetCard,
                Abort, history
  <2>5. ASSUME NEW r \in Requests, AwardBadges(r) \/ AwardPerfect(r) \/ UpsertCard(r)
        PROVE  UNCHANGED solved
    BY <2>5 DEF AwardBadges, AwardPerfect, UpsertCard, history
  <2>6. ASSUME RestartRoom \/ NextDay \/ UNCHANGED vars
        PROVE  UNCHANGED solved
    BY <2>6 DEF RestartRoom, NextDay, vars, history
  <2>7. \/ \E r \in Requests : SubmitAnswer(r) \/ AnswerSM2(r)
        \/ UNCHANGED solved
    BY <2>4, <2>5, <2>6 DEF Next, Continue
  <2>8. QED
    BY <2>1, <2>2, <2>3, <2>7
<1>3. progress'.total >= progress.total /\ active \subseteq active'
  <2>1. CASE UNCHANGED <<progress, active>>
    BY <2>1 DEF TypeOK
  <2>2. ASSUME NEW r \in Requests, AddXP(r)
        PROVE  progress'.total >= progress.total /\ active \subseteq active'
    <3>1. pending[r] \in Pending /\ pending[r].op = "add_xp"
      BY <2>2 DEF TypeOK, AddXP
    <3>2. pending[r].award \in Award
      BY <3>1, PendingFields
    <3>3. pending[r].award.xp \in Nat /\ progress.total \in Nat
      BY <3>2 DEF Award, TypeOK
    <3>4. QED
      BY <2>2, <3>3 DEF AddXP, Credited
  <2>3. QED
    BY <2>1, <2>2, ProgressMoves
<1>4. QED
  BY <1>2, <1>3 DEF Grows

(* What a badge says stays true.                                            *)
LEMMA EarnedGrows ==
  ASSUME TypeOK, TypeOK', Grows, NEW b, Earned(b)
  PROVE  Earned(b)'
<1>1. progress.total \in Nat /\ progress'.total \in Nat
  BY DEF TypeOK
<1>2. LevelFromXP(progress.total) <= LevelFromXP(progress'.total)
  BY <1>1, LevelMonotone DEF Grows
<1>3. LevelFromXP(progress.total) \in Nat /\ LevelFromXP(progress'.total) \in Nat
  BY <1>1, LevelType
<1>4. \A n \in LevelBadges \cup XPBadges : n \in Nat
  BY RewardsAssumption DEF RewardsAssumption
<1>5. \A n \in LevelBadges : b = <<"level", n>> => LevelFromXP(progress'.total) >= n
  BY <1>2, <1>3, <1>4 DEF Earned
<1>6. \A n \in XPBadges : b = <<"xp", n>> => progress'.total >= n
  BY <1>1, <1>4 DEF Earned, Grows
<1>7. \A n \in StreakBadges : b = <<"streak", n>> =>
        \E last \in active' : LastDays(n, last) \subseteq active'
  BY DEF Earned, Grows
<1>8. b \in {FirstCorrect, QuickThinker} => \E q \in Questions : solved'[q] > 0
  BY DEF Earned, Grows, TypeOK
<1>9. QED
  BY <1>5, <1>6, <1>7, <1>8 DEF Earned, LastDays, FirstCorrect, QuickThinker

(* A statement that waits while others commit stays justified.              *)
LEMMA JustifiedGrows ==
  ASSUME TypeOK, TypeOK', Grows, NEW r \in Requests, Justified(r), pending'[r] = pending[r]
  PROVE  Justified(r)'
<1> DEFINE p == pending[r]
<1>1. p \in Pending /\ progress.total \in Nat /\ progress'.total \in Nat
  BY DEF TypeOK
<1>2. progress.total <= progress'.total /\ active \subseteq active'
  BY <1>1 DEF Grows
<1>3. \A x, y \in Nat : x <= y => LevelFromXP(x) <= LevelFromXP(y)
  BY LevelMonotone
<1>4. p.op \in {"begin", "add_xp"} => p.level <= LevelFromXP(progress'.total + p.award.xp)
  <2> SUFFICES ASSUME p.op \in {"begin", "add_xp"}
               PROVE  p.level <= LevelFromXP(progress'.total + p.award.xp)
    OBVIOUS
  <2>1. p.award \in Award /\ p.level \in Nat
    BY <1>1, PendingFields
  <2>2. p.award.xp \in Nat
    BY <2>1 DEF Award
  <2>3. p.level <= LevelFromXP(progress.total + p.award.xp)
    BY DEF Justified
  <2>4. /\ progress.total + p.award.xp \in Nat /\ progress'.total + p.award.xp \in Nat
        /\ progress.total + p.award.xp <= progress'.total + p.award.xp
    BY <1>1, <1>2, <2>2
  <2> HIDE DEF p
  <2>5. QED
    BY <1>3, <2>1, <2>3, <2>4, LevelType
<1>5. p.op \notin {"idle", "save_card"} /\ p.award.verdict = "correct" =>
        \E q \in Questions : solved'[q] > 0
  BY DEF Justified, Grows, TypeOK
<1>6. p.op = "count_course" =>
        /\ p.got.level <= LevelFromXP(progress'.total)
        /\ p.got.total <= progress'.total
        /\ p.got.streak = 0 \/ \E last \in active' : LastDays(p.got.streak, last) \subseteq active'
  <2> SUFFICES ASSUME p.op = "count_course"
               PROVE  /\ p.got.level <= LevelFromXP(progress'.total)
                      /\ p.got.total <= progress'.total
                      /\ \/ p.got.streak = 0
                         \/ \E last \in active' : LastDays(p.got.streak, last) \subseteq active'
    OBVIOUS
  <2>1. p.got \in Summary
    BY <1>1, PendingFields
  <2>2. p.got.level \in Nat /\ p.got.total \in Nat
    BY <2>1 DEF Summary
  <2>3. /\ p.got.level <= LevelFromXP(progress.total)
        /\ p.got.total <= progress.total
        /\ p.got.streak = 0 \/ \E last \in active : LastDays(p.got.streak, last) \subseteq active
    BY DEF Justified
  <2> HIDE DEF p
  <2>4. p.got.level <= LevelFromXP(progress'.total)
    BY <1>1, <1>2, <1>3, <2>2, <2>3, LevelType
  <2>5. QED
    BY <1>1, <1>2, <2>2, <2>3, <2>4
<1>7. p.op = "badges" => \A b \in p.due : Earned(b)'
  BY EarnedGrows DEF Justified
<1>8. QED
  BY <1>4, <1>5, <1>6, <1>7 DEF Justified, LastDays

(* AddXP stores a level computed for at most the total it stores.           *)
LEMMA LevelStep ==
  ASSUME RewardsInv, [Next]_vars
  PROVE  LevelNeverAhead'
<1>1. CASE UNCHANGED <<progress, active>>
  BY <1>1 DEF RewardsInv, LevelNeverAhead
<1>2. ASSUME NEW r \in Requests, AddXP(r)
      PROVE  LevelNeverAhead'
  <2>1. CASE UNCHANGED <<progress, active>>
    BY <2>1 DEF RewardsInv, LevelNeverAhead
  <2>2. CASE /\ progress'.total = progress.total + pending[r].award.xp
             /\ progress'.level = pending[r].level
    BY <1>2, <2>2 DEF RewardsInv, Justified, AddXP, LevelNeverAhead
  <2>3. progress' = Credited(pending[r]) \/ UNCHANGED <<progress, active>>
    BY <1>2 DEF AddXP
  <2>4. QED
    BY <2>1, <2>2, <2>3 DEF Credited
<1>3. QED
  BY <1>1, <1>2, ProgressMoves

(* The badges that are due were decided on values the tables have since     *)
(* only outgrown.                                                           *)
LEMMA BadgesStep ==
  ASSUME RewardsInv, TypeOK', Grows, [Next]_vars
  PROVE  BadgesAreEarned'
<1>1. \A b \in badges : Earned(b)'
  BY EarnedGrows DEF RewardsInv, BadgesAreEarned
<1>2. CASE UNCHANGED badges
  BY <1>1, <1>2 DEF BadgesAreEarned
<1>3. ASSUME NEW r \in Requests, AwardBadges(r)
      PROVE  BadgesAreEarned'
  <2>1. pending[r].op = "badges" /\ badges' \subseteq badges \cup pending[r].due
    BY <1>3 DEF AwardBadges
  <2>2. \A b \in pending[r].due : Earned(b)
    BY <2>1 DEF RewardsInv, Justified
  <2>3. \A b \in pending[r].due : Earned(b)'
    BY <2>2, EarnedGrows DEF RewardsInv
  <2>4. QED
    BY <1>1, <2>1, <2>3 DEF BadgesAreEarned
<1>4. ASSUME NEW r \in Requests, AwardPerfect(r)
      PROVE  BadgesAreEarned'
  <2>1. badges' \subseteq badges \cup {PerfectRound}
    BY <1>4 DEF AwardPerfect
  <2>2. Earned(PerfectRound)'
    BY DEF Earned, PerfectRound, FirstCorrect, QuickThinker
  <2>3. QED
    BY <1>1, <2>1, <2>2 DEF BadgesAreEarned
<1>5. ASSUME NEW r \in Requests,
             \/ SubmitAnswer(r) \/ AnswerSM2(r) \/ ListProgress(r) \/ BeginAddXP(r) \/ AddXP(r)
             \/ CountCorrectInCourse(r) \/ CountCorrectInRoom(r) \/ GetCard(r) \/ UpsertCard(r)
             \/ Abort(r)
      PROVE  UNCHANGED badges
  BY <1>5 DEF SubmitAnswer, AnswerSM2, ListProgress, BeginAddXP, AddXP, CountCorrectInCourse,
              CountCorrectInRoom, GetCard, UpsertCard, Abort, tables
<1>6. ASSUME RestartRoom \/ NextDay \/ UNCHANGED vars
      PROVE  UNCHANGED badges
  BY <1>6 DEF RestartRoom, NextDay, vars, tables
<1>7. QED
  BY <1>2, <1>3, <1>4, <1>5, <1>6 DEF Next, Continue

(* The level a request is about to store, from the total it has read.       *)
LEMMA ListProgressJustified ==
  ASSUME RewardsInv, NEW r \in Requests, ListProgress(r)
  PROVE  Justified(r)'
<1>1. pending[r] \in Pending /\ pending[r].op = "list_progress" /\ progress.total \in Nat
  BY DEF RewardsInv, TypeOK, ListProgress
<1>2. pending[r].award \in Award
  BY <1>1, PendingFields
<1>3. pending[r].award.xp \in Nat
  BY <1>2 DEF Award
<1>4. PICK prevTotal \in {progress.total, 0} :
        pending'[r] = [op |-> "begin", award |-> pending[r].award,
                       level |-> LevelFromXP(prevTotal + pending[r].award.xp)]
  BY DEF RewardsInv, TypeOK, ListProgress, Then
<1>5. LevelFromXP(prevTotal + pending[r].award.xp) <= LevelFromXP(progress.total + pending[r].award.xp)
  <2>1. /\ prevTotal + pending[r].award.xp \in Nat /\ progress.total + pending[r].award.xp \in Nat
        /\ prevTotal + pending[r].award.xp <= progress.total + pending[r].award.xp
    BY <1>1, <1>3
  <2>2. QED
    BY <2>1, LevelMonotone
<1>6. UNCHANGED <<progress, solved>>
  BY DEF ListProgress, tables, history
<1>7. pending[r].award.verdict = "correct" => \E q \in Questions : solved[q] > 0
  BY <1>1 DEF RewardsInv, Justified
<1>8. QED
  BY <1>4, <1>5, <1>6, <1>7 DEF Justified

(* The badges are decided on what AddXP has just stored, or on nothing.     *)
LEMMA AddXPJustified ==
  ASSUME RewardsInv, TypeOK', NEW r \in Requests, AddXP(r), StreakIsEarned', LevelNeverAhead'
  PROVE  Justified(r)'
<1>1. pending[r].op = "add_xp"
  BY DEF AddXP
<1>2. pending[r].award.verdict = "correct" => \E q \in Questions : solved[q] > 0
  BY <1>1 DEF RewardsInv, Justified
<1>3. UNCHANGED solved
  BY DEF AddXP
<1>4. progress'.total \in Nat
  BY DEF TypeOK
<1>5. PICK got \in [total : {progress'.total}, level : {progress'.level}, streak : {progress'.streak}]
                   \cup [total : {0}, level : {0}, streak : {0}] :
        /\ pending'[r] = [op |-> "count_course", award |-> pending[r].award, got |-> got]
        /\ got.streak # 0 => progress'.last \in active' /\ got.streak = progress'.streak
  BY DEF AddXP, Credited, Uncredited, Then, RewardsInv, TypeOK
<1>6. got.level <= LevelFromXP(progress'.total) /\ got.total <= progress'.total
  BY <1>4, <1>5, LevelType DEF LevelNeverAhead
<1>7. got.streak = 0 \/ \E last \in active' : LastDays(got.streak, last) \subseteq active'
  BY <1>5 DEF StreakIsEarned, LastDays
<1>8. QED
  BY <1>2, <1>3, <1>5, <1>6, <1>7 DEF Justified, LastDays

(* A badge is due only when the student has earned it.                      *)
LEMMA DueIsEarned ==
  ASSUME RewardsInv, NEW r \in Requests, CountCorrectInCourse(r)
  PROVE  Justified(r)'
<1> DEFINE p == pending[r]
<1>1. p \in Pending /\ p.op = "count_course" /\ progress.total \in Nat
  BY DEF RewardsInv, TypeOK, CountCorrectInCourse
<1>2. p.got \in Summary
  BY <1>1, PendingFields
<1>3. p.got.level \in Nat /\ p.got.total \in Nat /\ p.got.streak \in Nat
  BY <1>2 DEF Summary
<1>4. /\ p.award.verdict = "correct" => \E q \in Questions : solved[q] > 0
      /\ p.got.level <= LevelFromXP(progress.total)
      /\ p.got.total <= progress.total
      /\ p.got.streak = 0 \/ \E last \in active : LastDays(p.got.streak, last) \subseteq active
  BY <1>1 DEF RewardsInv, Justified
<1>5. PICK count :
        pending'[r] = [op |-> "badges", award |-> p.award, due |-> Due(p.award, p.got, count)]
  BY DEF RewardsInv, TypeOK, CountCorrectInCourse, Then
<1> DEFINE due == Due(p.award, p.got, count)
<1> HIDE DEF p
<1>6. ASSUME NEW b \in due
      PROVE  Earned(b)
  <2>1. \A n \in LevelBadges \cup StreakBadges \cup XPBadges : n \in Nat \ {0}
    BY RewardsAssumption DEF RewardsAssumption
  <2>2. CASE b \in {FirstCorrect, QuickThinker} /\ p.award.verdict = "correct"
    BY <1>4, <2>2 DEF Earned, FirstCorrect, QuickThinker
  <2>3. ASSUME NEW n \in LevelBadges, b = <<"level", n>>, p.got.level >= n
        PROVE  Earned(b)
    <3>1. LevelFromXP(progress.total) >= n
      BY <1>1, <1>3, <1>4, <2>1, <2>3, LevelType
    <3>2. QED
      BY <2>3, <3>1 DEF Earned, FirstCorrect, QuickThinker
  <2>4. ASSUME NEW n \in StreakBadges, b = <<"streak", n>>, p.got.streak >= n
        PROVE  Earned(b)
    <3>1. PICK last \in active : LastDays(p.got.streak, last) \subseteq active
      BY <1>3, <1>4, <2>1, <2>4
    <3>2. LastDays(n, last) \subseteq LastDays(p.got.streak, last)
      BY <1>3, <2>1, <2>4 DEF LastDays
    <3>3. QED
      BY <2>4, <3>1, <3>2 DEF Earned, FirstCorrect, QuickThinker
  <2>5. ASSUME NEW n \in XPBadges, b = <<"xp", n>>, p.got.total >= n
        PROVE  Earned(b)
    <3>1. progress.total >= n
      BY <1>1, <1>3, <1>4, <2>1, <2>5
    <3>2. QED
      BY <2>5, <3>1 DEF Earned, FirstCorrect, QuickThinker
  <2>6. QED
    BY <1>6, <2>2, <2>3, <2>4, <2>5 DEF Due
<1>7. UNCHANGED <<progress, active, solved>>
  BY DEF CountCorrectInCourse, tables, history
<1>8. \A b \in due : Earned(b)'
  BY <1>6, <1>7 DEF Earned, LastDays
<1> HIDE DEF due
<1>9. QED
  BY <1>4, <1>5, <1>7, <1>8 DEF Justified, due

(* A statement that only hands on the answer being rewarded, or ends the    *)
(* request.                                                                 *)
LEMMA HandOn ==
  ASSUME RewardsInv, TypeOK', Grows, NEW r \in Requests, NEW op \in {"count_room", "perfect", "get_card"},
         pending[r].op \notin {"idle", "save_card"},
         pending'[r] = [op |-> op, award |-> pending[r].award]
  PROVE  Justified(r)'
<1>1. pending[r].award.verdict = "correct" => \E q \in Questions : solved[q] > 0
  BY DEF RewardsInv, Justified
<1>2. pending[r].award.verdict = "correct" => \E q \in Questions : solved'[q] > 0
  <2>1. \A q \in Questions : solved[q] \in Nat /\ solved'[q] \in Nat
    BY DEF RewardsInv, TypeOK
  <2>2. QED
    BY <1>1, <2>1 DEF Grows
<1>3. QED
  BY <1>2 DEF Justified

(* A request that has ended, or is left with its card, rests on nothing more.*)
LEMMA Ended ==
  ASSUME NEW r \in Requests, pending'[r].op \in {"idle", "save_card"}
  PROVE  Justified(r)'
  BY DEF Justified

(* Every step keeps every request justified: the one that moves by what it  *)
(* has just read, the others because what they read has only grown.         *)
LEMMA JustifiedStep ==
  ASSUME RewardsInv, TypeOK', Grows, StreakIsEarned', LevelNeverAhead', [Next]_vars
  PROVE  \A s \in Requests : Justified(s)'
<1>0. TypeOK /\ pending \in [Requests -> Pending] /\ \A s \in Requests : Justified(s)
  BY DEF RewardsInv, TypeOK
<1>1. ASSUME NEW r \in Requests, NEW p, Then(r, p), Justified(r)'
      PROVE  \A s \in Requests : Justified(s)'
  <2>1. \A s \in Requests : s # r => pending'[s] = pending[s]
    BY <1>0, <1>1 DEF Then
  <2>2. \A s \in Requests : s # r => Justified(s)'
    BY <1>0, <2>1, JustifiedGrows
  <2>3. QED
    BY <1>1, <2>2
<1>2. CASE UNCHANGED pending
  BY <1>0, <1>2, JustifiedGrows
<1>3. ASSUME NEW r \in Requests, SubmitAnswer(r)
      PROVE  \E p : Then(r, p) /\ Justified(r)'
  <2>0. PICK q \in Questions, v \in Verdicts :
          \E p : /\ Solve(q, v) /\ Then(r, p)
                /\ p.op = "list_progress" /\ p.award.verdict = v
    BY <1>3 DEF SubmitAnswer, Marks
  <2>1. PICK p : /\ Solve(q, v) /\ Then(r, p)
                 /\ p.op = "list_progress" /\ p.award.verdict = v
    BY <2>0
  <2>2. v = "correct" => solved'[q] > 0
    BY <1>0, <2>1 DEF Solve, TypeOK
  <2>3. pending'[r] = p
    BY <1>0, <2>1 DEF Then
  <2>4. QED
    BY <2>1, <2>2, <2>3 DEF Justified
<1>4. ASSUME NEW r \in Requests, ListProgress(r)
      PROVE  \E p : Then(r, p) /\ Justified(r)'
  BY <1>4, ListProgressJustified DEF ListProgress
<1>5. ASSUME NEW r \in Requests, BeginAddXP(r)
      PROVE  \E p : Then(r, p) /\ Justified(r)'
  <2>1. /\ Then(r, [op |-> "add_xp", award |-> pending[r].award, level |-> pending[r].level,
                    today |-> day])
        /\ pending[r].op = "begin" /\ UNCHANGED <<progress, solved>>
    BY <1>5 DEF BeginAddXP, tables, history
  <2>2. pending'[r] = [op |-> "add_xp", award |-> pending[r].award, level |-> pending[r].level,
                       today |-> day]
    BY <1>0, <2>1 DEF Then
  <2>3. Justified(r)
    BY <1>0
  <2>4. QED
    BY <2>1, <2>2, <2>3 DEF Justified
<1>6. ASSUME NEW r \in Requests, AddXP(r)
      PROVE  \E p : Then(r, p) /\ Justified(r)'
  BY <1>6, AddXPJustified DEF AddXP
<1>7. ASSUME NEW r \in Requests, CountCorrectInCourse(r)
      PROVE  \E p : Then(r, p) /\ Justified(r)'
  BY <1>7, DueIsEarned DEF CountCorrectInCourse
<1>8. ASSUME NEW r \in Requests, AwardBadges(r) \/ CountCorrectInRoom(r) \/ AwardPerfect(r)
      PROVE  \E p : Then(r, p) /\ Justified(r)'
  <2>1. PICK op \in {"count_room", "perfect", "get_card"} :
          Then(r, [op |-> op, award |-> pending[r].award])
    BY <1>8 DEF AwardBadges, CountCorrectInRoom, AwardPerfect
  <2>2. pending[r].op \notin {"idle", "save_card"}
    BY <1>8 DEF AwardBadges, CountCorrectInRoom, AwardPerfect
  <2>3. pending'[r] = [op |-> op, award |-> pending[r].award]
    BY <1>0, <2>1 DEF Then
  <2>4. Justified(r)'
    BY <2>2, <2>3, HandOn
  <2>5. QED
    BY <2>1, <2>4
<1>9. ASSUME NEW r \in Requests, GetCard(r) \/ AnswerSM2(r) \/ UpsertCard(r) \/ Abort(r)
      PROVE  \E p : Then(r, p) /\ Justified(r)'
  <2>1. ASSUME NEW p, Then(r, p), p.op \in {"idle", "save_card"}
        PROVE  \E x : Then(r, x) /\ Justified(r)'
    <3>1. pending'[r] = p
      BY <1>0, <2>1 DEF Then
    <3>2. QED
      BY <2>1, <3>1, Ended
  <2>2. CASE Then(r, Idle)
    BY <2>1, <2>2 DEF Idle
  <2>3. CASE \E q, c : Then(r, [op |-> "save_card", question |-> q, card |-> c])
    BY <2>1, <2>3
  <2>4. GetCard(r) => Then(r, Idle) \/ \E q, c : Then(r, [op |-> "save_card", question |-> q, card |-> c])
    BY DEF GetCard
  <2>5. AnswerSM2(r) => \E q, c : Then(r, [op |-> "save_card", question |-> q, card |-> c])
    BY DEF AnswerSM2
  <2>6. UpsertCard(r) \/ Abort(r) => Then(r, Idle)
    BY DEF UpsertCard, Abort
  <2>7. QED
    BY <1>9, <2>2, <2>3, <2>4, <2>5, <2>6
<1>10. CASE RestartRoom \/ NextDay \/ UNCHANGED vars
  BY <1>2, <1>10 DEF RestartRoom, NextDay, vars
<1>11. (\E r \in Requests : \E p : Then(r, p) /\ Justified(r)') \/ RestartRoom \/ NextDay \/ UNCHANGED vars
  BY <1>3, <1>4, <1>5, <1>6, <1>7, <1>8, <1>9 DEF Next, Continue
<1>12. QED
  BY <1>1, <1>10, <1>11

(* With nothing earned there is nothing to justify.                         *)
LEMMA InvInit == Init => RewardsInv
<1> SUFFICES ASSUME Init
             PROVE  RewardsInv
  OBVIOUS
<1>1. TypeOK /\ CardsInv
  BY TypeInit
<1>2. LevelFromXP(0) \in Nat
  BY LevelType
<1>3. progress.level = 0 /\ progress.total = 0
  BY DEF Init
<1>4. LevelNeverAhead
  BY <1>2, <1>3 DEF LevelNeverAhead
<1>5. \A r \in Requests : Justified(r)
  BY DEF Init, Idle, Justified
<1>6. StreakIsEarned /\ BadgesAreEarned
  BY DEF Init, StreakIsEarned, LastDays, BadgesAreEarned
<1>7. QED
  BY <1>1, <1>4, <1>5, <1>6 DEF RewardsInv

(* The parts of the invariant, one lemma each, are kept together.           *)
LEMMA InvStep == RewardsInv /\ [Next]_vars => RewardsInv'
<1> SUFFICES ASSUME RewardsInv, [Next]_vars
             PROVE  RewardsInv'
  OBVIOUS
<1>1. TypeOK /\ CardsInv /\ StreakIsEarned
  BY DEF RewardsInv
<1>2. TypeOK' /\ CardsInv'
  BY <1>1, TypeStep
<1>3. StreakIsEarned'
  BY <1>1, StreakStep
<1>4. Grows
  BY <1>1, GrowsStep
<1>5. LevelNeverAhead'
  BY LevelStep
<1>6. BadgesAreEarned'
  BY <1>2, <1>4, BadgesStep
<1>7. \A r \in Requests : Justified(r)'
  BY <1>2, <1>3, <1>4, <1>5, JustifiedStep
<1>8. QED
  BY <1>2, <1>3, <1>5, <1>6, <1>7 DEF RewardsInv

(* A level is computed from a total another answer may have raised since,   *)
(* or from no total at all, and may lag; it never runs ahead.               *)
THEOREM LevelBounded == Spec => []LevelNeverAhead
<1>1. RewardsInv => LevelNeverAhead
  BY DEF RewardsInv
<1>2. QED
  BY <1>1, InvInit, InvStep, PTL DEF Spec

(* However many answers are rewarded at once, and whatever fails meanwhile, *)
(* a badge is only given to a student who has earned it.                    *)
THEOREM BadgesEarned == Spec => []BadgesAreEarned
<1>1. RewardsInv => BadgesAreEarned
  BY DEF RewardsInv
<1>2. QED
  BY <1>1, InvInit, InvStep, PTL DEF Spec

(* No step takes experience, an active day or a solved question away.       *)
THEOREM NothingIsTakenAway == Spec => [][Grows]_vars
<1>1. TypeOK /\ [Next]_vars => [Grows]_vars
  BY GrowsStep
<1>2. QED
  BY <1>1, TypeCorrect, PTL DEF Spec
-----------------------------------------------------------------------------
(* Repetitions *)

(* Request r rewards a correct answer to q, and has not read the card yet.  *)
Carries(r, q) ==
  /\ pending[r].op \in {"list_progress", "begin", "add_xp", "count_course", "badges",
                        "count_room", "perfect", "get_card"}
  /\ pending[r].award.question = q /\ pending[r].award.verdict = "correct"

Carriers(q) == {r \in Requests : Carries(r, q)}

(* Why no repetition is invented: every correct answer is on its way to the *)
(* card, or in it, or lost, and the card about to be written was read when  *)
(* the answers now on their way were on their way already, or later ones.   *)
RepsInv(q) ==
  LET n == Cardinality(Carriers(q))
  IN  /\ IsFiniteSet(Carriers(q))
      /\ n <= solved[q]
      /\ cards[q] # NoCard => cards[q].reps + n <= solved[q]
      /\ \A r \in Requests : pending[r].op = "save_card" /\ pending[r].question = q =>
           pending[r].card.reps + n <= solved[q]

(* Nothing new is on its way, and what is written or about to be written is *)
(* covered.                                                                 *)
LEMMA RepsKept ==
  ASSUME TypeOK, TypeOK', NEW q \in Questions, RepsInv(q), NEW r \in Requests, NEW p, Then(r, p),
         Carries(r, q)' => Carries(r, q), solved'[q] >= solved[q],
         \/ cards'[q] = cards[q]
         \/ pending[r].op = "save_card" /\ pending[r].question = q /\ cards'[q] = pending[r].card,
         p.op = "save_card" /\ p.question = q =>
           p.card.reps + Cardinality(Carriers(q)') <= solved'[q]
  PROVE  RepsInv(q)'
<1> DEFINE m == Cardinality(Carriers(q)')
           n == Cardinality(Carriers(q))
<1>1. /\ pending'[r] = p /\ \A s \in Requests : s # r => pending'[s] = pending[s]
      /\ solved[q] \in Nat /\ solved'[q] \in Nat
      /\ cards[q] # NoCard => cards[q].reps \in Nat
      /\ \A s \in Requests : pending[s] \in Pending
  BY DEF TypeOK, Then, Card
<1>2. Carriers(q)' \subseteq Carriers(q)
  BY <1>1 DEF Carriers, Carries
<1>3. IsFiniteSet(Carriers(q)) /\ n \in Nat
  BY FS_CardinalityType DEF RepsInv
<1>4. IsFiniteSet(Carriers(q)') /\ m \in Nat /\ m <= n
  BY <1>2, <1>3, FS_Subset, FS_CardinalityType
<1>5. \A s \in Requests : pending[s].op = "save_card" => pending[s].card.reps \in Nat
  BY <1>1, PendingFields DEF Card
<1> HIDE DEF m, n
<1>6. m <= solved'[q]
  BY <1>1, <1>3, <1>4 DEF RepsInv, n
<1>7. cards'[q] # NoCard => cards'[q].reps + m <= solved'[q]
  <2>1. CASE cards'[q] = cards[q]
    BY <1>1, <1>3, <1>4, <2>1 DEF RepsInv, n
  <2>2. CASE pending[r].op = "save_card" /\ pending[r].question = q /\ cards'[q] = pending[r].card
    <3>1. pending[r].card.reps + n <= solved[q] /\ pending[r].card.reps \in Nat
      BY <1>5, <2>2 DEF RepsInv, n
    <3> QED
      BY <1>1, <1>3, <1>4, <2>2, <3>1
  <2> QED
    BY <2>1, <2>2
<1>8. ASSUME NEW s \in Requests, pending'[s].op = "save_card", pending'[s].question = q
      PROVE  pending'[s].card.reps + m <= solved'[q]
  <2>1. CASE s = r
    BY <1>1, <1>8, <2>1 DEF m
  <2>2. CASE s # r
    <3>1. pending'[s] = pending[s]
      BY <1>1, <2>2
    <3>2. pending[s].card.reps + n <= solved[q] /\ pending[s].card.reps \in Nat
      BY <1>5, <1>8, <3>1 DEF RepsInv, n
    <3> QED
      BY <1>1, <1>3, <1>4, <3>1, <3>2
  <2> QED
    BY <2>1, <2>2
<1> QED
  BY <1>4, <1>6, <1>7, <1>8 DEF RepsInv, m

(* An answer sets out: if it is a correct one to q, both sides grow by one. *)
LEMMA RepsSetOut ==
  ASSUME TypeOK, TypeOK', NEW q \in Questions, RepsInv(q), NEW r \in Requests, SubmitAnswer(r)
  PROVE  RepsInv(q)'
<1>1. PICK k \in Questions, v \in Verdicts :
        \E p : /\ Solve(k, v) /\ Then(r, p)
               /\ p.op = "list_progress" /\ p.award.question = k /\ p.award.verdict = v
  BY DEF SubmitAnswer, Marks
<1>2. PICK p : /\ Solve(k, v) /\ Then(r, p)
               /\ p.op = "list_progress" /\ p.award.question = k /\ p.award.verdict = v
  BY <1>1
<1>3. pending[r] = Idle /\ UNCHANGED cards
  BY DEF SubmitAnswer, Calls
<1>4. /\ pending'[r] = p /\ \A s \in Requests : s # r => pending'[s] = pending[s]
      /\ solved \in [Questions -> Nat] /\ solved'[q] \in Nat /\ solved[q] \in Nat
      /\ cards[q] # NoCard => cards[q].reps \in Nat
      /\ \A s \in Requests : pending[s] \in Pending
  BY <1>2 DEF TypeOK, Then, Card
<1>5. CASE k = q /\ v = "correct"
  <2> DEFINE n == Cardinality(Carriers(q))
  <2>1. solved'[q] = solved[q] + 1
    BY <1>2, <1>4, <1>5 DEF Solve
  <2>2. Carriers(q)' = Carriers(q) \cup {r} /\ r \notin Carriers(q)
    BY <1>2, <1>3, <1>4, <1>5 DEF Carriers, Carries, Idle
  <2>3. /\ IsFiniteSet(Carriers(q)') /\ Cardinality(Carriers(q)') = n + 1 /\ n \in Nat
    BY <2>2, FS_AddElement, FS_CardinalityType DEF RepsInv
  <2>4. \A s \in Requests : pending[s].op = "save_card" => pending[s].card.reps \in Nat
    BY <1>4, PendingFields DEF Card
  <2>5. /\ n <= solved[q]
        /\ cards[q] # NoCard => cards[q].reps + n <= solved[q]
        /\ \A s \in Requests : pending[s].op = "save_card" /\ pending[s].question = q =>
             pending[s].card.reps + n <= solved[q]
    BY DEF RepsInv
  <2> HIDE DEF n
  <2>6. cards'[q] # NoCard => cards'[q].reps + (n + 1) <= solved'[q]
    BY <1>3, <1>4, <2>1, <2>3, <2>5
  <2>7. ASSUME NEW s \in Requests, pending'[s].op = "save_card", pending'[s].question = q
        PROVE  pending'[s].card.reps + (n + 1) <= solved'[q]
    <3>1. pending'[s] = pending[s]
      BY <1>2, <1>4, <2>7
    <3> QED
      BY <1>4, <2>1, <2>3, <2>4, <2>5, <2>7, <3>1
  <2>8. n + 1 <= solved'[q]
    BY <1>4, <2>1, <2>3, <2>5
  <2> QED
    BY <2>3, <2>6, <2>7, <2>8 DEF RepsInv
<1>6. CASE ~(k = q /\ v = "correct")
  <2>1. solved'[q] = solved[q]
    BY <1>2, <1>4, <1>6 DEF Solve
  <2>2. ~Carries(r, q)'
    BY <1>2, <1>4, <1>6 DEF Carries
  <2> QED
    BY <1>2, <1>3, <1>4, <2>1, <2>2, RepsKept
<1> QED
  BY <1>5, <1>6

(* What a review of a card does to its repetitions.                         *)
LEMMA ReviewedReps ==
  ASSUME TypeOK, CardsAreShaped, NEW q \in Questions, NEW correct \in BOOLEAN,
         NEW t \in Timings, NEW c \in Reviewed(q, correct, t)
  PROVE  /\ ~correct => c.reps = 0
         /\ correct /\ cards[q] = NoCard => c.reps = 1
         /\ correct /\ cards[q] # NoCard => c.reps = cards[q].reps + 1
<1> DEFINE s == IF cards[q] = NoCard THEN NewSm2State ELSE cards[q]
           score == QScore(correct, t[1], t[2])
<1>1. NewSm2State \in Card /\ NewSm2State.reps = 0
  BY DEF NewSm2State, Card
<1>2. s \in Card /\ (s = NewSm2State \/ CardShape(s))
  BY <1>1 DEF TypeOK, CardsAreShaped
<1>3. t[1] \in Nat /\ t[2] \in Nat /\ day \in Nat
  BY RewardsAssumption DEF RewardsAssumption, TypeOK, Days
<1>4. score \in 1 .. 5 /\ (score >= 3 <=> correct)
  BY <1>3, QScoreRange
<1>5. c \in Sm2Update(s, score, day)
  BY DEF Reviewed
<1> HIDE DEF s, score
<1>6. c.reps = IF score >= 3 THEN s.reps + 1 ELSE 0
  BY <1>2, <1>3, <1>4, <1>5, Sm2Shape
<1> QED
  BY <1>1, <1>4, <1>6 DEF s

(* Every step keeps RepsInv: the answer that is handed on is still on its   *)
(* way, the one that reads the card leaves the way and enters the card.     *)
LEMMA RepsStep ==
  ASSUME TypeOK, TypeOK', CardsInv, [Next]_vars, NEW q \in Questions, RepsInv(q)
  PROVE  RepsInv(q)'
<1>0. /\ pending \in [Requests -> Pending] /\ solved \in [Questions -> Nat]
      /\ solved[q] \in Nat /\ \A r \in Requests : pending[r] \in Pending
      /\ CardsAreShaped /\ IsFiniteSet(Carriers(q)) /\ Cardinality(Carriers(q)) \in Nat
      /\ cards[q] # NoCard => cards[q].reps \in Nat
  BY FS_CardinalityType DEF TypeOK, CardsInv, RepsInv, Card
<1>1. ASSUME NEW r \in Requests, SubmitAnswer(r)
      PROVE  RepsInv(q)'
  BY <1>1, RepsSetOut
<1>2. ASSUME NEW r \in Requests, AnswerSM2(r)
      PROVE  RepsInv(q)'
  <2>1. PICK k \in Questions, t \in Timings : \E v \in Marks(k) :
          /\ cards[k] # NoCard
          /\ Solve(k, v)
          /\ \E c \in Reviewed(k, v = "correct", t) :
               Then(r, [op |-> "save_card", question |-> k, card |-> c])
    BY <1>2 DEF AnswerSM2
  <2>2. PICK v \in Marks(k) :
          /\ cards[k] # NoCard
          /\ Solve(k, v)
          /\ \E c \in Reviewed(k, v = "correct", t) :
               Then(r, [op |-> "save_card", question |-> k, card |-> c])
    BY <2>1
  <2>3. PICK c \in Reviewed(k, v = "correct", t) :
          Then(r, [op |-> "save_card", question |-> k, card |-> c])
    BY <2>2
  <2>4. pending[r] = Idle /\ UNCHANGED cards
    BY <1>2 DEF AnswerSM2, Calls, tables
  <2> DEFINE p == [op |-> "save_card", question |-> k, card |-> c]
  <2>5. pending'[r] = p /\ \A s \in Requests : s # r => pending'[s] = pending[s]
    BY <1>0, <2>3 DEF Then
  <2>6. ~Carries(r, q)' /\ ~Carries(r, q)
    BY <2>4, <2>5 DEF Carries, Idle
  <2>7. Carriers(q)' = Carriers(q)
    BY <2>5, <2>6 DEF Carriers, Carries
  <2>8. solved'[q] >= solved[q] /\ (k = q /\ v = "correct" => solved'[q] = solved[q] + 1)
    BY <1>0, <2>2 DEF Solve
  <2>9. k = q => c.reps + Cardinality(Carriers(q)') <= solved'[q]
    <3> SUFFICES ASSUME k = q PROVE c.reps + Cardinality(Carriers(q)) <= solved'[q]
      BY <2>7
    <3>1. CASE v = "correct"
      <4>1. c.reps = cards[q].reps + 1
        BY <1>0, <2>2, <2>3, <3>1, ReviewedReps
      <4> QED
        BY <1>0, <2>2, <2>8, <3>1, <4>1 DEF RepsInv
    <3>2. CASE v # "correct"
      <4>1. c.reps = 0
        BY <1>0, <2>3, <3>2, ReviewedReps
      <4>2. solved'[q] = solved[q]
        BY <1>0, <2>2, <3>2 DEF Solve
      <4> QED
        BY <1>0, <4>1, <4>2 DEF RepsInv
    <3> QED
      BY <3>1, <3>2
  <2>10. p.op = "save_card" /\ p.question = k /\ p.card = c
    OBVIOUS
  <2> HIDE DEF p
  <2>11. Then(r, p)
    BY <2>3 DEF p
  <2> QED
    BY <2>4, <2>6, <2>8, <2>9, <2>10, <2>11, RepsKept
<1>3. ASSUME NEW r \in Requests, NEW p, Then(r, p), UNCHANGED <<cards, solved>>,
             p.op # "save_card", Carries(r, q)' => Carries(r, q)
      PROVE  RepsInv(q)'
  BY <1>0, <1>3, RepsKept
<1>4. ASSUME NEW r \in Requests, NEW p, Then(r, p), UNCHANGED <<cards, solved>>,
             pending[r].op \in {"list_progress", "begin", "add_xp", "count_course", "badges",
                                "count_room", "perfect"},
             p.op \in {"begin", "add_xp", "count_course", "badges", "count_room", "perfect", "get_card"},
             p.award = pending[r].award
      PROVE  RepsInv(q)'
  <2>1. pending'[r] = p
    BY <1>0, <1>4 DEF Then
  <2>2. Carries(r, q)' => Carries(r, q)
    BY <1>4, <2>1 DEF Carries
  <2> QED
    BY <1>3, <1>4, <2>2
<1>5. ASSUME NEW r \in Requests, ListProgress(r) \/ BeginAddXP(r) \/ AddXP(r) \/ CountCorrectInCourse(r)
                                 \/ AwardBadges(r) \/ CountCorrectInRoom(r) \/ AwardPerfect(r)
      PROVE  RepsInv(q)'
  <2>1. UNCHANGED <<cards, solved>>
    BY <1>5 DEF ListProgress, BeginAddXP, AddXP, CountCorrectInCourse, AwardBadges,
                CountCorrectInRoom, AwardPerfect, tables, history
  <2>2. /\ pending[r].op \in {"list_progress", "begin", "add_xp", "count_course", "badges",
                              "count_room", "perfect"}
        /\ \E p : /\ Then(r, p) /\ p.award = pending[r].award
                  /\ p.op \in {"begin", "add_xp", "count_course", "badges", "count_room", "perfect", "get_card"}
    <3>1. CASE ListProgress(r)
      <4>1. pending[r].op = "list_progress"
        BY <3>1 DEF ListProgress
      <4>2. PICK level : Then(r, [op |-> "begin", award |-> pending[r].award, level |-> level])
        BY <3>1 DEF ListProgress
      <4> QED
        BY <4>1, <4>2
    <3>5. CASE BeginAddXP(r)
      <4>1. pending[r].op = "begin"
        BY <3>5 DEF BeginAddXP
      <4>2. Then(r, [op |-> "add_xp", award |-> pending[r].award, level |-> pending[r].level, today |-> day])
        BY <3>5 DEF BeginAddXP
      <4> QED
        BY <4>1, <4>2
    <3>2. CASE AddXP(r)
      <4>1. PICK got : Then(r, [op |-> "count_course", award |-> pending[r].award, got |-> got])
        BY <3>2 DEF AddXP
      <4>2. pending[r].op = "add_xp"
        BY <3>2 DEF AddXP
      <4> QED
        BY <4>1, <4>2
    <3>3. CASE CountCorrectInCourse(r)
      <4>1. PICK due : Then(r, [op |-> "badges", award |-> pending[r].award, due |-> due])
        BY <3>3 DEF CountCorrectInCourse
      <4> QED
        BY <3>3, <4>1 DEF CountCorrectInCourse
    <3>4. CASE AwardBadges(r) \/ CountCorrectInRoom(r) \/ AwardPerfect(r)
      <4>1. PICK op \in {"count_room", "perfect", "get_card"} :
              Then(r, [op |-> op, award |-> pending[r].award])
        BY <3>4 DEF AwardBadges, CountCorrectInRoom, AwardPerfect
      <4> QED
        BY <3>4, <4>1 DEF AwardBadges, CountCorrectInRoom, AwardPerfect
    <3> QED
      BY <1>5, <3>1, <3>2, <3>3, <3>4, <3>5
  <2> QED
    BY <1>4, <2>1, <2>2
<1>6. ASSUME NEW r \in Requests, GetCard(r)
      PROVE  RepsInv(q)'
  <2> DEFINE a == pending[r].award
  <2>1. pending[r].op = "get_card" /\ a \in Award /\ UNCHANGED <<cards, solved>>
    BY <1>0, <1>6, PendingFields DEF GetCard, tables, history
  <2>2. CASE a.verdict = "unchecked"
    <3>1. Then(r, Idle) /\ Idle.op # "save_card" /\ ~Carries(r, q)'
      BY <1>0, <1>6, <2>2 DEF GetCard, Then, Carries, Idle
    <3> QED
      BY <1>3, <2>1, <3>1
  <2>3. CASE a.verdict # "unchecked"
    <3>1. PICK c \in Reviewed(a.question, a.verdict = "correct", a.time) :
            Then(r, [op |-> "save_card", question |-> a.question, card |-> c])
      BY <1>6, <2>3 DEF GetCard
    <3>2. a.question \in Questions /\ a.time \in Timings /\ (a.verdict = "correct") \in BOOLEAN
      BY <2>1 DEF Award
    <3> DEFINE p == [op |-> "save_card", question |-> a.question, card |-> c]
    <3>3. pending'[r] = p /\ \A s \in Requests : s # r => pending'[s] = pending[s]
      BY <1>0, <3>1 DEF Then
    <3>4. ~Carries(r, q)'
      BY <3>3 DEF Carries
    <3>5. p.op = "save_card" /\ p.question = a.question /\ p.card = c
      OBVIOUS
    <3>6. a.question = q => c.reps + Cardinality(Carriers(q)') <= solved'[q]
      <4> SUFFICES ASSUME a.question = q PROVE c.reps + Cardinality(Carriers(q)') <= solved[q]
        BY <2>1
      <4>1. CASE a.verdict = "correct"
        <5>1. r \in Carriers(q)
          BY <2>1, <4>1 DEF Carriers, Carries
        <5>2. Carriers(q)' = Carriers(q) \ {r}
          BY <3>3, <3>4 DEF Carriers, Carries
        <5>3. Cardinality(Carriers(q)') = Cardinality(Carriers(q)) - 1
          <6>1. IsFiniteSet(Carriers(q))
            BY <1>0
          <6>2. Cardinality(Carriers(q) \ {r}) = Cardinality(Carriers(q)) - 1
            BY <5>1, <6>1, FS_RemoveElement
          <6> QED
            BY <5>2, <6>2
        <5>4. c \in Reviewed(q, TRUE, a.time)
          BY <3>1, <4>1
        <5>5. /\ cards[q] = NoCard => c.reps = 1
              /\ cards[q] # NoCard => c.reps = cards[q].reps + 1
          BY <1>0, <3>2, <5>4, ReviewedReps
        <5> QED
          BY <1>0, <5>3, <5>5 DEF RepsInv
      <4>2. CASE a.verdict # "correct"
        <5>1. c.reps = 0
          BY <1>0, <3>1, <3>2, <4>2, ReviewedReps
        <5>2. Carriers(q)' = Carriers(q)
          BY <3>3, <3>4, <4>2 DEF Carriers, Carries
        <5> QED
          BY <1>0, <5>1, <5>2 DEF RepsInv
      <4> QED
        BY <4>1, <4>2
    <3> HIDE DEF p
    <3>7. Then(r, p)
      BY <3>1 DEF p
    <3> QED
      BY <1>0, <2>1, <3>4, <3>5, <3>6, <3>7, RepsKept
  <2> QED
    BY <2>2, <2>3
<1>7. ASSUME NEW r \in Requests, UpsertCard(r)
      PROVE  RepsInv(q)'
  <2>1. /\ pending[r].op = "save_card" /\ Then(r, Idle) /\ UNCHANGED solved
        /\ \/ cards' = [cards EXCEPT ![pending[r].question] = pending[r].card]
           \/ cards' = cards
    BY <1>7 DEF UpsertCard, history
  <2>2. \/ cards'[q] = cards[q]
        \/ pending[r].question = q /\ cards'[q] = pending[r].card
    BY <2>1 DEF TypeOK
  <2>3. Idle.op # "save_card" /\ ~Carries(r, q)'
    BY <1>0, <2>1 DEF Then, Carries, Idle
  <2> QED
    BY <1>0, <2>1, <2>2, <2>3, RepsKept
<1>8. ASSUME NEW r \in Requests, Abort(r)
      PROVE  RepsInv(q)'
  <2>1. Then(r, Idle) /\ UNCHANGED <<cards, solved>>
    BY <1>8 DEF Abort, tables, history
  <2>2. Idle.op # "save_card" /\ ~Carries(r, q)'
    BY <1>0, <2>1 DEF Then, Carries, Idle
  <2> QED
    BY <1>3, <2>1, <2>2
<1>9. CASE RestartRoom \/ NextDay \/ UNCHANGED vars
  <2>1. UNCHANGED <<cards, solved, pending>>
    BY <1>9 DEF RestartRoom, NextDay, vars, tables, history
  <2>2. Carriers(q)' = Carriers(q)
    BY <2>1 DEF Carriers, Carries
  <2> QED
    BY <2>1, <2>2 DEF RepsInv
<1> QED
  BY <1>1, <1>2, <1>5, <1>6, <1>7, <1>8, <1>9 DEF Next, Continue

(* Concurrent reviews of a card may overwrite one another, and what is lost *)
(* is lost; but a card never shows more repetitions than there were correct *)
(* answers, however many of them are on their way to it at once.            *)
THEOREM RepetitionsEarned == Spec => []RepetitionsAreEarned
<1> DEFINE Reps == \A q \in Questions : RepsInv(q)
<1>1. Init => Reps
  <2> SUFFICES ASSUME Init, NEW q \in Questions PROVE RepsInv(q)
    OBVIOUS
  <2>1. Carriers(q) = {} /\ \A r \in Requests : pending[r].op = "idle"
    BY DEF Init, Carriers, Carries, Idle
  <2>2. solved[q] = 0 /\ cards[q] = NoCard
    BY DEF Init
  <2> QED
    BY <2>1, <2>2, FS_EmptySet DEF RepsInv
<1>2. TypeOK /\ TypeOK' /\ CardsInv /\ Reps /\ [Next]_vars => Reps'
  BY RepsStep
<1>3. TypeOK /\ Reps => RepetitionsAreEarned
  <2> SUFFICES ASSUME TypeOK, Reps, NEW q \in Questions, cards[q] # NoCard
               PROVE  cards[q].reps <= solved[q]
    BY DEF RepetitionsAreEarned
  <2>1. cards[q].reps \in Nat /\ solved[q] \in Nat
    BY DEF TypeOK, Card
  <2>2. Cardinality(Carriers(q)) \in Nat /\ cards[q].reps + Cardinality(Carriers(q)) <= solved[q]
    BY FS_CardinalityType DEF RepsInv
  <2> QED
    BY <2>1, <2>2
<1>4. TypeOK /\ CardsInv /\ [Next]_vars => (TypeOK /\ CardsInv)'
  BY TypeStep
<1> QED
  BY <1>1, <1>2, <1>3, <1>4, TypeInit, PTL DEF Spec
=============================================================================
