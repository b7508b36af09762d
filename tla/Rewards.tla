------------------------------- MODULE Rewards -------------------------------
(***************************************************************************)
(* What a student gets for answering: awardForAnswer of                    *)
(* internal/handlers/rooms.go (experience, badges, the repetition card)    *)
(* and AnswerSM2 of internal/handlers/me.go, run as concurrent requests of *)
(* one student in one course.  The tables are those of                     *)
(* internal/repository/gamification.go and sm2.go.                         *)
(*                                                                         *)
(* As in RoomSession one action is one SQL statement or transaction, and   *)
(* pending[r] is the next one of request r with the values bound to it.    *)
(***************************************************************************)
EXTENDS Scoring, FiniteSets

CONSTANTS
  Requests,      (* the student's requests that may be in flight at once    *)
  Rooms,         (* the rooms of the course the student takes part in       *)
  RoomMode,      (* Rooms -> {"classic", "timer", "race"}                   *)
  Questions,     (* the questions of the course                             *)
  Checkable,     (* the questions that can be marked automatically          *)
  Difficulty,    (* Questions -> 1 .. 5                                     *)
  Timings,       (* the pairs of elapsed time and time limit of an answer   *)
  Verdicts,      (* what CheckAnswer may say: correct, wrong, unchecked     *)
  LevelBadges,   (* {5, 10} in the code                                     *)
  StreakBadges,  (* {3, 7}                                                  *)
  XPBadges,      (* {1000}                                                  *)
  NoCard,        (* there is no row in sm2_states                           *)
  Endpoints,     (* the endpoints called in this instance                   *)
  Fallible,      (* the kinds of statements that may fail                   *)
  MaxDay,        (* bound: the last day                                     *)
  MaxSent        (* bound: how many requests are made                       *)

ASSUME RewardsAssumption ==
  /\ RoomMode \in [Rooms -> {"classic", "timer", "race"}]
  /\ Checkable \subseteq Questions
  /\ Difficulty \in [Questions -> 1 .. 5]
  /\ Timings \subseteq Nat \X Nat
  /\ Verdicts \subseteq {"correct", "wrong", "unchecked"}
  /\ LevelBadges \cup StreakBadges \cup XPBadges \subseteq Nat \ {0}
  /\ NoCard \notin Card
  /\ MaxDay \in Nat \ {0} /\ MaxSent \in Nat
  /\ "idle" \notin Fallible

VARIABLES
  progress,  (* the row of user_progress; last = 0 when there is none yet   *)
  badges,    (* the rows of user_badges                                     *)
  cards,     (* the rows of sm2_states, by question                         *)
  answers,   (* the student's rows of answers                               *)
  day,       (* CURRENT_DATE                                                *)
  pending,   (* by request, the statement it executes next                  *)
  sent,      (* how many requests were made                                 *)
  active,    (* history: the days on which experience was added             *)
  solved     (* history: how often a correct answer was given, by question  *)

tables == <<progress, badges, cards, answers>>

history == <<active, solved>>

vars == <<tables, day, pending, sent, history>>

Days == 1 .. MaxDay

(* A badge is its name and, where there are several of a kind, a threshold. *)
FirstCorrect == <<"first_correct", 0>>
QuickThinker == <<"quick_thinker", 0>>
PerfectRound == <<"perfect_round", 0>>

Badges ==
  {FirstCorrect, QuickThinker, PerfectRound}
    \cup {<<"level", n>> : n \in LevelBadges}
    \cup {<<"streak", n>> : n \in StreakBadges}
    \cup {<<"xp", n>> : n \in XPBadges}

Answer == [room : Rooms, question : Questions, verdict : Verdicts]

(* CheckAnswer: a question without a key is never marked, one with a key    *)
(* always.                                                                  *)
Marks(q) == {v \in Verdicts : v = "unchecked" <=> q \notin Checkable}

(* awardCtx: the answer being rewarded.                                     *)
Award ==
  [room : Rooms, question : Questions, verdict : Verdicts, time : Timings, xp : Nat,
   finished : BOOLEAN]

(* What AddXP returns and the badges are decided on.                        *)
Summary == [total : Nat, level : Nat, streak : Nat]

Pending ==
  [op : {"idle"}]
    \cup [op : {"list_progress", "count_room", "perfect", "get_card"}, award : Award]
    \cup [op : {"begin"}, award : Award, level : Nat]
    \cup [op : {"add_xp"}, award : Award, level : Nat, today : Days]
    \cup [op : {"count_course"}, award : Award, got : Summary]
    \cup [op : {"badges"}, award : Award, due : SUBSET Badges]
    \cup [op : {"save_card"}, question : Questions, card : Card]

TypeOK ==
  /\ progress \in [total : Nat, level : Nat, streak : Nat, last : 0 .. MaxDay]
  /\ badges \subseteq Badges
  /\ cards \in [Questions -> Card \cup {NoCard}]
  /\ answers \subseteq Answer
  /\ day \in Days
  /\ pending \in [Requests -> Pending]
  /\ sent \in 0 .. MaxSent
  /\ active \subseteq Days
  /\ solved \in [Questions -> Nat]

Idle == [op |-> "idle"]

Init ==
  /\ progress = [total |-> 0, level |-> 0, streak |-> 0, last |-> 0]
  /\ badges = {}
  /\ cards = [q \in Questions |-> NoCard]
  /\ answers = {}
  /\ day = 1
  /\ pending = [r \in Requests |-> Idle]
  /\ sent = 0
  /\ active = {}
  /\ solved = [q \in Questions |-> 0]

Calls(r, endpoint) ==
  /\ pending[r] = Idle
  /\ endpoint \in Endpoints
  /\ sent < MaxSent
  /\ sent' = sent + 1

Then(r, p) == pending' = [pending EXCEPT ![r] = p]

Solve(q, verdict) ==
  solved' = IF verdict = "correct" THEN [solved EXCEPT ![q] = @ + 1] ELSE solved

-----------------------------------------------------------------------------
(* The answer *)

(* How the answer is recorded.  In a classic room a second answer to a      *)
(* question is refused; in the others the duplicate is ignored and rewarded *)
(* all the same, and a wrong answer in a race deletes the student's answers *)
(* of the room instead of being saved.                                      *)
Record(m, q, v, finished) ==
  LET onRecord == \E a \in answers : a.room = m /\ a.question = q
      reset == RoomMode[m] = "race" /\ v = "wrong"
  IN  /\ RoomMode[m] = "classic" => ~onRecord /\ ~finished
      /\ reset => ~finished
      /\ answers' = CASE reset               -> {a \in answers : a.room # m}
                      [] ~reset /\ onRecord  -> answers
                      [] ~reset /\ ~onRecord ->
                           answers \cup {[room |-> m, question |-> q, verdict |-> v]}

(* SubmitAnswer and SubmitMyAnswer up to the call of awardForAnswer.        *)
SubmitAnswer(r) ==
  /\ Calls(r, "answer")
  /\ \E m \in Rooms, q \in Questions, t \in Timings, finished \in BOOLEAN : \E v \in Marks(q) :
       /\ Record(m, q, v, finished)
       /\ Solve(q, v)
       /\ \E xp \in XPAwards(v = "correct", Difficulty[q], t[1], t[2]) :
            Then(r, [op |-> "list_progress",
                     award |-> [room |-> m, question |-> q, verdict |-> v, time |-> t,
                                xp |-> xp, finished |-> finished]])
  /\ UNCHANGED <<progress, badges, cards, day, active>>

(* RestartRoom deletes the answers of a room.                               *)
RestartRoom ==
  /\ "restart" \in Endpoints
  /\ \E m \in Rooms : answers' = {a \in answers : a.room # m}
  /\ UNCHANGED <<progress, badges, cards, day, pending, sent, history>>

-----------------------------------------------------------------------------
(* Experience and the streak *)

(* The total before; an error counts as no progress at all.                 *)
ListProgress(r) ==
  LET p == pending[r]
  IN  /\ p.op = "list_progress"
      /\ \E prevTotal \in {progress.total} \cup (IF p.op \in Fallible THEN {0} ELSE {}) :
           Then(r, [op |-> "begin", award |-> p.award,
                    level |-> LevelFromXP(prevTotal + p.award.xp)])
      /\ UNCHANGED <<tables, day, sent, history>>

(* BEGIN: CURRENT_DATE is the day the transaction starts.                   *)
BeginAddXP(r) ==
  LET p == pending[r]
  IN  /\ p.op = "begin"
      /\ Then(r, [op |-> "add_xp", award |-> p.award, level |-> p.level, today |-> day])
      /\ UNCHANGED <<tables, day, sent, history>>

(* Faulty variant: every answer of a day counts as a day.                   *)
StreakPerAnswer(last, streak, today) ==
  IF last = today \/ last = today - 1 THEN streak + 1 ELSE 1

(* A student without a row has last = 0 and streak = 0, and gets 1.         *)
Streak(last, streak, today) ==
  CASE last = today     -> streak
    [] last = today - 1 -> streak + 1
    [] OTHER            -> 1

(* Faulty variant: EXCLUDED.total_xp without what the row already has.      *)
CreditedAfresh(p) ==
  [total |-> p.award.xp,
   level |-> p.level,
   streak |-> Streak(progress.last, progress.streak, p.today),
   last |-> p.today]

(* The row the UPSERT leaves.                                               *)
Credited(p) ==
  [total |-> progress.total + p.award.xp,
   level |-> p.level,
   streak |-> Streak(progress.last, progress.streak, p.today),
   last |-> p.today]

(* Faulty variant: the level is announced although it was not stored.       *)
UncreditedLevel(p) == [total |-> 0, level |-> p.level, streak |-> 0]

(* What the badges are decided on when AddXP failed.                        *)
Uncredited(p) == [total |-> 0, level |-> 0, streak |-> 0]

(* The UPSERT, the line of the journal and COMMIT.                          *)
AddXP(r) ==
  LET p == pending[r]
      row == Credited(p)
      next(got) == Then(r, [op |-> "count_course", award |-> p.award, got |-> got])
  IN  /\ p.op = "add_xp"
      /\ \/ /\ progress' = row
            /\ active' = active \cup {p.today}
            /\ next([total |-> row.total, level |-> row.level, streak |-> row.streak])
         \/ /\ p.op \in Fallible
            /\ next(Uncredited(p))
            /\ UNCHANGED <<progress, active>>
      /\ UNCHANGED <<badges, cards, answers, day, sent, solved>>

-----------------------------------------------------------------------------
(* Badges *)

CorrectInCourse == Cardinality({a \in answers : a.verdict = "correct"})

Quick(time) == time[2] > 0 /\ time[1] > 0 /\ time[1] * 3 < time[2]

(* The badges an answer is rewarded with.                                   *)
Due(award, got, count) ==
  LET correct == award.verdict = "correct"
  IN  {b \in Badges :
         \/ b = FirstCorrect /\ correct /\ count = 1
         \/ b = QuickThinker /\ correct /\ Quick(award.time)
         \/ \E n \in LevelBadges  : b = <<"level", n>>  /\ got.level >= n
         \/ \E n \in StreakBadges : b = <<"streak", n>> /\ got.streak >= n
         \/ \E n \in XPBadges     : b = <<"xp", n>>     /\ got.total >= n}

(* CountCorrectInCourse and the decisions that follow.  An error counts as  *)
(* no correct answer.                                                       *)
CountCorrectInCourse(r) ==
  LET p == pending[r]
  IN  /\ p.op = "count_course"
      /\ \E count \in {CorrectInCourse} \cup (IF p.op \in Fallible THEN {0} ELSE {}) :
           Then(r, [op |-> "badges", award |-> p.award, due |-> Due(p.award, p.got, count)])
      /\ UNCHANGED <<tables, day, sent, history>>

(* One INSERT ... ON CONFLICT DO NOTHING per badge.  They read nothing and  *)
(* nobody reads the badges, so they are one step; any of them may fail.     *)
AwardBadges(r) ==
  LET p == pending[r]
  IN  /\ p.op = "badges"
      /\ \E given \in IF p.op \in Fallible THEN SUBSET p.due ELSE {p.due} :
           badges' = badges \cup given
      /\ Then(r, [op |-> IF p.award.finished THEN "count_room" ELSE "get_card",
                  award |-> p.award])
      /\ UNCHANGED <<progress, cards, answers, day, sent, history>>

CountCorrectInRoom(r) ==
  LET p == pending[r]
      inRoom == {a \in answers : a.room = p.award.room}
      perfect == inRoom # {} /\ \A a \in inRoom : a.verdict = "correct"
  IN  /\ p.op = "count_room"
      /\ \/ perfect /\ Then(r, [op |-> "perfect", award |-> p.award])
         \/ /\ ~perfect \/ p.op \in Fallible
            /\ Then(r, [op |-> "get_card", award |-> p.award])
      /\ UNCHANGED <<tables, day, sent, history>>

AwardPerfect(r) ==
  LET p == pending[r]
  IN  /\ p.op = "perfect"
      /\ badges' = badges \cup {PerfectRound} \/ (p.op \in Fallible /\ UNCHANGED badges)
      /\ Then(r, [op |-> "get_card", award |-> p.award])
      /\ UNCHANGED <<progress, cards, answers, day, sent, history>>

-----------------------------------------------------------------------------
(* The repetition card *)

(* What the handlers do with the row Get returns.                           *)
Reviewed(q, correct, time) ==
  Sm2Update(IF cards[q] = NoCard THEN NewSm2State ELSE cards[q],
            QScore(correct, time[1], time[2]), day)

(* An answer that cannot be checked has no card.                            *)
GetCard(r) ==
  LET p == pending[r]
      a == p.award
  IN  /\ p.op = "get_card"
      /\ IF a.verdict = "unchecked"
         THEN Then(r, Idle)
         ELSE \E c \in Reviewed(a.question, a.verdict = "correct", a.time) :
                Then(r, [op |-> "save_card", question |-> a.question, card |-> c])
      /\ UNCHANGED <<tables, day, sent, history>>

(* AnswerSM2: only for a question that has a card, due or not.  The first   *)
(* Get only tells that it has one, and it keeps it: the two are merged.     *)
AnswerSM2(r) ==
  /\ Calls(r, "review")
  /\ \E q \in Questions, t \in Timings : \E v \in Marks(q) :
       /\ cards[q] # NoCard
       /\ Solve(q, v)
       /\ \E c \in Reviewed(q, v = "correct", t) :
            Then(r, [op |-> "save_card", question |-> q, card |-> c])
  /\ UNCHANGED <<tables, day, active>>

(* interval_days is an INTEGER: a longer interval is refused, and the card  *)
(* stays as it was.                                                         *)
MaxInteger == 2147483647

UpsertCard(r) ==
  LET p == pending[r]
  IN  /\ p.op = "save_card"
      /\ cards' = IF p.card.interval <= MaxInteger
                  THEN [cards EXCEPT ![p.question] = p.card]
                  ELSE cards
      /\ Then(r, Idle)
      /\ UNCHANGED <<progress, badges, answers, day, sent, history>>

-----------------------------------------------------------------------------
NextDay ==
  /\ day < MaxDay
  /\ day' = day + 1
  /\ UNCHANGED <<tables, pending, sent, history>>

(* The client disconnects, or the process stops.                            *)
Abort(r) ==
  /\ pending[r].op \in Fallible
  /\ Then(r, Idle)
  /\ UNCHANGED <<tables, day, sent, history>>

Continue(r) ==
  \/ ListProgress(r) \/ BeginAddXP(r) \/ AddXP(r)
  \/ CountCorrectInCourse(r) \/ AwardBadges(r) \/ CountCorrectInRoom(r) \/ AwardPerfect(r)
  \/ GetCard(r) \/ UpsertCard(r)

Next ==
  \/ \E r \in Requests : SubmitAnswer(r) \/ AnswerSM2(r) \/ Continue(r) \/ Abort(r)
  \/ RestartRoom
  \/ NextDay

Spec == Init /\ [][Next]_vars

-----------------------------------------------------------------------------
(***************************************************************************)
(* Properties that hold                                                    *)
(***************************************************************************)

(* The level stored never exceeds what the total stored gives: AddXP writes *)
(* a level its caller derived from an earlier read, but totals only grow.   *)
LevelNeverAhead == progress.level <= LevelFromXP(progress.total)

(* The n days that end with the given one.                                  *)
LastDays(n, last) == {last - i : i \in 0 .. n - 1}

(* A streak is made of days on which the student was active, whatever the   *)
(* order in which transactions begun before and after midnight commit.      *)
StreakIsEarned == LastDays(progress.streak, progress.last) \subseteq active

(* What a badge says of the student.                                        *)
Earned(b) ==
  /\ \A n \in LevelBadges : b = <<"level", n>> => LevelFromXP(progress.total) >= n
  /\ \A n \in XPBadges : b = <<"xp", n>> => progress.total >= n
  /\ \A n \in StreakBadges : b = <<"streak", n>> =>
       \E last \in active : LastDays(n, last) \subseteq active
  /\ b \in {FirstCorrect, QuickThinker} => \E q \in Questions : solved[q] > 0

(* Every badge tells the truth about the tables, then and ever after, though *)
(* it was decided on values an earlier statement returned.                  *)
BadgesAreEarned == \A b \in badges : Earned(b)

(* Every card has the shape SuperMemo 2 gives it, whichever of two          *)
(* concurrent reviews was written last.                                     *)
CardsAreShaped == \A q \in Questions : cards[q] # NoCard => CardShape(cards[q])

(* Concurrent reviews of a card may lose one another's repetition, but      *)
(* never invent one: there are at most as many as correct answers.          *)
RepetitionsAreEarned == \A q \in Questions : cards[q] # NoCard => cards[q].reps <= solved[q]

-----------------------------------------------------------------------------
(***************************************************************************)
(* What comments of the code promise and the code does not keep            *)
(***************************************************************************)

(* migrations/0006_badges_seed.up.sql:8-9, badge first_correct: given for   *)
(* the first correct answer in the course; so a student with a correct      *)
(* answer has it once the requests are over.                                *)
FirstCorrectIsRewarded ==
  (\A r \in Requests : pending[r] = Idle) /\ CorrectInCourse > 0 => FirstCorrect \in badges

(* services/sm2.go:18, Sm2State: DueDate is the date of the next planned    *)
(* repetition; so it lies after the last one.                               *)
DueAfterReview == \A q \in Questions : cards[q] # NoCard => cards[q].due > cards[q].last
=============================================================================
