# EduQuiz in TLA+

A verification project for EduQuiz, the backend and the screens of its web client:
TLA+ modules translated from the Go source and from the compiled client, TLC
configurations that check them on small instances, and theorems that TLAPS proves
for instances of every size. Paths are relative to the repository; `rooms.go` alone
is `internal/handlers/rooms.go`, `main.dart.js` is `web/main.dart.js`.

## 1. The system

EduQuiz is a quiz server for classrooms: one Go process (Gin, pgx) in front of
PostgreSQL. A teacher owns courses, question banks and *rooms*; students join a
room by its code and answer. A room runs in one of three modes. In `classic` the
teacher shows one question at a time to everyone. In `timer` and `race` (the
*solo* modes) each student goes through the queue alone; in a race a wrong answer
throws the student back to the first question. Every change is a REST request;
the WebSocket hub only tells the browsers about it.

| part | source | state | operations | who else touches the state |
|---|---|---|---|---|
| room tables | `repository/rooms.go`, `repository/answers.go`, `migrations/0003` | rows of `rooms`, `participants`, `answers` | one SQL statement each, and the transaction `RestartRoom` | all room handlers, the admin handlers |
| room handlers | `handlers/rooms.go` | none but the request's own variables | create, join, leave, start, next, review, finish, restart, append, answer, my/answer | run concurrently; each reads a snapshot and then writes |
| WebSocket hub | `ws/hub.go`, `ws/client.go`, `ws/handler.go` | the reactor's map of clients, bounded channels, a counter | register, unregister, broadcast; two pumps per connection | every handler calls `Broadcast` or `SendTo` |
| rewards | `rooms.go` `awardForAnswer`, `repository/gamification.go`, `repository/sm2.go`, `services/sm2.go`, `services/xp.go`, `me.go` | XP journal, progress rows, badges, SM-2 cards | one call per answer, one per review | concurrent answers of the same student, in other rooms too |
| accounts | `handlers/auth.go`, `handlers/me.go`, `repository/users.go`, `repository/password_reset.go` | users, reset tokens | register, login, refresh, forgot, reset, change password | concurrent requests for the same address |
| rate limiting | `server/ratelimit.go` | token buckets by key | check, charge, refill, collect | every login, and the other limited routes |
| live room screen | `main.dart.js`, class `A.Qg` and its closures | the room `w`, the question `x`, what is being asked for (`id`), whether it is answered (`ax`) | the buttons of teacher and student, the events it hears, the reload after an activation, reconnection | replies, events and reloads write the same fields |
| solo screen, session | `main.dart.js`, classes `A.QR`, `A.qz`, `A.qA`, `A.pM` | one's own question; the tokens in the browser | poll, answer, log in, refresh, log out | two tabs share the storage |
| catalogue | `handlers/courses.go`, `repository/courses.go`, `repository/questions.go` | courses, banks, questions | CRUD, import | rooms refer to banks and questions |
| administration | `handlers/admin.go` | none | forced finish, deletion of answers, users, courses | the room tables, without a broadcast |
| pure services | `services/answer.go`, `services/analytics.go`, `services/import` | none | answer checking, test statistics, parsing | |
| the rest | `mailer`, `uploads.go`, `auth/*`, `config`, `server.go`, `cmd/*` | files, sockets | I/O and wiring | |

What is hard in it:

- No handler holds a lock or a transaction across its statements (`RestartRoom`
  and `AddXP` are the transactions there are), so the interleaving of two
  requests is the rule: two presses of a button, two tabs, a teacher and an
  administrator, a student who answers in two rooms.
- A request dies between any two of its statements when its client disconnects,
  because the statements use the request's context.
- Several errors are dropped on purpose (`_ =`), and the handler goes on.
- The hub drops events and clients when a queue is full, and its `select`
  chooses at random between its channels.
- Replies, events and reloads of a screen overtake each other, get lost with the
  connection, or come for a question that is no longer shown; requests do not say
  which question they mean.
- The login limiter looks before the attempt and charges after it; a reset link is
  replaced in two statements.
- Dates (`CURRENT_DATE` at the start of a transaction), rounding and the width of
  `time.Duration` enter the rewards.

What makes each part correct:

- *Room*: no question is asked twice in a round; the queue is asked in order;
  the answers on record fit the progress of each student; a finished student
  stays finished; a solo session closes when everybody has finished; a new round
  starts clean.
- *Hub*: no panic on a closed channel; the counter follows the map; no client
  misses an event and receives a later one; an evicted client is told; no
  goroutine stays behind.
- *Rewards*: level, streak and badges never claim more than the student did; a
  repetition card is one SuperMemo 2 could have produced, with no repetition
  that nobody made.
- *Password reset*: a token is used once; one link lives at a time.
- *Rate limiting*: the number of failed attempts in a window is bounded.
- *Screens*: an answer marked as given is on record; nobody has an answer accepted
  after having seen the correct one; a review closes the question the teacher was
  looking at; a screen that was sent the last question ends up showing it.

## 2. Plan

Order: what runs concurrently and holds a classroom's state first.

| step | modules | composes / implements | status |
|---|---|---|---|
| 1 | `RoomStore`, `RoomSession` | `RoomSession` runs handlers over the statements of `RoomStore` | done |
| 2 | `EventFeed`, `Hub` | `Hub` implements `EventFeed` | done |
| 3 | `Scoring`, `Rewards` | `Rewards` runs `awardForAnswer` over the rules of `Scoring` | done |
| 4 | `Accounts` | the password of one account: login and its limiter, reset links, changes of password. The limiter and the links share the requests in flight and are one module | done |
| 5 | `LiveRoom` | `RoomSession` driven by the screens of the web client, over the mailboxes of `EventFeed` | done |
| 6 | `RoomLifecycle` | an abstract lifecycle of a room (lobby, running, closed) that `RoomSession` would implement | dropped: `StartRoom` accepts every status and the writes of an old round land in the new one, so the only lifecycle the code implements is the one any two statuses allow |
| 7 | `Catalog` | ownership and the foreign keys a deletion meets | dropped: single statements behind an owner check, and what the database does on a deletion is not in the source |

Proofs: every safety property the runs check is proved (section 6). What remains
model-checked is liveness.

## 3. Modules and code

**RoomStore** is one room: `room` is its row, `part` the rows of `participants`,
`answers` those of `answers`, `bank` the questions of each bank. A time stamp is
modelled by whether it is NULL. `round` counts restarts; the schema has no such
column, it is a history variable that lets a property say *when* an answer was
given. There is one operator per SQL statement, with the conditions of its
`WHERE`: a statement that affects no row leaves the table as it is.

**RoomSession** has one action per statement of a handler. `pending[r]` holds the
statement request `r` executes next and the values bound to it by what the
handler has already read, so that a stale snapshot is a value of `pending` that no
longer agrees with the tables. A handler starts with `Calls` (its endpoint is one
this instance calls, the request slot is free), reads and decides with `Reads`,
and writes with a statement of `RoomStore`. A refusal (404, 409, 410) is the
absence of a step. `Tolerated` is a statement whose error the handler drops, and
`Abort` is a request that dies before a statement of `Fallible`. `announce` stands for the
broadcast and reply that end a handler.

| handler in `rooms.go` | actions |
|---|---|
| `StartRoom` | `StartRoom`, `StartSolo`, `ActivateQuestion` |
| `NextQuestion` | `NextQuestion`, `ActivateQuestion`, `CloseRoom` |
| `FinishRoom` | `FinishRoom`, `CloseRoom` |
| `ReviewQuestion` | `ReviewQuestion`, `ShowReview` |
| `RestartRoom` | `RestartRoom`, `ListBank`, `CommitRestart` |
| `AppendQuestion` | `AppendQuestion`, `CreateQuestion`, `EnqueueQuestion` |
| `JoinRoom` | `JoinRoom`, `Enter`, `FirstJoin`, `Rejoin` |
| `LeaveRoom`, leave beacon | `LeaveRoom` |
| `SubmitAnswer` | `SubmitAnswer`, `SaveAnswer` |
| `SubmitMyAnswer` | `SubmitMyAnswer`, `CheckMyAnswer`, `SaveMyAnswer`, `Advance`, `DropAnswers`, `ResetProgress`, `CheckAllFinished`, `AutoFinish` |
| `admin.go` `FinishRoom`, `DeleteAnswer` | `AdminFinish`, `AdminDeleteAnswer` |

**Hub** has the three channels of the reactor, the map of registered clients,
each client's `send` channel, its two pumps and its socket. A broadcast is
`HubBroadcast` followed by one `Deliver` per client of the room, and the pumps run
in between. A send on a closed channel, or a second close, sets `panicked`. An
event is its number in the order the reactor takes events. **EventFeed** is the
promise: while a client listens, every event for it enters its mailbox, in order; it may
be cut off, but never made to miss one event and receive a later one. `Hub` maps
the mailbox to the client's channel and the event the reactor is about to put
there.

**Scoring** is arithmetic: the points of an answer, the level of a total, the
quality score and the move of a repetition card. The code computes in binary
floating point; the operators are exact and return the *set* of results where the
exact value falls on the edge of a rounding. The easiness factor is in hundredths.
`Wrapped` is what an int64 of nanoseconds leaves of a number of days.

**Rewards** runs `awardForAnswer` and `AnswerSM2` as concurrent requests of one
student in one course: the total is read (`ListProgress`), the transaction of
`AddXP` fixes its date when it begins (`BeginAddXP`) and writes later (`AddXP`),
the badges are decided on values returned by earlier statements, the card is read
(`GetCard`) and written back (`UpsertCard`). An error of `ListProgress`, of `AddXP`,
of a count or of a badge lets the handler go on with zeros, as in the code.
`active` and `solved` are history variables: the days on which experience was
added, and how often a question was answered correctly.

**Accounts** is one account. `password` is the hash of `users` by the password it is
of, `links` the rows of `password_reset_tokens`, `mailed` what reached the mailbox,
`bucket` the tokens of the limiter by address and by IP. One action is one SQL
statement or one acquisition of the lock of a limiter: a login looks into the two
buckets (`Login`, `CheckIP`), compares (`Verified`, `Unauthorized`), and is charged in
two more steps (`Charge`, `ChargeIP`). A link is asked for by `ForgotPassword`,
`InvalidateUnused` or `Lapse`, `Create`, `SendPasswordReset`, and used by `ResetPassword` and
`UpdatePassword`, which `ChangePassword` of `me.go` and the handler of the administrator
end with, too. Time is what it changes: `Cool` (two minutes), `Expire` (half an
hour), `Refill`. `fails`, `refilled`, `lapses` and `changes` are history variables.

**LiveRoom** is a classic room with its screens. It INSTANCEs `RoomSession`: the
handlers are the same actions, called with the requests that screens send. A screen is
named like the request it may have in flight (one of `HostReqs`, or a student with a
tab). `call` is that request on its way to the server and back, `outbox` the events its
handler still has to broadcast, `mail` the events on their way to a screen, `link` its
connection, `reload` the GET that follows an activation. The mailboxes behave as
`EventFeed` promises: in order, without gaps, cut off at the end only. `revealed` and
`inStep` are history variables.

| field of `screen` | `A.Qg` | meaning |
|---|---|---|
| `status` | `w.c` | status of the room as last heard or fetched |
| `x` | `x` | the question shown |
| `reviewing` | `id` | the teacher's screen has asked for the review |
| `answered` | `ax` | the student has answered |

| action | method of `A.Qg` | what it is |
|---|---|---|
| `PressStart`, `PressNext`, `PressFinish` | `Ea`, `yM`, `uu` | the buttons of the teacher |
| `AskReview` | `xx` | the button, the end of the countdown, the last answer |
| `PressAnswer` | `Ez` | the student answers |
| `Hear` | `auQ` | an event arrives |
| `ServeReload`, `Reloaded` | `E1` | the reload of the room after an activation |
| `Connect`, `CutOff` | `Xo`, `a0Q` | the connection comes and goes |
| `OpenPage`, `LoadPage` | `qm` | the page is opened again |
| `GetReply`, `LoseReply` | the ends of the closures above | a reply arrives, or does not |

`Serve`, `ServeAnswer`, `Execute`, `SaveAnswer`, `Publish`, `Reply`, `Decline` and `Abort` are the server's
side of a call.

`MCRoomSession`, `MCHub`, `MCRewards`, `MCAccounts` and `MCLiveRoom` give the constants for TLC their values.
Definitions introduced by "Faulty variant" are plausible bugs; no specification
uses them, and they serve to see that a property notices them.
`RoomSessionProofs`, `RoomProgressProofs`, `EventFeedProofs`, `HubProofs`,
`RewardsProofs` (with the rules of `Scoring`), `AccountsProofs`, `LiveRoomProofs` and, for
one patient teacher, `ClassroomProofs` hold the theorems.

## 4. Runs

| run | instance | properties | shows |
|---|---|---|---|
| `classic` | 2 requests of the teacher, 1 student, a bank of 2 and 1 question to append, every endpoint but restart, every statement may fail | `TypeOK`, `AskedOnce`, `AskedInOrder` | however start, next, append, finish and the administrator interleave, the queue is asked in order and no question twice |
| `solo` | 3 students with one tab, 2 questions, race, INSERT and UPDATE may fail, fairness | `AnswersMatchProgress`, `ClosesWhenAllDone` | the answers on record are those the student was moved past, and at most one more; one of three simultaneous last answers closes the room |
| `two_tabs` | 1 student with 2 tabs, timer or race, finish, restart and append, every statement may fail | `FinishedForGood` | a wrong answer in flight does not throw a finisher back |
| `hub` | 2 connections, events for the room or one user, 3 events | `TypeOK`, `NoPanic`, `CountsRegistered`, `NoGaps`, `ImplementsFeed` | no order of registration, slow-client drop and socket failure panics the reactor or makes a gap |
| `hub_live` | channels of capacity 1, 2 events, fairness | `EvictedIsClosed`, `PumpsEnd` | the reactor and the pumps never wait for each other for ever |
| `rewards` | 2 requests in a race room, one question that can be marked and one that cannot, answered instantly or late, reviews, restarts, 2 days, 3 requests in all, `ListProgress`, `AddXP` and the count of the room may fail | `TypeOK`, `LevelNeverAhead`, `StreakIsEarned`, `BadgesAreEarned`, `CardsAreShaped`, `RepetitionsAreEarned` | level, streak and badges tell the truth over midnight and failures, and lost updates of a card never make it better than it should be |
| `accounts` | 2 requests, 3 links, a strong and a weak password, a known and an unknown address, buckets of 1 and 2, one refill, one failed invalidation | `TypeOK`, `LinkUsedOnce`, `FewLinksLive`, `GuessesAreLimited` | a link is used once, few are alive, and the limiter lets few guesses through, however the requests interleave |
| `screens` | a teacher and a student with one screen each, 2 questions, one connection cut, the student's page opened again, a student's reply lost, statements of both that die | `TypeOK`, `AnsweredIsOnRecord`, `NoAnswerAfterReveal`, `ExplainedStaysClosed`, `ReviewsWhatIsShown`, `QuestionInStep` | replies, events and reloads overtaking each other never leave a screen with a lie, open a question again that was explained, or let an answer through after that |
| `v_double_submit` | 1 student with 2 tabs, timer | `NoQuestionSkipped` (violated) | section 7 |
| `v_restart_answer` | 1 student, one restart | `NewRoundIsClean` (violated) | section 7 |
| `v_first_correct` | 2 requests, 2 questions | `FirstCorrectIsRewarded` (violated) | section 7 |
| `v_due_overflow` | 1 request, 12 answers | `DueAfterReview` (violated) | section 7 |

Bounds, and why they are enough. Two requests in flight are what a race between
two snapshots takes; a third repeats the roles of the first two, save for the last
answers of a race, where the threshold is three and three students are used. Two
questions, in `classic` with a third to append, give a queue that can be at its first question,
its last one, exhausted and extended. One restart is enough to
have an old and a new round. `SendCap` 1 makes every client slow after one event;
`BroadcastCap` 2 with three events fills the broadcast queue. Two days in `rewards`
let a streak grow once and let transactions of neighbouring days commit in either
order; what more days or requests would show is covered by the theorems, which hold
for any number. The thresholds of the badges are small (level 1,
streak 2, 100 points; an answer gives 50) so that the second answer reaches them: in the code they are 5
and 10, 3 and 7, 1000, and the theorems hold for any. In `v_due_overflow` a card
gets as far as the twelve answers it takes.

In `accounts` the buckets hold 1 and 2 tokens, so that one failure empties the first
and two requests at once overdraw the second; the code has 5 and 50, and the theorems
hold for any. In `screens` the teacher is patient (`Hasty` is FALSE): buttons are
pressed once what is on its way to the screen has arrived, while the automatic
review does not wait. A screen has one request in flight, there is one screen of the
teacher, one connection is lost, and of the mishaps the page of the student is opened
again and a reply to the student is lost. Section 7 says what happens with other
choices; they are constants. The bound of one reload in flight per screen keeps the
two replies of two reloads from overtaking each other: with both the status shown
may be old, which it may be already with one.

`CHECK_DEADLOCK FALSE` stands in the configurations of the hub, the rewards, the
accounts and the screens, and in `v_due_overflow` and `v_first_correct`: there the
number of events, requests, links or refills is bounded and used up, or the session
is over and nobody presses anything. Symmetry (of questions, students, requests of
the teacher, of a student or of an account) is used in safety runs only; no
action orders the members of those sets.

## 5. Fairness

`FairSpec` of `RoomSession`: a request that has been made is continued (weak
fairness on its next statement), since a handler waits for nothing but its own
statements. Nobody is obliged to call anything. `ClosesWhenAllDone` is stated for
students who stay and requests that are not cut off, as the code gives it no other
chance.

`FairSpec` of `Hub`: strong fairness on the three branches of the reactor's
`select`, because Go chooses at random among the ready cases and so passes none
over for ever; weak fairness on a delivery under way and on the two pumps, because
the scheduler runs every goroutine that can go on. No client has to connect, no
connection has to break.

## 6. Theorems

The assumptions are the named ASSUMEs of the modules: `StoreAssumption` (the set
of questions is finite, NULL is not one of them, banks hold questions),
`SessionAssumption` (the teacher's requests are not a student's),
`HubAssumption` (finitely many clients, capacities are natural numbers), `RewardsAssumption`
(difficulties are 1 to 5, timings natural numbers, thresholds positive),
`AccountsAssumption` (finitely many requests and links, buckets hold at least one token)
and `LiveAssumption` (what `RoomSession` assumes, and the bounds). Nothing
bounds the number of students, questions, requests, clients, events, links, screens or days.

| theorem | argument |
|---|---|
| `RoomSessionProofs!TypeCorrect` | one lemma per table says what its statements preserve; then one step per action |
| `RoomSessionProofs!AskedOnceHolds` | `AskedOnce` alone is not inductive: what `SetCurrentQuestion` writes was decided earlier. `AskedInv` adds that every activation in flight carries a question and a list of asked ones that are consistent *with each other*; whatever has been written since, the pair replaces the whole |
| `RoomSessionProofs!FinishedStaysFinished` | `FinInv` says a finished student has a positive index and that an UPDATE in flight was bound to a queue that is not empty; the reset has its condition on `finished_at_session` in the statement itself, so it does not matter what the request had read |
| `RoomProgressProofs!AskedInOrderHolds` | `OrderInv`: until a restart the queue has no question twice, a question about to be appended is in nobody else's hands (`QueueInv`), and the list every activation in flight will write is a prefix of the queue (`PrefixInv`) |
| `RoomProgressProofs!AnswersKeepPace` | under `Undisturbed` (one tab, no restart, no deletion, no answer to the room's question in a solo room, a reset whose two statements both happen) `PaceInv` ties what a request has read to the row it will write: the question bound to an INSERT is still the one at the student's index, and an index about to move has its answer on record. The runs `v_double_submit` and `v_restart_answer` show that the first two conditions are needed |
| `EventFeedProofs!FeedHasNoGaps` | `StreamInv`: received and waiting events together are, in order, a beginning of what was due; all of it while the connection listens |
| `HubProofs!HubImplementsFeed` | the step simulation: `ReadyInv` (the events counted leave room for the one about to be taken, and a client whose registration has not gone through has received nothing) and `OpenInv` make each step of reactor, queue or pump one step of `EventFeed` or none |
| `HubProofs!HubHasNoGaps` | from the two theorems above |
| `HubProofs!TypeCorrect` | the reactor and the senders test capacities before they append |
| `HubProofs!HubNeverPanics` | `OpenInv`: the clients of the map, those waiting in `register` and those still to be served have open channels, and no client is registered twice |
| `HubProofs!CountIsRegistered` | the same invariant: a client enters the map once, so the counter moves with the cardinality |
| `RewardsProofs!LevelIsRoot`, `LevelMonotone` | the linear search finds the integer square root: the least level whose successor is too high exists because `<` on the naturals is well-founded |
| `RewardsProofs!XPBounds`, `Sm2Shape` | arithmetic, case by case |
| `RewardsProofs!TypeCorrect`, `CardsShaped` | together: the shape of the card in the table and of every card about to be written |
| `RewardsProofs!StreakEarned` | inductive with the types: `AddXP` extends a streak only by the day before the one it writes, and days are never forgotten |
| `RewardsProofs!LevelBounded`, `BadgesEarned` | `RewardsInv`: what each request in flight carries (`Justified`) is bounded by what the tables hold *now*, since totals, active days and solved counts only grow (`NothingIsTakenAway`). So a level computed from an old total is at most that of the new one, and a badge decided on an old row is still earned |
| `RewardsProofs!RepetitionsEarned` | `RepsInv`: the repetitions of a card, in the table or about to be written, and the correct answers still on their way to it are together at most the correct answers awarded for its question |
| `AccountsProofs!LinksAreUsedOnce` | `OneUse`: a change already made and the requests about to make one with a link are together at most one, and there are none before the link is used up |
| `AccountsProofs!FewLinksStayLive` | `FewLinks`: living links and requests about to create one are at most the requests and the failed invalidations |
| `AccountsProofs!GuessesStayLimited` | `Ledger`: every failure has been paid for, is owed by a request in flight, or slipped through a bucket that was empty, and between two refills only the other requests in flight can slip |
| `AccountsProofs!TypeCorrect`, `LiveRoomProofs!TypeCorrect` | one step per action; no bucket goes below zero |
| `LiveRoomProofs!ServerRefined` | every step of the classroom is a step of `RoomSession` or leaves its variables alone |
| `LiveRoomProofs!ClassroomAsksInOrder` | the inductive invariants of the handlers, taken over by INSTANCE along the step simulation |
| `LiveRoomProofs!AnsweredMeansRecorded` | `ServingInv` (a call at the server and its statement belong together) and `RecordInv` (an answered screen shows the question of its call until the reply, and one on record after it), for every choice of mishaps |
| `ClassroomProofs!ReviewsTheQuestionShown` | `TeacherInv`, see below: a screen that shows "active" and waits for no reply shows the question of the room |
| `ClassroomProofs!ExplainedQuestionsStayClosed` | `ExplainedInv`: a review on its way to a screen, or heard there, is of a question that was asked and is not open; start is pressed only before the first question, and what next has chosen was not asked before |
| `ClassroomProofs!RevealedClosesTheQuestion` | from `ExplainedInv`: a statement that saves an answer begins while its question is open (`InformedInv`) |
| `ClassroomProofs!ScreensKeepUp` | `InStepInv`: for each screen that was sent the last activation, the last activation in its mailbox is of the room's question, or there is none left and the screen shows it, or the next one is still to be broadcast |

The theorems of `ClassroomProofs` hold under `OnePatientTeacher`: one screen of the
teacher, whose buttons are pressed when what is on its way to it has arrived (the
automatic review does not wait), whose page is not opened again, and whose requests, once they have
written, are broadcast and answered. Students may do and suffer what they like, the
teacher's connection may be lost, and the teacher's requests may die before they
write. The conditions are assumptions on constants, and the instance of `screens` meets them. None of
the theorems is inductive by itself, since a request is sent, served, executed,
broadcast and answered in different steps, and the screen hears of it twice. `TeacherInv`
goes along with the one request of the teacher:

- `Fits`: the statement it executes next, and the events it has prepared, belong to
  the request and to the row as it is *now* (what next is about to ask is not among
  the asked, and the list it will write is theirs with that one question more);
- `RepliesTruly`: the reply carries what was written last;
- `Patient`: before a question is written, all that was sent to the screen has been
  heard, so that an activation in the mailbox is of the room's question;
- `Shows`: the screen shows the room's question, or none before the first one, or
  none because the session is over (`Closed`, which is for good). That is why the
  button of the lobby can be pressed only once.

Each of the 16 actions of the teacher's screen and request has a lemma; any other
step does not touch what the invariant speaks of (`OwnOrUntouched`). TLC checked the
invariants on the instance of `screens` before they were proved, and found what happens
without the conditions (section 7, *the teacher's side fails*).

Only model-checked: liveness (`ClosesWhenAllDone`, `EvictedIsClosed`, `PumpsEnd`),
which with fairness and ENABLED is beyond the prover.
No module declares a RECURSIVE operator.

## 7. What the code does otherwise than its comments say

Four are runs; their counterexamples in words:

- `v_double_submit`. Two submissions of a student in a timed test read the same
  index. The second INSERT is a duplicate and ignored (`rooms.go:1142`, "FSM
  protection"), but `AdvanceParticipant` moves the student on a second time: the
  next question is never shown.
- `v_restart_answer`. An answer reads the room, the teacher finishes and restarts
  it, and the INSERT then lands in the new round, which was to be clean.
- `v_first_correct`. Two first correct answers are saved before either is counted:
  both counts are 2, and the badge for the first correct answer is not given.
- `v_due_overflow`. Every perfect answer in a room multiplies the interval of the
  card, due or not. After eleven the interval in nanoseconds overflows an int64 and the due date lies in the past.

Further situations met while modelling. They follow from the actions as they
stand, and no run is spent on them:

- *The reply differs from the row.* `FinishRoom`, and `NextQuestion` with nothing left,
  answer and broadcast "finished" although their conditional UPDATE
  found that a review or a restart had changed the status.
- *Start from any status.* `StartRoom` does not look at the status: a finished room is
  reopened, a running one begins again with its first question.
- *A next across a restart.* `SetCurrentQuestion` has no condition: a press of
  "next" that read the old round puts an old question, perhaps of another bank,
  on the screen of the new one. The pair is still consistent (`AskedOnce`), but
  the question may not be in the queue.
- *A review across a restart.* `SetStatus(active, review)` may hit the next round,
  of a solo mode, where there is no current question.
- *A finish at an old length.* A student who answers the last question while
  another is appended is finished by the old length and does not see it.
- *A student who joins at the end.* Between the count of `CheckAllFinished` and the
  closing of the room a student may join or come back, and is cut off.
- *Nobody looks again.* When the only student still at work leaves, or a request
  dies between its UPDATE and its count, the session stays open until the teacher closes it.
- *A race reset in two halves.* A wrong answer deletes the answers, then resets
  the index; a request that dies in between leaves a student in the middle with no
  answers. One that finds the student finished from another tab
  has deleted the answers of a finisher, and replies 500.
- *A question twice in the queue.* A restart between the INSERT of an appended
  question and its UPDATE of the queue lists it from the bank, and it is then
  appended once more. It is still asked once.
- *A connection counted before its time.* When `unregister` is taken before
  `register` for the same client, the closed connection enters the map and is
  counted, until an event finds its channel full.
- *A lost review.* Of two reviews of a card at once the one written last wins.
- *Rewards for a duplicate.* In the solo modes a duplicate answer is ignored but
  rewarded again.
- *The level lags.* The level is computed from a total read earlier, or from zero
  when the read failed; it may stay low until the next answer.
- *Midnight.* A transaction begun before midnight that commits after one begun
  later sets the last active day back, and the streak to 1.
- *A weak password costs the link.* `ResetPassword` uses the link up before it looks at
  the strength, and the cooldown then refuses another one for two minutes while
  the reply says that it was sent (`auth.go:326`).
- *Two links alive.* Two requests at once, or a failed invalidation, leave more than
  the last link alive, which the comment at `auth.go:265` rules out. `FewLinksLive`
  says how many.
- *An outage is a wrong password.* A login whose SELECT fails is answered 401 and
  charged to the limiter.
- *A change of password overwrites a reset.* It compares with a row read earlier.
- *The teacher's page opened again* (`teacher_reopens` in `Mishaps`) shows the lobby
  of a running session: the room is fetched, its question is not. The button there
  starts the round over, and a question whose answer has been shown takes answers
  again, so `NoAnswerAfterReveal` is violated.
- *An impatient teacher* (`Hasty` TRUE), who presses buttons before the events of the
  press before have arrived. The screen then asks for the review of a question it has
  not heard of, the request does not say which question it means, and
  `ReviewsWhatIsShown` is violated; so is `NoAnswerAfterReveal`.
- *The teacher's side fails* (`teacher_unanswered` in `Mishaps`, or `announce` in
  `Fallible`): a start is written, but its reply, or its broadcast, does not reach the
  teacher's screen, whose connection was cut at that moment. The lobby stays on the
  screen. Later events make the screen ask for the review of a question it does not show
  (`ReviewsWhatIsShown` is violated), and the button of the lobby starts the round over:
  `NoAnswerAfterReveal` is violated. A broadcast that dies also leaves
  the screens behind that were sent the activation before: `QuestionInStep`.
- *A late reload.* Its reply puts an old status on the screen until the next
  event. A teacher's screen whose `id` is true stays without an automatic review.
- *A late failure.* The reply to an answer that comes after the next activation
  clears `ax` for the new question, although it was not about it.
- *Restart at the screen* (`yu`, `aYE`) does not clear `x`: the last question of the
  old round stays behind the lobby.
- *Events missed without a connection* are not fetched afterwards; the next
  activation repairs the screen.
- *A forced finish is silent.* `admin.go:499` broadcasts nothing; screens find out when a
  request is refused.
- *Refresh against log out.* A refresh of the tokens that is answered after a log out
  stores its tokens (`main.dart.js:57866`, `main.dart.js:57902`): read in the source, and in no model.

All but the last follow from the modules as they stand, with the constants named.

## 8. Not modelled

- Analytics (Cronbach's alpha, point-biserial correlation): real-valued
  statistics over a read-only matrix, floating point is out of TLC's reach.
- Uploads, mail, configuration, server wiring, seed and load test: I/O.
- Imports (GIFT, Moodle XML): parsers without state.
- Tokens: cryptography; the strength of a password is a set in `Accounts`. Token
  revocation is never constructed by the program (`NewRevocation` has no caller).
- The comparison of JSON answers: `CheckAnswer` appears as its verdict.
- The catalogue: single statements behind an owner check.
- The plain limiter by IP (`allow`, one step under a lock), and how the address of a
  client is read.
- The web client but for the live room screen. The solo screen (`A.QR`) polls and
  shows one's own question, and its server side is in `RoomSession`; the session and its
  storage (`A.qz`, `A.qA`, `A.pM`) keep tokens the server has no state for; the other pages show
  and send forms. The rest of `main.dart.js` is the compiled Flutter framework, and
  `canvaskit` and the loaders beside it are third-party or generated: about 130000
  lines of JavaScript that hold nothing of EduQuiz's own logic, which is why the share of
  JavaScript the modules translate is small. The program's own logic is the Go code.
- In the live room screen: restarting a room, the chosen option, the countdown as a
  number, the counters and caches that decide nothing, and the reply 500 of a start or next whose
  question cannot be loaded after it was made current.
- In the rooms: deleting a room, the columns no decision reads, read-only
  handlers, and more than one room at a time (the handlers of two rooms share no
  row but the banks).
- Errors of reads that end a handler with an error reply: they change nothing, and are
  covered by `Abort`.
