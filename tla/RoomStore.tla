------------------------------ MODULE RoomStore ------------------------------
(***************************************************************************)
(* The tables rooms, participants and answers (and the question banks the  *)
(* rooms draw from), for one room, with one operator per SQL statement of  *)
(* internal/repository/rooms.go and internal/repository/answers.go.  Each  *)
(* statement, and the one transaction RestartRoom, is atomic; nothing      *)
(* holds between two statements of the same HTTP handler.                  *)
(*                                                                         *)
(* A time stamp column is modelled by whether it is NULL.                  *)
(***************************************************************************)
EXTENDS Naturals, Sequences, FiniteSets, SequencesExt

CONSTANTS
  Students,     (* the users who may join the room                          *)
  Questions,    (* every question id that can ever exist                    *)
  Banks,        (* the question banks of the course                         *)
  InitialBank,  (* Banks -> sets of questions: their content at creation    *)
  Modes,        (* the modes a room may be given: classic, timer, race      *)
  NoQuestion    (* NULL in rooms.current_question_id                        *)

ASSUME StoreAssumption ==
  /\ IsFiniteSet(Questions)
  /\ NoQuestion \notin Questions
  /\ InitialBank \in [Banks -> SUBSET Questions]
  /\ Modes \subseteq {"classic", "timer", "race"}

VARIABLES
  room,     (* the row of rooms                                             *)
  part,     (* the rows of participants, by user                            *)
  answers,  (* the rows of answers                                          *)
  bank,     (* the questions of each bank                                   *)
  round     (* how many times the room was restarted: a history variable,   *)
            (* the schema has no such column                                *)

storeVars == <<room, part, answers, bank, round>>

Statuses == {"created", "waiting", "active", "review", "finished"}

SoloModes == {"timer", "race"}

(* The orders rand.Shuffle may give to a set of questions, ListByBank's     *)
(* own order among them.                                                    *)
Orderings(S) == {s \in [1 .. Cardinality(S) -> S] : IsInjective(s)}

Answered(s) == {q \in Questions : \E a \in answers : a.who = s /\ a.question = q}

Joined == {s \in Students : part[s].joined}

(* Participants with left_at NULL: the ones auto-finish counts.             *)
Present == {s \in Joined : ~part[s].left}

Room ==
  [status  : Statuses,
   mode    : Modes,
   bank    : Banks,
   order   : Seq(Questions),
   asked   : Seq(Questions),
   current : Questions \cup {NoQuestion},
   started : BOOLEAN,
   ended   : BOOLEAN]

Participant == [joined : BOOLEAN, left : BOOLEAN, idx : Nat, fin : BOOLEAN]

Answer == [who : Students, question : Questions, round : Nat]

StoreTypeOK ==
  /\ room \in Room
  /\ part \in [Students -> Participant]
  /\ answers \subseteq Answer
  /\ bank \in [Banks -> SUBSET Questions]
  /\ round \in Nat

(* CreateRoom: every question of the bank is put in the queue, possibly     *)
(* shuffled; the room starts in the column default 'created'.               *)
StoreInit ==
  /\ \E m \in Modes, b \in Banks : \E o \in Orderings(InitialBank[b]) :
       room = [status |-> "created", mode |-> m, bank |-> b, order |-> o,
               asked |-> <<>>, current |-> NoQuestion,
               started |-> FALSE, ended |-> FALSE]
  /\ part = [s \in Students |-> [joined |-> FALSE, left |-> FALSE, idx |-> 0, fin |-> FALSE]]
  /\ answers = {}
  /\ bank = InitialBank
  /\ round = 0

-----------------------------------------------------------------------------
(* rooms *)

(* UPDATE rooms ... WHERE status = from: affects no row, and so reports     *)
(* ErrInvalidStatus, when the status has changed.                           *)
SetStatus(from, to) ==
  /\ room' = IF room.status = from
             THEN [room EXCEPT !.status = to,
                               !.started = IF to = "active" THEN TRUE ELSE @,
                               !.ended = IF to = "finished" THEN TRUE ELSE @]
             ELSE room
  /\ UNCHANGED <<part, answers, bank, round>>

(* UPDATE rooms SET ... status = 'active' WHERE id: no condition on status, *)
(* and the time stamps of the session stay as they are.                     *)
SetCurrentQuestion(q, asked) ==
  /\ room' = [room EXCEPT !.current = q, !.asked = asked, !.status = "active"]
  /\ UNCHANGED <<part, answers, bank, round>>

(* Faulty variant: array_prepend instead of array_append.                   *)
PrependQuestionToOrder(q) ==
  /\ room' = [room EXCEPT !.order = <<q>> \o @]
  /\ UNCHANGED <<part, answers, bank, round>>

AppendQuestionToOrder(q) ==
  /\ room' = [room EXCEPT !.order = Append(@, q)]
  /\ UNCHANGED <<part, answers, bank, round>>

(* ForceFinish has no condition either: the admin panel uses it.            *)
ForceFinish ==
  /\ room' = [room EXCEPT !.status = "finished", !.ended = TRUE]
  /\ UNCHANGED <<part, answers, bank, round>>

(* Faulty variant: current_question_id is not cleared.                      *)
RestartTxKeepingCurrent(b, order, mode) ==
  /\ room' = [room EXCEPT !.status = "waiting", !.bank = b, !.order = order,
                          !.mode = mode, !.asked = <<>>]
  /\ part' = [s \in Students |-> [part[s] EXCEPT !.idx = 0, !.fin = FALSE]]
  /\ answers' = {}
  /\ round' = round + 1
  /\ UNCHANGED bank

(* One transaction over the three tables.  started_at, finished_at and      *)
(* left_at keep their values.                                               *)
RestartTx(b, order, mode) ==
  /\ room' = [room EXCEPT !.status = "waiting", !.bank = b, !.order = order,
                          !.mode = mode, !.asked = <<>>, !.current = NoQuestion]
  /\ part' = [s \in Students |-> [part[s] EXCEPT !.idx = 0, !.fin = FALSE]]
  /\ answers' = {}
  /\ round' = round + 1
  /\ UNCHANGED bank

(* QuestionsRepo.Insert: a fresh id in the room's bank.                     *)
InsertQuestion(b, q) ==
  /\ q \notin UNION {bank[c] : c \in Banks}
  /\ bank' = [bank EXCEPT ![b] = @ \cup {q}]
  /\ UNCHANGED <<room, part, answers, round>>

-----------------------------------------------------------------------------
(* participants *)

AddParticipant(s) ==
  /\ ~part[s].joined
  /\ part' = [part EXCEPT ![s] = [joined |-> TRUE, left |-> FALSE, idx |-> 0, fin |-> FALSE]]
  /\ UNCHANGED <<room, answers, bank, round>>

LeaveParticipant(s) ==
  /\ part' = [part EXCEPT ![s].left = TRUE]
  /\ UNCHANGED <<room, answers, bank, round>>

RejoinParticipant(s) ==
  /\ part' = [part EXCEPT ![s].left = FALSE]
  /\ UNCHANGED <<room, answers, bank, round>>

(* idx = LEAST(idx + 1, total); finished once idx + 1 reaches total.        *)
AdvanceParticipant(s, total) ==
  /\ LET next == part[s].idx + 1
     IN  part' = [part EXCEPT ![s] =
                    [part[s] EXCEPT !.idx = IF next <= total THEN next ELSE total,
                                    !.fin = IF next >= total THEN TRUE ELSE part[s].fin]]
  /\ UNCHANGED <<room, answers, bank, round>>

(* Faulty variant: the condition finished_at_session IS NULL is missing.    *)
ResetAnyParticipant(s) ==
  /\ part' = [part EXCEPT ![s].idx = 0]
  /\ UNCHANGED <<room, answers, bank, round>>

(* Affects no row, and so reports ErrNotFound, once the student finished.   *)
ResetParticipant(s) ==
  /\ part' = IF part[s].fin THEN part ELSE [part EXCEPT ![s].idx = 0]
  /\ UNCHANGED <<room, answers, bank, round>>

-----------------------------------------------------------------------------
(* answers *)

(* UNIQUE (room, question, participant): a second row is refused with       *)
(* ErrDuplicateAnswer.  r is the round whose room row the handler had read. *)
InsertAnswer(s, q, r) ==
  /\ answers' = IF q \in Answered(s) THEN answers
                ELSE answers \cup {[who |-> s, question |-> q, round |-> r]}
  /\ UNCHANGED <<room, part, bank, round>>

DeleteByParticipant(s) ==
  /\ answers' = {a \in answers : a.who # s}
  /\ UNCHANGED <<room, part, bank, round>>

DeleteAnswer(a) ==
  /\ answers' = answers \ {a}
  /\ UNCHANGED <<room, part, bank, round>>
=============================================================================
