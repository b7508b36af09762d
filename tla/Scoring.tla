------------------------------- MODULE Scoring -------------------------------
(***************************************************************************)
(* The pure rules of internal/services: what an answer earns (xp.go), what *)
(* level an amount of experience gives, and how SuperMemo 2 moves a        *)
(* repetition card (sm2.go), with the quality score internal/handlers      *)
(* derives from an answer.                                                 *)
(*                                                                         *)
(* The code computes in binary floating point.  Values are exact here, an  *)
(* easiness factor in hundredths, and where the exact result falls on the  *)
(* edge of a rounding the operator gives the set of the two results the    *)
(* arithmetic can produce.  A time limit of 0 means no limit.              *)
(***************************************************************************)
EXTENDS Integers

(* k in LevelFromXP.                                                        *)
LevelUnit == 100

(* Faulty variant: nothing stops the penalty at the limit.                 *)
XPAwardsUnbounded(correct, difficulty, elapsed, limit) ==
  LET d == CASE difficulty < 1 -> 1 [] difficulty > 5 -> 5 [] OTHER -> difficulty
      n == 20 * d * limit - 10 * d * elapsed + limit
  IN  CASE ~correct  -> {0}
        [] limit = 0 -> {10 * d}
        [] OTHER     -> {n \div (2 * limit)}
                          \cup (IF n % (2 * limit) = 0 THEN {n \div (2 * limit) - 1} ELSE {})

(* XP for an answer: 10 d (1 - t/2T), rounded to the nearest integer.       *)
XPAwards(correct, difficulty, elapsed, limit) ==
  LET d == CASE difficulty < 1 -> 1 [] difficulty > 5 -> 5 [] OTHER -> difficulty
      t == IF elapsed > limit THEN limit ELSE elapsed
      n == 20 * d * limit - 10 * d * t + limit
  IN  CASE ~correct  -> {0}
        [] limit = 0 -> {10 * d}
        [] OTHER     -> {n \div (2 * limit)}
                          \cup (IF n % (2 * limit) = 0 THEN {n \div (2 * limit) - 1} ELSE {})

(* Faulty variant: the root is rounded up.                                  *)
LevelRoundedUp(xp) ==
  CHOOSE l \in 0 .. xp : l * l * LevelUnit >= xp /\ \A m \in 0 .. xp : m * m * LevelUnit >= xp => l <= m

(* floor(sqrt(xp / k)), found by linear search; no total is negative.       *)
LevelFromXP(xp) ==
  CHOOSE l \in 0 .. xp : l * l * LevelUnit <= xp /\ xp < (l + 1) * (l + 1) * LevelUnit

(* Faulty variant: a wrong answer in time passes for a hesitant one.        *)
QScoreLenient(correct, elapsed, limit) ==
  IF limit > 0 /\ elapsed > limit THEN 1 ELSE IF correct THEN 5 ELSE 3

(* sm2QScore.                                                               *)
QScore(correct, elapsed, limit) ==
  CASE ~correct               -> IF limit > 0 /\ elapsed >= limit THEN 1 ELSE 2
    [] correct /\ limit = 0   -> 4
    [] correct /\ limit > 0   -> CASE elapsed * 2 <= limit                      -> 5
                                  [] elapsed * 2 > limit /\ elapsed <= limit  -> 4
                                  [] elapsed > limit                          -> 3

-----------------------------------------------------------------------------
(* A card: the easiness factor in hundredths, the interval in days, the     *)
(* repetitions, the day of the last review and the day it is due.           *)
Card == [ef : Nat, interval : Nat, reps : Nat, last : Nat, due : Int]

NewSm2State == [ef |-> 250, interval |-> 0, reps |-> 0, last |-> 0, due |-> 0]

(* ceilInt(interval * EF).  sm2_states.ef is a REAL: what is read back lies *)
(* on either side of the factor written, so that an exact product may be    *)
(* rounded up to the next integer.                                          *)
Products(interval, ef) ==
  LET p == interval * ef
  IN  IF p % 100 = 0 THEN {p \div 100, p \div 100 + 1} ELSE {p \div 100 + 1}

(* time.Duration is an int64 of nanoseconds: 2^64 ns is 213504 days (to the *)
(* day), and an interval of half of it or more wraps around.                *)
DurationDays == 213504

Wrapped(days) == ((days + DurationDays \div 2) % DurationDays) - DurationDays \div 2

(* Faulty variant: a failed repetition keeps its interval.                  *)
IntervalsKeptOnFailure(s, q) ==
  CASE q < 3                 -> {s.interval}
    [] q >= 3 /\ s.reps = 0  -> {1}
    [] q >= 3 /\ s.reps = 1  -> {6}
    [] q >= 3 /\ s.reps >= 2 -> Products(s.interval, s.ef)

Intervals(s, q) ==
  CASE q < 3                 -> {1}
    [] q >= 3 /\ s.reps = 0  -> {1}
    [] q >= 3 /\ s.reps = 1  -> {6}
    [] q >= 3 /\ s.reps >= 2 -> Products(s.interval, s.ef)

(* Sm2Update, for a score q from 0 to 5: QScore gives no other.             *)
Sm2Update(s, q, today) ==
  LET ef == s.ef + 10 - (5 - q) * (8 + (5 - q) * 2)
  IN  {[ef |-> IF ef < 130 THEN 130 ELSE ef,
        interval |-> i,
        reps |-> IF q < 3 THEN 0 ELSE s.reps + 1,
        last |-> today,
        due |-> today + Wrapped(i)] : i \in Intervals(s, q)}

(* What SuperMemo 2 promises of a card that was reviewed: the first two     *)
(* intervals are of 1 and 6 days, later ones are longer, a failure leads    *)
(* back to the first, and the easiness factor stays above its floor.        *)
CardShape(c) ==
  /\ c.ef >= 130
  /\ c.reps \in {0, 1} => c.interval = 1
  /\ c.reps = 2 => c.interval = 6
  /\ c.reps > 2 => c.interval > 6
=============================================================================
