------------------------------ MODULE Accounts ------------------------------
(***************************************************************************)
(* One account and the ways to its password: the login with its limiter    *)
(* (internal/server/ratelimit.go), the links of a forgotten password       *)
(* (internal/handlers/auth.go, internal/repository/password_reset.go) and  *)
(* the change of a known one (internal/handlers/me.go), as concurrent      *)
(* requests.  One action is one SQL statement, or one acquisition of the   *)
(* lock of a limiter.                                                      *)
(*                                                                         *)
(* Time is what it changes: a link is fresh for two minutes and valid for  *)
(* half an hour, and a bucket gets a token back.                           *)
(***************************************************************************)
EXTENDS Naturals, FiniteSets

CONSTANTS
  Requests,    (* requests in flight at once                                *)
  Links,       (* every link that can ever be issued                        *)
  NoLink,      (* a change of password that needs none                      *)
  Passwords,   (* the passwords people try                                  *)
  Weak,        (* those that ValidatePasswordStrength refuses               *)
  Emails,      (* the addresses people log in with                          *)
  Known,       (* the one of the account                                    *)
  IP,          (* the address all requests come from                        *)
  Burst,       (* the size of a bucket, by its key                          *)
  MaxRefills,  (* bound: once a bucket has got back as many, none does      *)
  MaxLapses,   (* bound: how often the UPDATE of old links fails            *)
  Fallible     (* the other statements that may fail                        *)

Keys == Emails \cup {IP}

ASSUME AccountsAssumption ==
  /\ IsFiniteSet(Requests) /\ Requests # {}
  /\ IsFiniteSet(Links) /\ NoLink \notin Links
  /\ Weak \subseteq Passwords
  /\ Known \in Emails /\ IP \notin Emails
  /\ Burst \in [Keys -> Nat \ {0}]
  /\ MaxRefills \in Nat /\ MaxLapses \in Nat
  /\ Fallible \subseteq {"recently", "create", "update"}

VARIABLES
  password,  (* what users.password_hash is the hash of                     *)
  links,     (* the rows of password_reset_tokens                           *)
  mailed,    (* the links that reached the mailbox                          *)
  bucket,    (* the tokens in a bucket                                      *)
  pending,   (* the statement a request executes next                       *)
  refilled,  (* history: the tokens a bucket got back                       *)
  fails,     (* history: the failed logins, by bucket                       *)
  lapses,    (* history: the failed UPDATEs of old links                    *)
  changes    (* history: the changes of password made with a link           *)

database == <<password, links, mailed, lapses, changes>>

limiter == <<bucket, refilled, fails>>

vars == <<password, links, mailed, bucket, pending, refilled, fails, lapses, changes>>

Link == [state : {"unissued", "live", "used"}, fresh : BOOLEAN, expired : BOOLEAN]

Idle == [op |-> "idle"]

Pending ==
  {Idle}
    \cup [op : {"check_ip", "verify", "charge", "charge_ip"}, email : Emails]
    \cup [op : {"invalidate", "create"}]
    \cup [op : {"mail"}, link : Links]
    \cup [op : {"update"}, password : Passwords, link : Links \cup {NoLink}]

TypeOK ==
  /\ password \in Passwords
  /\ links \in [Links -> Link]
  /\ mailed \subseteq Links
  /\ bucket \in [Keys -> Nat]
  /\ pending \in [Requests -> Pending]
  /\ refilled \in [Keys -> 0 .. MaxRefills]
  /\ fails \in [Keys -> Nat]
  /\ lapses \in 0 .. MaxLapses
  /\ changes \in [Links -> Nat]

(* The first password was not necessarily looked at: cmd/seed inserts its   *)
(* own unchecked.                                                           *)
Init ==
  /\ password \in Passwords
  /\ links = [l \in Links |-> [state |-> "unissued", fresh |-> FALSE, expired |-> FALSE]]
  /\ mailed = {}
  /\ bucket = Burst
  /\ pending = [r \in Requests |-> Idle]
  /\ refilled = [k \in Keys |-> 0]
  /\ fails = [k \in Keys |-> 0]
  /\ lapses = 0
  /\ changes = [l \in Links |-> 0]

Then(r, p) == pending' = [pending EXCEPT ![r] = p]

-----------------------------------------------------------------------------
(* Login, behind loginRateLimitMiddleware                                   *)

(* The middleware looks into the two buckets one after the other, and takes *)
(* nothing out.                                                             *)
Login(r, email) ==
  /\ pending[r] = Idle
  /\ bucket[email] >= 1
  /\ Then(r, [op |-> "check_ip", email |-> email])
  /\ UNCHANGED <<database, limiter>>

CheckIP(r) ==
  /\ pending[r].op = "check_ip"
  /\ Then(r, IF bucket[IP] >= 1 THEN [op |-> "verify", email |-> pending[r].email] ELSE Idle)
  /\ UNCHANGED <<database, limiter>>

(* Whoever knows the account may give its password, and anybody a wrong     *)
(* one.  An unknown address, a wrong password and a failed SELECT are       *)
(* answered alike, with 401.                                                *)
Verified(r) ==
  /\ pending[r].op = "verify" /\ pending[r].email = Known
  /\ Then(r, Idle)
  /\ UNCHANGED <<database, limiter>>

Unauthorized(r) ==
  /\ pending[r].op = "verify"
  /\ Then(r, [op |-> "charge", email |-> pending[r].email])
  /\ fails' = [fails EXCEPT ![pending[r].email] = @ + 1, ![IP] = @ + 1]
  /\ UNCHANGED <<database, bucket, refilled>>

(* Faulty variant: the penalty does not look at what is left.               *)
PenalizeBlindly(k) == bucket' = [bucket EXCEPT ![k] = @ - 1]

(* Faulty variant: a bucket is only charged while it is full.               *)
PenalizeFull(k) == bucket' = [bucket EXCEPT ![k] = IF @ >= Burst[k] THEN @ - 1 ELSE @]

penalize(k) == bucket' = [bucket EXCEPT ![k] = IF @ >= 1 THEN @ - 1 ELSE 0]

Charge(r) ==
  /\ pending[r].op = "charge"
  /\ penalize(pending[r].email)
  /\ Then(r, [op |-> "charge_ip", email |-> pending[r].email])
  /\ UNCHANGED <<database, refilled, fails>>

ChargeIP(r) ==
  /\ pending[r].op = "charge_ip"
  /\ penalize(IP)
  /\ Then(r, Idle)
  /\ UNCHANGED <<database, refilled, fails>>

(* refillLocked; the buckets gcLoop forgets would be full again anyway.     *)
Refill(k) ==
  /\ bucket[k] < Burst[k]
  /\ \A j \in Keys : refilled[j] < MaxRefills
  /\ bucket' = [bucket EXCEPT ![k] = @ + 1]
  /\ refilled' = [refilled EXCEPT ![k] = @ + 1]
  /\ UNCHANGED <<database, pending, fails>>

-----------------------------------------------------------------------------
(* A forgotten password: a link is asked for, mailed and used               *)

Live == {l \in Links : links[l].state = "live"}

RecentlyRequested == \E l \in Links : links[l].state # "unissued" /\ links[l].fresh

(* An error of the look at the last two minutes is no obstacle.             *)
ForgotPassword(r) ==
  /\ pending[r] = Idle
  /\ RecentlyRequested => "recently" \in Fallible
  /\ Then(r, [op |-> "invalidate"])
  /\ UNCHANGED <<database, limiter>>

(* Faulty variant: only the links still fresh are invalidated.              *)
InvalidateFresh(r) ==
  /\ pending[r].op = "invalidate"
  /\ links' = [l \in Links |-> IF l \in Live /\ links[l].fresh
                               THEN [links[l] EXCEPT !.state = "used"] ELSE links[l]]
  /\ Then(r, [op |-> "create"])
  /\ UNCHANGED <<password, mailed, lapses, changes, limiter>>

InvalidateUnused(r) ==
  /\ pending[r].op = "invalidate"
  /\ links' = [l \in Links |-> IF l \in Live
                               THEN [links[l] EXCEPT !.state = "used"] ELSE links[l]]
  /\ Then(r, [op |-> "create"])
  /\ UNCHANGED <<password, mailed, lapses, changes, limiter>>

(* The error of that UPDATE is logged, and the handler goes on.             *)
Lapse(r) ==
  /\ pending[r].op = "invalidate"
  /\ lapses < MaxLapses
  /\ lapses' = lapses + 1
  /\ Then(r, [op |-> "create"])
  /\ UNCHANGED <<password, links, mailed, changes, limiter>>

Create(r) ==
  /\ pending[r].op = "create"
  /\ \E l \in Links :
       /\ links[l].state = "unissued"
       /\ links' = [links EXCEPT ![l] = [state |-> "live", fresh |-> TRUE, expired |-> FALSE]]
       /\ Then(r, [op |-> "mail", link |-> l])
  /\ UNCHANGED <<password, mailed, lapses, changes, limiter>>

(* The message may be lost: the reply is the same.                          *)
SendPasswordReset(r) ==
  /\ pending[r].op = "mail"
  /\ mailed' \in {mailed, mailed \cup {pending[r].link}}
  /\ Then(r, Idle)
  /\ UNCHANGED <<password, links, lapses, changes, limiter>>

(* Faulty variant: used_at is not part of the condition.                    *)
ConsumeAny(l) ==
  /\ l \in mailed /\ ~links[l].expired
  /\ links' = [links EXCEPT ![l].state = "used"]

ConsumeValid(l) ==
  /\ l \in Live /\ ~links[l].expired
  /\ links' = [links EXCEPT ![l].state = "used"]

(* The strength of the new password is only looked at once the link is      *)
(* used up.                                                                 *)
ResetPassword(r, l, new) ==
  /\ pending[r] = Idle
  /\ l \in mailed
  /\ ConsumeValid(l)
  /\ Then(r, IF new \in Weak THEN Idle ELSE [op |-> "update", password |-> new, link |-> l])
  /\ UNCHANGED <<password, mailed, lapses, changes, limiter>>

(* The old password is compared with the one read here, the new one written *)
(* later whatever happens in between.                                       *)
ChangePassword(r, old, new) ==
  /\ pending[r] = Idle
  /\ old = password /\ new \notin Weak
  /\ Then(r, [op |-> "update", password |-> new, link |-> NoLink])
  /\ UNCHANGED <<database, limiter>>

(* The handler of the administrator.                                        *)
AdminResetPassword(r, new) ==
  /\ pending[r] = Idle
  /\ new \notin Weak
  /\ Then(r, [op |-> "update", password |-> new, link |-> NoLink])
  /\ UNCHANGED <<database, limiter>>

UpdatePassword(r) ==
  LET p == pending[r]
  IN  /\ p.op = "update"
      /\ password' = p.password
      /\ changes' = [l \in Links |-> IF l = p.link THEN changes[l] + 1 ELSE changes[l]]
      /\ Then(r, Idle)
      /\ UNCHANGED <<links, mailed, lapses, limiter>>

(* The statement fails and the handler gives up.                            *)
GiveUp(r) ==
  /\ pending[r].op \in Fallible
  /\ Then(r, Idle)
  /\ UNCHANGED <<database, limiter>>

(* Two minutes pass, and half an hour.                                      *)
Cool ==
  /\ RecentlyRequested
  /\ links' = [l \in Links |-> [links[l] EXCEPT !.fresh = FALSE]]
  /\ UNCHANGED <<password, mailed, pending, lapses, changes, limiter>>

Expire(l) ==
  /\ l \in Live /\ ~links[l].fresh /\ ~links[l].expired
  /\ links' = [links EXCEPT ![l].expired = TRUE]
  /\ UNCHANGED <<password, mailed, pending, lapses, changes, limiter>>

-----------------------------------------------------------------------------
Calls(r) ==
  \/ \E email \in Emails : Login(r, email)
  \/ ForgotPassword(r)
  \/ \E l \in Links, new \in Passwords : ResetPassword(r, l, new)
  \/ \E old, new \in Passwords : ChangePassword(r, old, new)
  \/ \E new \in Passwords : AdminResetPassword(r, new)

Continues(r) ==
  \/ CheckIP(r) \/ Verified(r) \/ Unauthorized(r) \/ Charge(r) \/ ChargeIP(r)
  \/ InvalidateUnused(r) \/ Lapse(r) \/ Create(r) \/ SendPasswordReset(r)
  \/ UpdatePassword(r) \/ GiveUp(r)

Next ==
  \/ \E r \in Requests : Calls(r) \/ Continues(r)
  \/ \E k \in Keys : Refill(k)
  \/ Cool
  \/ \E l \in Links : Expire(l)

Spec == Init /\ [][Next]_vars

-----------------------------------------------------------------------------
(* A link changes the password at most once, however many requests present  *)
(* it at the same time.                                                     *)
LinkUsedOnce == \A l \in Links : changes[l] <= 1

(* Concurrent requests for a link may leave one link each alive, and a      *)
(* failed UPDATE one more: never does an older one survive.  With requests  *)
(* one at a time and no failure only the last link is alive.                *)
FewLinksLive == Cardinality(Live) <= Cardinality(Requests) + lapses

(* Attempts that passed the limiter together are charged when it has        *)
(* nothing left; each time a bucket runs dry that lets through one failure  *)
(* for each other request in flight, and no more.                           *)
GuessesAreLimited ==
  \A k \in Keys :
    fails[k] <= Burst[k] + refilled[k] + (refilled[k] + 1) * (Cardinality(Requests) - 1)
=============================================================================
