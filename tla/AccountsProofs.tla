--------------------------- MODULE AccountsProofs ---------------------------
(***************************************************************************)
(* Theorems about Accounts for every number of requests and links and      *)
(* every size of the buckets.                                              *)
(***************************************************************************)
EXTENDS Accounts, FiniteSetTheorems, TLAPS

-----------------------------------------------------------------------------
(* Type correctness *)

(* What a request executes next, by its kind.                               *)
LEMMA PendingOps ==
  /\ Idle \in Pending /\ [op |-> "invalidate"] \in Pending /\ [op |-> "create"] \in Pending
  /\ \A o \in {"check_ip", "verify", "charge", "charge_ip"}, e \in Emails :
       [op |-> o, email |-> e] \in Pending
  /\ \A l \in Links : [op |-> "mail", link |-> l] \in Pending
  /\ \A w \in Passwords, l \in Links \cup {NoLink} :
       [op |-> "update", password |-> w, link |-> l] \in Pending
  /\ \A p \in Pending :
       /\ p.op \in {"check_ip", "verify", "charge", "charge_ip"} => p.email \in Emails
       /\ p.op = "mail" => p.link \in Links
       /\ p.op = "update" => p.password \in Passwords /\ p.link \in Links \cup {NoLink}
  BY DEF Pending, Idle

(* The penalty keeps the buckets in the natural numbers.                    *)
LEMMA PenalizeKeepsType ==
  ASSUME bucket \in [Keys -> Nat], NEW k \in Keys, penalize(k)
  PROVE  bucket' \in [Keys -> Nat]
  BY DEF penalize

(* Every action keeps the types.                                            *)
LEMMA StepKeepsType == TypeOK /\ [Next]_vars => TypeOK'
<1> SUFFICES ASSUME TypeOK, [Next]_vars PROVE TypeOK'
  OBVIOUS
<1> USE DEF TypeOK, Then, database, limiter
<1>0. Emails \subseteq Keys /\ IP \in Keys
  BY DEF Keys
<1>1. ASSUME NEW r \in Requests, NEW email \in Emails, Login(r, email)
      PROVE  TypeOK'
  BY <1>1, PendingOps DEF Login
<1>2. ASSUME NEW r \in Requests, ForgotPassword(r)
      PROVE  TypeOK'
  BY <1>2, PendingOps DEF ForgotPassword
<1>3. ASSUME NEW r \in Requests, NEW l \in Links, NEW new \in Passwords,
             ResetPassword(r, l, new)
      PROVE  TypeOK'
  <2>1. links' \in [Links -> Link]
    BY <1>3 DEF ResetPassword, ConsumeValid, Link
  <2>2. pending' \in [Requests -> Pending]
    BY <1>3, PendingOps DEF ResetPassword
  <2> QED
    BY <1>3, <2>1, <2>2 DEF ResetPassword
<1>4. ASSUME NEW r \in Requests, NEW old \in Passwords, NEW new \in Passwords,
             ChangePassword(r, old, new)
      PROVE  TypeOK'
  BY <1>4, PendingOps DEF ChangePassword
<1>5. ASSUME NEW r \in Requests, NEW new \in Passwords, AdminResetPassword(r, new)
      PROVE  TypeOK'
  BY <1>5, PendingOps DEF AdminResetPassword
<1>6. ASSUME NEW r \in Requests, CheckIP(r)
      PROVE  TypeOK'
  <2>1. pending' \in [Requests -> Pending]
    BY <1>6, PendingOps DEF CheckIP
  <2> QED
    BY <1>6, <2>1 DEF CheckIP
<1>7. ASSUME NEW r \in Requests, Verified(r)
      PROVE  TypeOK'
  BY <1>7, PendingOps DEF Verified
<1>8. ASSUME NEW r \in Requests, Unauthorized(r)
      PROVE  TypeOK'
  <2>1. pending' \in [Requests -> Pending]
    BY <1>8, PendingOps DEF Unauthorized
  <2>2. fails' \in [Keys -> Nat]
    BY <1>0, <1>8 DEF Unauthorized
  <2> QED
    BY <1>8, <2>1, <2>2 DEF Unauthorized
<1>9. ASSUME NEW r \in Requests, Charge(r)
      PROVE  TypeOK'
  <2>1. pending[r].email \in Emails
    BY <1>9, PendingOps DEF Charge
  <2>2. pending' \in [Requests -> Pending]
    BY <1>9, <2>1, PendingOps DEF Charge
  <2>3. bucket' \in [Keys -> Nat]
    BY <1>0, <1>9, <2>1, PenalizeKeepsType DEF Charge
  <2> QED
    BY <1>9, <2>2, <2>3 DEF Charge
<1>10. ASSUME NEW r \in Requests, ChargeIP(r)
       PROVE  TypeOK'
  BY <1>0, <1>10, PendingOps, PenalizeKeepsType DEF ChargeIP
<1>11. ASSUME NEW r \in Requests, InvalidateUnused(r)
       PROVE  TypeOK'
  <2>1. links' \in [Links -> Link]
    BY <1>11 DEF InvalidateUnused, Link
  <2> QED
    BY <1>11, <2>1, PendingOps DEF InvalidateUnused
<1>12. ASSUME NEW r \in Requests, Lapse(r)
       PROVE  TypeOK'
  BY <1>12, PendingOps, AccountsAssumption DEF Lapse, AccountsAssumption
<1>13. ASSUME NEW r \in Requests, Create(r)
       PROVE  TypeOK'
  <2>1. PICK l \in Links :
          /\ links' = [links EXCEPT ![l] = [state |-> "live", fresh |-> TRUE, expired |-> FALSE]]
          /\ pending' = [pending EXCEPT ![r] = [op |-> "mail", link |-> l]]
    BY <1>13 DEF Create
  <2>2. links' \in [Links -> Link]
    BY <2>1 DEF Link
  <2> QED
    BY <1>13, <2>1, <2>2, PendingOps DEF Create
<1>14. ASSUME NEW r \in Requests, SendPasswordReset(r)
       PROVE  TypeOK'
  BY <1>14, PendingOps DEF SendPasswordReset
<1>15. ASSUME NEW r \in Requests, UpdatePassword(r)
       PROVE  TypeOK'
  <2>1. password' \in Passwords /\ changes' \in [Links -> Nat]
    BY <1>15, PendingOps DEF UpdatePassword
  <2> QED
    BY <1>15, <2>1, PendingOps DEF UpdatePassword
<1>16. ASSUME NEW r \in Requests, GiveUp(r)
       PROVE  TypeOK'
  BY <1>16, PendingOps DEF GiveUp
<1>17. ASSUME NEW k \in Keys, Refill(k)
       PROVE  TypeOK'
  BY <1>17, AccountsAssumption DEF Refill, AccountsAssumption
<1>18. ASSUME Cool
       PROVE  TypeOK'
  BY <1>18 DEF Cool, Link
<1>19. ASSUME NEW l \in Links, Expire(l)
       PROVE  TypeOK'
  BY <1>19 DEF Expire, Link
<1>20. ASSUME UNCHANGED vars
       PROVE  TypeOK'
  BY <1>20 DEF vars
<1> QED
  BY <1>1, <1>2, <1>3, <1>4, <1>5, <1>6, <1>7, <1>8, <1>9, <1>10, <1>11, <1>12, <1>13,
     <1>14, <1>15, <1>16, <1>17, <1>18, <1>19, <1>20 DEF Next, Calls, Continues

(* Every variable keeps its type; in particular no bucket owes tokens.      *)
THEOREM TypeCorrect == Spec => []TypeOK
<1>1. Init => TypeOK
  BY AccountsAssumption, PendingOps DEF Init, TypeOK, AccountsAssumption, Link
<1> QED
  BY <1>1, StepKeepsType, PTL DEF Spec

-----------------------------------------------------------------------------
(* A link is used once *)

(* r is about to write the password that the link l brought.                *)
Uses(r, l) == pending[r].op = "update" /\ pending[r].link = l

(* A used link is spent or in the hands of a single request.                *)
OneUse ==
  \A l \in Links :
    /\ changes[l] <= 1
    /\ changes[l] = 1 => links[l].state = "used"
    /\ \A r \in Requests : Uses(r, l) => links[l].state = "used" /\ changes[l] = 0
    /\ \A r, q \in Requests : Uses(r, l) /\ Uses(q, l) => r = q

(* What keeps the links and puts no request about to use one keeps OneUse.  *)
LEMMA OtherStepsKeepOneUse ==
  ASSUME OneUse,
         \A l \in Links : links[l].state = "used" => links'[l].state = "used",
         changes' = changes,
         \A r \in Requests, l \in Links : Uses(r, l)' => Uses(r, l)
  PROVE  OneUse'
  BY DEF OneUse

(* A request that goes on with anything but a link is not one more user.    *)
LEMMA NoNewUse ==
  ASSUME TypeOK, NEW r \in Requests, NEW p, Then(r, p),
         p.op # "update" \/ p.link \notin Links
  PROVE  \A q \in Requests, l \in Links : Uses(q, l)' => Uses(q, l)
  BY DEF TypeOK, Then, Uses

(* However many requests present a link at the same time, it changes the    *)
(* password once: password_reset.go:67 finds it and marks it in one UPDATE. *)
THEOREM LinksAreUsedOnce == Spec => []LinkUsedOnce
<1>1. Init => OneUse
  BY DEF Init, OneUse, Uses, Idle
<1>2. TypeOK /\ OneUse /\ [Next]_vars => OneUse'
  <2> SUFFICES ASSUME TypeOK, OneUse, [Next]_vars PROVE OneUse'
    OBVIOUS
  <2> USE DEF database, limiter
  <2>1. ASSUME UNCHANGED <<links, changes>>, NEW r \in Requests, NEW p, Then(r, p),
               p.op # "update" \/ p.link \notin Links
        PROVE  OneUse'
    BY <2>1, NoNewUse, OtherStepsKeepOneUse
  <2>2. ASSUME NEW r \in Requests, Calls(r)
        PROVE  OneUse'
    <3>1. CASE \E email \in Emails : Login(r, email)
      BY <2>1, <3>1 DEF Login
    <3>2. CASE ForgotPassword(r)
      BY <2>1, <3>2 DEF ForgotPassword
    <3>3. ASSUME NEW l \in Links, NEW new \in Passwords, ResetPassword(r, l, new)
          PROVE  OneUse'
      <4>1. /\ links[l].state = "live" /\ changes' = changes
            /\ links' = [links EXCEPT ![l].state = "used"]
        BY <3>3 DEF ResetPassword, ConsumeValid, Live
      <4>2. \A m \in Links : links'[m].state = IF m = l THEN "used" ELSE links[m].state
        BY <4>1 DEF TypeOK, Link
      <4>3. changes[l] = 0 /\ \A q \in Requests : ~Uses(q, l)
        BY <4>1 DEF OneUse, TypeOK
      <4>4. \A q \in Requests, m \in Links : Uses(q, m)' => Uses(q, m) \/ (q = r /\ m = l)
        BY <3>3 DEF ResetPassword, Then, Uses, TypeOK, Idle
      <4> QED
        BY <4>1, <4>2, <4>3, <4>4 DEF OneUse
    <3>4. CASE \/ \E old, new \in Passwords : ChangePassword(r, old, new)
               \/ \E new \in Passwords : AdminResetPassword(r, new)
      BY <2>1, <3>4, AccountsAssumption DEF ChangePassword, AdminResetPassword, AccountsAssumption
    <3> QED
      BY <2>2, <3>1, <3>2, <3>3, <3>4 DEF Calls
  <2>3. ASSUME NEW r \in Requests, Continues(r)
        PROVE  OneUse'
    <3>1. CASE CheckIP(r) \/ Verified(r) \/ Unauthorized(r) \/ Charge(r) \/ ChargeIP(r)
      BY <2>1, <3>1 DEF CheckIP, Verified, Unauthorized, Charge, ChargeIP, Idle
    <3>2. CASE InvalidateUnused(r)
      <4>1. /\ changes' = changes
            /\ \A l \in Links : links[l].state = "used" => links'[l].state = "used"
        BY <3>2 DEF InvalidateUnused, TypeOK, Live
      <4> QED
        BY <3>2, <4>1, NoNewUse, OtherStepsKeepOneUse DEF InvalidateUnused
    <3>3. CASE Lapse(r) \/ SendPasswordReset(r) \/ GiveUp(r)
      BY <2>1, <3>3 DEF Lapse, SendPasswordReset, GiveUp, Idle
    <3>4. CASE Create(r)
      <4>1. PICK l \in Links :
              /\ links[l].state = "unissued"
              /\ links' = [links EXCEPT ![l] = [state |-> "live", fresh |-> TRUE, expired |-> FALSE]]
              /\ Then(r, [op |-> "mail", link |-> l])
        BY <3>4 DEF Create
      <4>2. \A m \in Links : links[m].state = "used" => links'[m].state = "used"
        BY <4>1 DEF TypeOK
      <4> QED
        BY <3>4, <4>1, <4>2, NoNewUse, OtherStepsKeepOneUse DEF Create
    <3>5. CASE UpdatePassword(r)
      <4>1. \A q \in Requests, l \in Links : Uses(q, l)' => q # r /\ Uses(q, l)
        BY <3>5 DEF UpdatePassword, Then, Uses, TypeOK, Idle
      <4>2. /\ links' = links
            /\ \A l \in Links : changes'[l] = IF Uses(r, l) THEN changes[l] + 1 ELSE changes[l]
        BY <3>5 DEF UpdatePassword, Uses
      <4> QED
        BY <4>1, <4>2 DEF OneUse, TypeOK
    <3> QED
      BY <2>3, <3>1, <3>2, <3>3, <3>4, <3>5 DEF Continues
  <2>4. ASSUME NEW k \in Keys, Refill(k)
        PROVE  OneUse'
    BY <2>4, OtherStepsKeepOneUse DEF Refill, Uses
  <2>5. CASE Cool
    BY <2>5, OtherStepsKeepOneUse DEF Cool, Uses, TypeOK, Link
  <2>6. ASSUME NEW l \in Links, Expire(l)
        PROVE  OneUse'
    BY <2>6, OtherStepsKeepOneUse DEF Expire, Uses, TypeOK, Link
  <2>7. CASE UNCHANGED vars
    BY <2>7, OtherStepsKeepOneUse DEF vars, Uses
  <2> QED
    BY <2>2, <2>3, <2>4, <2>5, <2>6, <2>7 DEF Next
<1>3. OneUse => LinkUsedOnce
  BY DEF OneUse, LinkUsedOnce
<1> QED
  BY <1>1, <1>2, <1>3, TypeCorrect, PTL DEF Spec

-----------------------------------------------------------------------------
(* Counting requests *)

(* A set of which only x may enter or leave.                                *)
LEMMA OneMoves ==
  ASSUME NEW S, NEW T, NEW x, IsFiniteSet(S), IsFiniteSet(T),
         \A y : y # x => (y \in S <=> y \in T)
  PROVE  /\ Cardinality(S) \in Nat /\ Cardinality(T) \in Nat
         /\ (x \in S <=> x \in T) => Cardinality(T) = Cardinality(S)
         /\ x \in S /\ x \notin T => Cardinality(T) = Cardinality(S) - 1
         /\ x \notin S /\ x \in T => Cardinality(T) = Cardinality(S) + 1
<1>1. Cardinality(S) \in Nat /\ Cardinality(T) \in Nat
  BY FS_CardinalityType
<1>2. CASE x \in S <=> x \in T
  <2>1. S = T
    BY <1>2
  <2> QED
    BY <1>1, <1>2, <2>1
<1>3. CASE x \in S /\ x \notin T
  <2>1. T = S \ {x}
    BY <1>3
  <2> QED
    BY <1>1, <1>3, <2>1, FS_RemoveElement
<1>4. CASE x \notin S /\ x \in T
  <2>1. T = S \cup {x}
    BY <1>4
  <2> QED
    BY <1>1, <1>4, <2>1, FS_AddElement
<1> QED
  BY <1>2, <1>3, <1>4

(* There are finitely many requests, so counting some of them makes sense. *)
LEMMA RequestsAreFinite ==
  /\ IsFiniteSet(Requests) /\ Cardinality(Requests) \in Nat \ {0}
  /\ IsFiniteSet(Links) /\ IsFiniteSet(Live)
<1>1. IsFiniteSet(Requests) /\ Requests # {} /\ IsFiniteSet(Links)
  BY AccountsAssumption DEF AccountsAssumption
<1>2. Cardinality(Requests) \in Nat \ {0}
  BY <1>1, FS_CardinalityType, FS_EmptySet
<1>3. IsFiniteSet(Live)
  BY <1>1, FS_Subset DEF Live
<1> QED
  BY <1>1, <1>2, <1>3

-----------------------------------------------------------------------------
(* The links that are alive *)

Creators == {r \in Requests : pending[r].op = "create"}

(* Whoever invalidated the old links creates one, and nobody else does.     *)
FewLinks == Cardinality(Live) + Cardinality(Creators) <= Cardinality(Requests) + lapses

(* The requests about to create a link, and the living links, can be counted.*)
LEMMA CreatorsAreFinite ==
  /\ IsFiniteSet(Creators) /\ Cardinality(Creators) \in Nat
  /\ Cardinality(Creators) <= Cardinality(Requests)
  /\ Cardinality(Live) \in Nat
<1>1. Creators \subseteq Requests
  BY DEF Creators
<1> QED
  BY <1>1, RequestsAreFinite, FS_Subset, FS_CardinalityType

(* No new link and no new creator leave the count where it is or lower it.  *)
LEMMA OtherStepsKeepFewLinks ==
  ASSUME TypeOK, FewLinks, lapses' = lapses,
         Live' \subseteq Live, Creators' \subseteq Creators
  PROVE  FewLinks'
<1>1. /\ Cardinality(Live') <= Cardinality(Live) /\ Cardinality(Live') \in Nat
      /\ Cardinality(Live) \in Nat
  BY RequestsAreFinite, FS_Subset, FS_CardinalityType
<1>2. /\ Cardinality(Creators') <= Cardinality(Creators) /\ Cardinality(Creators') \in Nat
      /\ Cardinality(Creators) \in Nat
  BY CreatorsAreFinite, FS_Subset, FS_CardinalityType
<1> QED
  BY <1>1, <1>2, RequestsAreFinite DEF FewLinks, TypeOK

(* Concurrent requests leave at most one living link each, and a failed     *)
(* UPDATE of the old ones one more (auth.go:265).                           *)
THEOREM FewLinksStayLive == Spec => []FewLinksLive
<1>1. Init => FewLinks
  <2> SUFFICES ASSUME Init PROVE FewLinks
    OBVIOUS
  <2>1. Live = {} /\ Creators = {} /\ lapses = 0
    BY DEF Init, Live, Creators, Idle
  <2> QED
    BY <2>1, RequestsAreFinite, FS_EmptySet DEF FewLinks
<1>2. TypeOK /\ FewLinks /\ [Next]_vars => FewLinks'
  <2> SUFFICES ASSUME TypeOK, FewLinks, [Next]_vars PROVE FewLinks'
    OBVIOUS
  <2> USE DEF database, limiter
  <2>1. ASSUME UNCHANGED <<links, lapses>>, NEW r \in Requests, NEW p, Then(r, p), p.op # "create"
        PROVE  FewLinks'
    <3>1. Live' \subseteq Live /\ Creators' \subseteq Creators
      BY <2>1 DEF Live, Creators, Then, TypeOK
    <3> QED
      BY <2>1, <3>1, OtherStepsKeepFewLinks
  <2>2. ASSUME NEW r \in Requests, Calls(r)
        PROVE  FewLinks'
    <3>1. CASE \E email \in Emails : Login(r, email)
      BY <2>1, <3>1 DEF Login
    <3>2. CASE ForgotPassword(r)
      BY <2>1, <3>2 DEF ForgotPassword
    <3>3. ASSUME NEW l \in Links, NEW new \in Passwords, ResetPassword(r, l, new)
          PROVE  FewLinks'
      <4>1. Live' \subseteq Live
        BY <3>3 DEF ResetPassword, ConsumeValid, Live, TypeOK, Link
      <4>2. Creators' \subseteq Creators
        BY <3>3 DEF ResetPassword, Then, Creators, TypeOK, Idle
      <4> QED
        BY <3>3, <4>1, <4>2, OtherStepsKeepFewLinks DEF ResetPassword
    <3>4. CASE \/ \E old, new \in Passwords : ChangePassword(r, old, new)
               \/ \E new \in Passwords : AdminResetPassword(r, new)
      BY <2>1, <3>4 DEF ChangePassword, AdminResetPassword
    <3> QED
      BY <2>2, <3>1, <3>2, <3>3, <3>4 DEF Calls
  <2>3. ASSUME NEW r \in Requests, Continues(r)
        PROVE  FewLinks'
    <3>1. CASE CheckIP(r) \/ Verified(r) \/ Unauthorized(r) \/ Charge(r) \/ ChargeIP(r)
      BY <2>1, <3>1 DEF CheckIP, Verified, Unauthorized, Charge, ChargeIP, Idle
    <3>2. CASE InvalidateUnused(r)
      <4>1. Live' = {} /\ lapses' = lapses
        BY <3>2 DEF InvalidateUnused, Live, TypeOK, Link
      <4>2. Cardinality(Live') = 0 /\ Cardinality(Creators') <= Cardinality(Requests)
        <5>1. Creators' \subseteq Requests
          BY DEF Creators
        <5> QED
          BY <4>1, <5>1, RequestsAreFinite, FS_Subset, FS_EmptySet
      <4>3. Cardinality(Creators') \in Nat
        BY RequestsAreFinite, FS_Subset, FS_CardinalityType DEF Creators
      <4> QED
        BY <4>1, <4>2, <4>3, RequestsAreFinite DEF FewLinks, TypeOK
    <3>3. CASE Lapse(r)
      <4>1. Live' = Live /\ lapses' = lapses + 1
        BY <3>3 DEF Lapse, Live
      <4>2. Creators' \subseteq Requests /\ r \notin Creators /\ r \in Creators'
        BY <3>3 DEF Lapse, Then, Creators, TypeOK
      <4>3. \A y : y # r => (y \in Creators <=> y \in Creators')
        BY <3>3 DEF Lapse, Then, Creators, TypeOK
      <4>4. Cardinality(Creators') = Cardinality(Creators) + 1
        BY <4>2, <4>3, OneMoves, CreatorsAreFinite, RequestsAreFinite, FS_Subset
      <4> QED
        BY <4>1, <4>4, CreatorsAreFinite, RequestsAreFinite DEF FewLinks, TypeOK
    <3>4. CASE Create(r)
      <4>1. PICK l \in Links :
              /\ links[l].state = "unissued"
              /\ links' = [links EXCEPT ![l] = [state |-> "live", fresh |-> TRUE, expired |-> FALSE]]
              /\ Then(r, [op |-> "mail", link |-> l])
        BY <3>4 DEF Create
      <4>2. /\ l \notin Live /\ l \in Live' /\ Live' \subseteq Links
            /\ \A y : y # l => (y \in Live <=> y \in Live')
        BY <4>1 DEF Live, TypeOK
      <4>3. Cardinality(Live') = Cardinality(Live) + 1
        BY <4>2, OneMoves, RequestsAreFinite, FS_Subset
      <4>4. /\ r \in Creators /\ r \notin Creators' /\ Creators' \subseteq Requests
            /\ \A y : y # r => (y \in Creators <=> y \in Creators')
        BY <3>4, <4>1 DEF Create, Then, Creators, TypeOK
      <4>5. Cardinality(Creators') = Cardinality(Creators) - 1
        BY <4>4, OneMoves, CreatorsAreFinite, RequestsAreFinite, FS_Subset
      <4> QED
        BY <3>4, <4>3, <4>5, CreatorsAreFinite, RequestsAreFinite DEF Create, FewLinks, TypeOK
    <3>5. CASE SendPasswordReset(r) \/ UpdatePassword(r) \/ GiveUp(r)
      BY <2>1, <3>5 DEF SendPasswordReset, UpdatePassword, GiveUp, Idle
    <3> QED
      BY <2>3, <3>1, <3>2, <3>3, <3>4, <3>5 DEF Continues
  <2>4. ASSUME NEW k \in Keys, Refill(k)
        PROVE  FewLinks'
    BY <2>4, OtherStepsKeepFewLinks DEF Refill, Live, Creators
  <2>5. CASE Cool
    <3>1. Live' \subseteq Live /\ Creators' \subseteq Creators
      BY <2>5 DEF Cool, Live, Creators, TypeOK, Link
    <3> QED
      BY <2>5, <3>1, OtherStepsKeepFewLinks DEF Cool
  <2>6. ASSUME NEW l \in Links, Expire(l)
        PROVE  FewLinks'
    <3>1. Live' \subseteq Live /\ Creators' \subseteq Creators
      BY <2>6 DEF Expire, Live, Creators, TypeOK, Link
    <3> QED
      BY <2>6, <3>1, OtherStepsKeepFewLinks DEF Expire
  <2>7. CASE UNCHANGED vars
    BY <2>7, OtherStepsKeepFewLinks DEF vars, Live, Creators
  <2> QED
    BY <2>2, <2>3, <2>4, <2>5, <2>6, <2>7 DEF Next
<1>3. TypeOK /\ FewLinks => FewLinksLive
  BY CreatorsAreFinite, RequestsAreFinite DEF FewLinks, FewLinksLive, TypeOK
<1> QED
  BY <1>1, <1>2, <1>3, TypeCorrect, PTL DEF Spec

-----------------------------------------------------------------------------
(* The guesses the limiter lets through *)

(* A statement that still has to charge the bucket k, or that has passed it *)
(* and may fail.                                                            *)
Owes(p, k) ==
  \/ p.op = "charge" /\ k \in {p.email, IP}
  \/ p.op = "charge_ip" /\ k = IP

MayFail(p, k) ==
  \/ p.op = "check_ip" /\ k = p.email
  \/ p.op = "verify" /\ k \in {p.email, IP}

Debtors(k) == {r \in Requests : Owes(pending[r], k)}

Passers(k) == {r \in Requests : MayFail(pending[r], k)}

(* The failures that slip through each time a bucket runs dry.              *)
Slips(n) == n * (Cardinality(Requests) - 1)

(* While a bucket has a token, every failure is paid for, owed for, or      *)
(* slipped through before; once it has none, whoever has passed it may slip *)
(* through.                                                                 *)
Ledger(k) ==
  /\ bucket[k] >= 1 =>
       fails[k] + bucket[k]
         <= Burst[k] + refilled[k] + Slips(refilled[k]) + Cardinality(Debtors(k))
  /\ bucket[k] = 0 =>
       fails[k] + Cardinality(Passers(k))
         <= Burst[k] + refilled[k] + Slips(refilled[k] + 1)

(* One more time dry lets every other request slip through once more.       *)
LEMMA SlipsGrow ==
  ASSUME NEW n \in Nat
  PROVE  /\ Slips(n) \in Nat
         /\ Slips(n + 1) = Slips(n) + (Cardinality(Requests) - 1)
<1> DEFINE m == Cardinality(Requests) - 1
<1>1. m \in Nat
  BY RequestsAreFinite
<1> HIDE DEF m
<1>2. n * m \in Nat /\ (n + 1) * m = n * m + m
  BY <1>1
<1> QED
  BY <1>2 DEF Slips, m

(* Disjoint sets are counted together by the sum of their counts.           *)
LEMMA DisjointUnion ==
  ASSUME NEW S, NEW T, IsFiniteSet(S), IsFiniteSet(T), S \cap T = {}
  PROVE  Cardinality(S \cup T) = Cardinality(S) + Cardinality(T)
<1>1. Cardinality(S \cup T) = Cardinality(S) + Cardinality(T) - Cardinality(S \cap T)
  BY FS_Union
<1>2. Cardinality(S \cap T) = 0
  BY FS_EmptySet
<1> QED
  BY <1>1, <1>2, FS_CardinalityType

(* A request is in one place.                                               *)
LEMMA PartiesAreFew ==
  ASSUME NEW k
  PROVE  /\ IsFiniteSet(Debtors(k)) /\ IsFiniteSet(Passers(k))
         /\ Cardinality(Debtors(k)) \in Nat /\ Cardinality(Passers(k)) \in Nat
         /\ Cardinality(Debtors(k)) + Cardinality(Passers(k)) <= Cardinality(Requests)
<1>1. Debtors(k) \subseteq Requests /\ Passers(k) \subseteq Requests
  BY DEF Debtors, Passers
<1>2. IsFiniteSet(Debtors(k)) /\ IsFiniteSet(Passers(k))
  BY <1>1, RequestsAreFinite, FS_Subset
<1>3. Debtors(k) \cap Passers(k) = {}
  BY DEF Debtors, Passers, Owes, MayFail
<1>4. Cardinality(Debtors(k) \cup Passers(k))
        = Cardinality(Debtors(k)) + Cardinality(Passers(k))
  BY <1>2, <1>3, DisjointUnion
<1>5. Cardinality(Debtors(k) \cup Passers(k)) <= Cardinality(Requests)
  <2>1. Debtors(k) \cup Passers(k) \subseteq Requests
    BY <1>1
  <2> QED
    BY <2>1, RequestsAreFinite, FS_Subset
<1> QED
  BY <1>2, <1>4, <1>5, FS_CardinalityType

(* How a step of one request moves it among the parties of a bucket.        *)
LEMMA PartiesMove ==
  ASSUME TypeOK, NEW r \in Requests, NEW p, Then(r, p), NEW k
  PROVE  /\ (Owes(pending[r], k) <=> Owes(p, k))
              => Cardinality(Debtors(k)') = Cardinality(Debtors(k))
         /\ Owes(pending[r], k) /\ ~Owes(p, k)
              => Cardinality(Debtors(k)') = Cardinality(Debtors(k)) - 1
         /\ ~Owes(pending[r], k) /\ Owes(p, k)
              => Cardinality(Debtors(k)') = Cardinality(Debtors(k)) + 1
         /\ (MayFail(pending[r], k) <=> MayFail(p, k))
              => Cardinality(Passers(k)') = Cardinality(Passers(k))
         /\ MayFail(pending[r], k) /\ ~MayFail(p, k)
              => Cardinality(Passers(k)') = Cardinality(Passers(k)) - 1
         /\ ~MayFail(pending[r], k) /\ MayFail(p, k)
              => Cardinality(Passers(k)') = Cardinality(Passers(k)) + 1
<1>1. pending'[r] = p /\ \A q \in Requests : q # r => pending'[q] = pending[q]
  BY DEF TypeOK, Then
<1>2. /\ \A q : q # r => (q \in Debtors(k) <=> q \in Debtors(k)')
      /\ \A q : q # r => (q \in Passers(k) <=> q \in Passers(k)')
  BY <1>1 DEF Debtors, Passers, Owes, MayFail
<1>3. /\ r \in Debtors(k) <=> Owes(pending[r], k)
      /\ r \in Debtors(k)' <=> Owes(p, k)
      /\ r \in Passers(k) <=> MayFail(pending[r], k)
      /\ r \in Passers(k)' <=> MayFail(p, k)
  BY <1>1 DEF Debtors, Passers, Owes, MayFail
<1>4. IsFiniteSet(Debtors(k)') /\ IsFiniteSet(Passers(k)')
  BY RequestsAreFinite, FS_Subset DEF Debtors, Passers
<1> DEFINE D == Debtors(k)
           P == Passers(k)
<1>5. IsFiniteSet(D) /\ IsFiniteSet(P) /\ IsFiniteSet(D') /\ IsFiniteSet(P')
  BY <1>4, PartiesAreFew
<1>6. /\ (r \in D <=> r \in D') => Cardinality(D') = Cardinality(D)
      /\ r \in D /\ r \notin D' => Cardinality(D') = Cardinality(D) - 1
      /\ r \notin D /\ r \in D' => Cardinality(D') = Cardinality(D) + 1
  <2> HIDE DEF D, P
  <2> QED
    BY <1>2, <1>5, OneMoves DEF D
<1>7. /\ (r \in P <=> r \in P') => Cardinality(P') = Cardinality(P)
      /\ r \in P /\ r \notin P' => Cardinality(P') = Cardinality(P) - 1
      /\ r \notin P /\ r \in P' => Cardinality(P') = Cardinality(P) + 1
  <2> HIDE DEF D, P
  <2> QED
    BY <1>2, <1>5, OneMoves DEF P
<1> QED
  BY <1>3, <1>6, <1>7, Zenon DEF D, P

(* The quantities of a bucket are natural numbers.                          *)
LEMMA LedgerTypes ==
  ASSUME TypeOK, NEW k \in Keys
  PROVE  /\ bucket[k] \in Nat /\ fails[k] \in Nat /\ refilled[k] \in Nat /\ Burst[k] \in Nat \ {0}
         /\ Slips(refilled[k]) \in Nat
         /\ Slips(refilled[k] + 1) = Slips(refilled[k]) + (Cardinality(Requests) - 1)
<1>1. /\ bucket[k] \in Nat /\ fails[k] \in Nat /\ refilled[k] \in Nat
      /\ Burst[k] \in Nat \ {0}
  BY AccountsAssumption DEF TypeOK, AccountsAssumption
<1> QED
  BY <1>1, SlipsGrow

(* Requests enter only while there is a token, and pay only by failing.     *)
LEMMA QuietSteps ==
  ASSUME TypeOK, NEW k \in Keys, Ledger(k),
         bucket'[k] = bucket[k], refilled'[k] = refilled[k], fails'[k] = fails[k],
         Cardinality(Debtors(k)') = Cardinality(Debtors(k)),
         bucket[k] >= 1 \/ Cardinality(Passers(k)') <= Cardinality(Passers(k))
  PROVE  Ledger(k)'
<1>1. Cardinality(Debtors(k)) \in Nat /\ Cardinality(Passers(k)) \in Nat
  BY PartiesAreFew
<1>2. Cardinality(Passers(k)') \in Nat
  BY RequestsAreFinite, FS_Subset, FS_CardinalityType DEF Passers
<1>3. /\ Slips(refilled[k])' = Slips(refilled[k])
      /\ Slips(refilled[k] + 1)' = Slips(refilled[k] + 1)
  BY DEF Slips
<1>4. CASE bucket[k] >= 1
  BY <1>1, <1>2, <1>3, <1>4, LedgerTypes DEF Ledger
<1>5. CASE bucket[k] = 0
  <2>1. Cardinality(Passers(k)') <= Cardinality(Passers(k)) /\ bucket'[k] = 0
    BY <1>5
  <2>2. Slips(refilled[k] + 1) \in Nat
    BY LedgerTypes, RequestsAreFinite
  <2> QED
    BY <1>1, <1>2, <1>3, <1>5, <2>1, <2>2, LedgerTypes DEF Ledger
<1> QED
  BY <1>4, <1>5, LedgerTypes

(* A failure that passed is one that has to pay.                            *)
LEMMA FailingStep ==
  ASSUME TypeOK, NEW k \in Keys, Ledger(k),
         bucket'[k] = bucket[k], refilled'[k] = refilled[k], fails'[k] = fails[k] + 1,
         Cardinality(Debtors(k)') = Cardinality(Debtors(k)) + 1,
         Cardinality(Passers(k)') = Cardinality(Passers(k)) - 1
  PROVE  Ledger(k)'
<1>1. Cardinality(Debtors(k)) \in Nat /\ Cardinality(Passers(k)) \in Nat
  BY PartiesAreFew
<1>2. /\ Slips(refilled[k])' = Slips(refilled[k])
      /\ Slips(refilled[k] + 1)' = Slips(refilled[k] + 1)
  BY DEF Slips
<1> QED
  BY <1>1, <1>2, LedgerTypes DEF Ledger

(* The charge that takes the last token leaves all others in flight the     *)
(* chance to slip through.                                                  *)
LEMMA ChargingStep ==
  ASSUME TypeOK, NEW k \in Keys, Ledger(k),
         bucket'[k] = IF bucket[k] >= 1 THEN bucket[k] - 1 ELSE 0,
         refilled'[k] = refilled[k], fails'[k] = fails[k],
         Cardinality(Debtors(k)') = Cardinality(Debtors(k)) - 1,
         Cardinality(Passers(k)') = Cardinality(Passers(k))
  PROVE  Ledger(k)'
<1>1. /\ Cardinality(Debtors(k)) \in Nat /\ Cardinality(Passers(k)) \in Nat
      /\ Cardinality(Debtors(k)) + Cardinality(Passers(k)) <= Cardinality(Requests)
  BY PartiesAreFew
<1>2. /\ Slips(refilled[k])' = Slips(refilled[k])
      /\ Slips(refilled[k] + 1)' = Slips(refilled[k] + 1)
  BY DEF Slips
<1>3. Cardinality(Requests) \in Nat \ {0}
  BY RequestsAreFinite
<1>4. CASE bucket[k] >= 2
  BY <1>1, <1>2, <1>4, LedgerTypes DEF Ledger
<1>5. CASE bucket[k] = 1
  BY <1>1, <1>2, <1>3, <1>5, LedgerTypes DEF Ledger
<1>6. CASE bucket[k] = 0
  BY <1>1, <1>2, <1>6, LedgerTypes DEF Ledger
<1> QED
  BY <1>4, <1>5, <1>6, LedgerTypes

(* A token that comes back makes room for a failure, and for one more slip  *)
(* of each other request.                                                   *)
LEMMA RefillingStep ==
  ASSUME TypeOK, NEW k \in Keys, Ledger(k),
         bucket'[k] = bucket[k] + 1, refilled'[k] = refilled[k] + 1, fails'[k] = fails[k],
         Cardinality(Debtors(k)') = Cardinality(Debtors(k))
  PROVE  Ledger(k)'
<1>1. Cardinality(Debtors(k)) \in Nat /\ Cardinality(Passers(k)) \in Nat
  BY PartiesAreFew
<1>2. Slips(refilled[k])' = Slips(refilled[k] + 1)
  BY DEF Slips
<1>3. Cardinality(Requests) - 1 \in Nat
  BY RequestsAreFinite
<1> QED
  BY <1>1, <1>2, <1>3, LedgerTypes DEF Ledger

(* However many requests guess at once, the failures of an account and of   *)
(* an address stay within what the bucket held and got back, and one slip   *)
(* of each other request each time it runs dry (ratelimit.go:157).          *)
THEOREM GuessesStayLimited == Spec => []GuessesAreLimited
<1> DEFINE Ledgers == \A k \in Keys : Ledger(k)
<1>1. Init => Ledgers
  <2> SUFFICES ASSUME Init, NEW k \in Keys PROVE Ledger(k)
    OBVIOUS
  <2>1. TypeOK
    BY AccountsAssumption, PendingOps DEF Init, TypeOK, AccountsAssumption, Link
  <2>2. bucket[k] = Burst[k] /\ fails[k] = 0 /\ refilled[k] = 0
    BY DEF Init
  <2> QED
    BY <2>1, <2>2, LedgerTypes, PartiesAreFew DEF Ledger
<1>2. TypeOK /\ Ledgers /\ [Next]_vars => Ledgers'
  <2> SUFFICES ASSUME TypeOK, Ledgers, [Next]_vars, NEW k \in Keys PROVE Ledger(k)'
    OBVIOUS
  <2> USE DEF database, limiter
  <2>0. Ledger(k) /\ Emails \subseteq Keys /\ IP \in Keys /\ IP \notin Emails
    BY AccountsAssumption DEF AccountsAssumption, Keys
  <2>1. ASSUME UNCHANGED limiter, NEW r \in Requests, NEW p, Then(r, p),
               Owes(pending[r], k) <=> Owes(p, k),
               bucket[k] >= 1 \/ (MayFail(p, k) => MayFail(pending[r], k))
        PROVE  Ledger(k)'
    <3>1. Cardinality(Debtors(k)') = Cardinality(Debtors(k))
      BY <2>1, PartiesMove
    <3>2. CASE bucket[k] >= 1
      BY <2>0, <2>1, <3>1, <3>2, QuietSteps
    <3>3. CASE MayFail(p, k) => MayFail(pending[r], k)
      <4>1. Cardinality(Passers(k)) \in Nat
        BY PartiesAreFew
      <4>2. Cardinality(Passers(k)') <= Cardinality(Passers(k))
        BY <2>1, <3>3, <4>1, PartiesMove
      <4> QED
        BY <2>0, <2>1, <3>1, <4>2, QuietSteps
    <3> QED
      BY <2>1, <3>2, <3>3
  <2>2. ASSUME NEW r \in Requests, NEW p, Then(r, p), UNCHANGED limiter,
               pending[r].op \notin {"check_ip", "charge", "charge_ip"},
               p.op \notin {"check_ip", "verify", "charge", "charge_ip"}
        PROVE  Ledger(k)'
    BY <2>1, <2>2 DEF Owes, MayFail
  <2>3. ASSUME NEW r \in Requests, Calls(r)
        PROVE  Ledger(k)'
    <3>1. ASSUME NEW email \in Emails, Login(r, email)
          PROVE  Ledger(k)'
      BY <2>1, <3>1 DEF Login, Owes, MayFail, Idle
    <3>2. CASE ForgotPassword(r)
      BY <2>2, <3>2 DEF ForgotPassword, Idle
    <3>3. CASE \E l \in Links, new \in Passwords : ResetPassword(r, l, new)
      BY <2>2, <3>3 DEF ResetPassword, Idle
    <3>4. ASSUME NEW old \in Passwords, NEW new \in Passwords,
                 ChangePassword(r, old, new) \/ AdminResetPassword(r, new)
          PROVE  Ledger(k)'
      <4>1. /\ pending[r].op = "idle" /\ UNCHANGED limiter
            /\ Then(r, [op |-> "update", password |-> new, link |-> NoLink])
        BY <3>4 DEF ChangePassword, AdminResetPassword, Idle
      <4> QED
        BY <2>2, <4>1
    <3> QED
      BY <2>3, <3>1, <3>2, <3>3, <3>4 DEF Calls
  <2>4. ASSUME NEW r \in Requests, Continues(r)
        PROVE  Ledger(k)'
    <3>1. CASE CheckIP(r)
      <4>1. CASE bucket[IP] >= 1
        BY <2>1, <3>1, <4>1 DEF CheckIP, Owes, MayFail
      <4>2. CASE ~(bucket[IP] >= 1)
        BY <2>1, <3>1, <4>2 DEF CheckIP, Owes, MayFail, Idle
      <4> QED
        BY <4>1, <4>2
    <3>2. CASE Verified(r)
      BY <2>2, <3>2 DEF Verified, Idle
    <3>3. CASE Unauthorized(r)
      <4> DEFINE e == pending[r].email
                 p == [op |-> "charge", email |-> e]
      <4>1. e \in Emails /\ Then(r, p) /\ UNCHANGED <<bucket, refilled>>
        BY <3>3, PendingOps DEF Unauthorized, TypeOK
      <4>2. fails'[k] = IF k \in {e, IP} THEN fails[k] + 1 ELSE fails[k]
        BY <2>0, <3>3, <4>1 DEF Unauthorized, TypeOK
      <4>3. /\ Owes(p, k) <=> k \in {e, IP}
            /\ MayFail(pending[r], k) <=> k \in {e, IP}
            /\ ~Owes(pending[r], k) /\ ~MayFail(p, k)
        BY <3>3 DEF Unauthorized, Owes, MayFail
      <4>4. CASE k \in {e, IP}
        BY <2>0, <4>1, <4>2, <4>3, <4>4, PartiesMove, FailingStep
      <4>5. CASE k \notin {e, IP}
        <5>1. /\ Cardinality(Debtors(k)') = Cardinality(Debtors(k))
              /\ Cardinality(Passers(k)') = Cardinality(Passers(k))
          BY <4>1, <4>3, <4>5, PartiesMove
        <5>2. Cardinality(Passers(k)) \in Nat
          BY PartiesAreFew
        <5> QED
          BY <2>0, <4>1, <4>2, <4>5, <5>1, <5>2, QuietSteps
      <4> QED
        BY <4>4, <4>5
    <3>4. CASE Charge(r)
      <4> DEFINE e == pending[r].email
                 p == [op |-> "charge_ip", email |-> e]
      <4>1. e \in Emails /\ Then(r, p) /\ UNCHANGED <<fails, refilled>> /\ penalize(e)
        BY <3>4, PendingOps DEF Charge, TypeOK
      <4>2. /\ Owes(pending[r], k) <=> k \in {e, IP}
            /\ Owes(p, k) <=> k = IP
            /\ ~MayFail(pending[r], k) /\ ~MayFail(p, k)
        BY <3>4 DEF Charge, Owes, MayFail
      <4>3. Cardinality(Passers(k)') = Cardinality(Passers(k)) /\ Cardinality(Passers(k)) \in Nat
        BY <4>1, <4>2, PartiesMove, PartiesAreFew
      <4>4. CASE k = e
        <5>1. Cardinality(Debtors(k)') = Cardinality(Debtors(k)) - 1
          BY <2>0, <4>1, <4>2, <4>4, PartiesMove
        <5>2. bucket'[k] = IF bucket[k] >= 1 THEN bucket[k] - 1 ELSE 0
          BY <4>1, <4>4 DEF penalize, TypeOK
        <5> QED
          BY <2>0, <4>1, <4>3, <5>1, <5>2, ChargingStep
      <4>5. CASE k # e
        <5>1. Cardinality(Debtors(k)') = Cardinality(Debtors(k))
          BY <4>1, <4>2, <4>5, PartiesMove
        <5>2. bucket'[k] = bucket[k]
          BY <4>1, <4>5 DEF penalize, TypeOK
        <5> QED
          BY <2>0, <4>1, <4>3, <5>1, <5>2, QuietSteps
      <4> QED
        BY <4>4, <4>5
    <3>5. CASE ChargeIP(r)
      <4>1. Then(r, Idle) /\ UNCHANGED <<fails, refilled>> /\ penalize(IP)
        BY <3>5 DEF ChargeIP
      <4>2. /\ Owes(pending[r], k) <=> k = IP
            /\ ~Owes(Idle, k) /\ ~MayFail(pending[r], k) /\ ~MayFail(Idle, k)
        BY <3>5 DEF ChargeIP, Owes, MayFail, Idle
      <4>3. Cardinality(Passers(k)') = Cardinality(Passers(k)) /\ Cardinality(Passers(k)) \in Nat
        BY <4>1, <4>2, PartiesMove, PartiesAreFew
      <4>4. CASE k = IP
        <5>1. Cardinality(Debtors(k)') = Cardinality(Debtors(k)) - 1
          BY <4>1, <4>2, <4>4, PartiesMove
        <5>2. bucket'[k] = IF bucket[k] >= 1 THEN bucket[k] - 1 ELSE 0
          BY <4>1, <4>4 DEF penalize, TypeOK
        <5> QED
          BY <2>0, <4>1, <4>3, <5>1, <5>2, ChargingStep
      <4>5. CASE k # IP
        <5>1. Cardinality(Debtors(k)') = Cardinality(Debtors(k))
          BY <4>1, <4>2, <4>5, PartiesMove
        <5>2. bucket'[k] = bucket[k]
          BY <4>1, <4>5 DEF penalize, TypeOK
        <5> QED
          BY <2>0, <4>1, <4>3, <5>1, <5>2, QuietSteps
      <4> QED
        BY <4>4, <4>5
    <3>6. CASE InvalidateUnused(r) \/ Lapse(r)
      BY <2>2, <3>6 DEF InvalidateUnused, Lapse
    <3>7. CASE Create(r)
      BY <2>2, <3>7 DEF Create
    <3>8. CASE SendPasswordReset(r) \/ UpdatePassword(r)
      BY <2>2, <3>8 DEF SendPasswordReset, UpdatePassword, Idle
    <3>9. CASE GiveUp(r)
      BY <2>2, <3>9, AccountsAssumption DEF GiveUp, Idle, AccountsAssumption
    <3> QED
      BY <2>4, <3>1, <3>2, <3>3, <3>4, <3>5, <3>6, <3>7, <3>8, <3>9 DEF Continues
  <2>5. ASSUME UNCHANGED pending
        PROVE  Debtors(k)' = Debtors(k) /\ Passers(k)' = Passers(k)
    BY <2>5 DEF Debtors, Passers, Owes, MayFail
  <2>6. ASSUME UNCHANGED <<pending, limiter>>
        PROVE  Ledger(k)'
    <3>1. Cardinality(Passers(k)) \in Nat
      BY PartiesAreFew
    <3> QED
      BY <2>0, <2>5, <2>6, <3>1, QuietSteps
  <2>7. ASSUME NEW j \in Keys, Refill(j)
        PROVE  Ledger(k)'
    <3>1. UNCHANGED <<pending, fails>>
      BY <2>7 DEF Refill
    <3>2. CASE k = j
      <4>1. bucket'[k] = bucket[k] + 1 /\ refilled'[k] = refilled[k] + 1
        BY <2>7, <3>2 DEF Refill, TypeOK
      <4> QED
        BY <2>0, <2>5, <3>1, <4>1, RefillingStep
    <3>3. CASE k # j
      <4>1. bucket'[k] = bucket[k] /\ refilled'[k] = refilled[k]
        BY <2>7, <3>3 DEF Refill, TypeOK
      <4>2. Cardinality(Passers(k)) \in Nat
        BY PartiesAreFew
      <4> QED
        BY <2>0, <2>5, <3>1, <4>1, <4>2, QuietSteps
    <3> QED
      BY <3>2, <3>3
  <2>8. CASE Cool \/ \E l \in Links : Expire(l)
    BY <2>6, <2>8 DEF Cool, Expire
  <2>9. CASE UNCHANGED vars
    BY <2>6, <2>9 DEF vars
  <2> QED
    BY <2>3, <2>4, <2>7, <2>8, <2>9 DEF Next
<1>3. TypeOK /\ Ledgers => GuessesAreLimited
  <2> SUFFICES ASSUME TypeOK, Ledgers, NEW k \in Keys
               PROVE  fails[k] <= Burst[k] + refilled[k] + Slips(refilled[k] + 1)
    BY DEF GuessesAreLimited, Slips
  <2>1. /\ Cardinality(Debtors(k)) \in Nat /\ Cardinality(Passers(k)) \in Nat
        /\ Cardinality(Debtors(k)) <= Cardinality(Requests)
    BY PartiesAreFew, RequestsAreFinite
  <2>2. Cardinality(Requests) \in Nat \ {0}
    BY RequestsAreFinite
  <2> QED
    BY <2>1, <2>2, LedgerTypes DEF Ledger
<1> QED
  BY <1>1, <1>2, <1>3, TypeCorrect, PTL DEF Spec
=============================================================================
